------------------------------- MODULE Exposure -------------------------------
(***************************************************************************)
(* crates/analysis: overfetching.rs and sensitive_taxonomy.rs, what an     *)
(* analysis reads out of a response body.  A text is the set of facts the  *)
(* code asks about it, a key the set of fragments found in it.             *)
(***************************************************************************)
LOCAL INSTANCE Naturals
LOCAL INSTANCE Sequences
LOCAL INSTANCE FiniteSets
LOCAL INSTANCE SequencesExt
LOCAL INSTANCE FiniteSetsExt

CONSTANTS MAX_ITEMS_PER_ARRAY, MAX_WALKED_NODES, MAX_ROWS

(* A JSON value is [kind |-> "string" or "number", is |-> facts], [kind |->   *)
(* "bool"], [kind |-> "array", items |-> values] or [kind |-> "object",       *)
(* fields |-> <<[key |-> name, val |-> value], ..>>].                         *)
IsObject(v) == v.kind = "object"
IsArray(v)  == v.kind = "array"
Nested(v)   == v.kind \in {"object", "array"}

------------------------------------------------------------------------------
(* Which group a key belongs to.  `holds` are the texts the key contains,     *)
(* `ends` the short ones a word of it ends with.                              *)

Groups == <<
  [id |-> "credential", long |-> {"password", "passwd", "passphrase", "matkhau", "mat_khau"}, short |-> {"pwd"}],
  [id |-> "token", long |-> {"token", "api_key", "apikey", "apisecret", "api_secret",
                             "client_secret", "bearer", "authorization"}, short |-> {}],
  [id |-> "pii_contact", long |-> {"email", "phone", "mobile", "dienthoai", "dien_thoai",
                                   "sodienthoai", "so_dien_thoai"}, short |-> {"sdt"}],
  [id |-> "pii_gov_id", long |-> {"citizen_id", "citizenid", "national_id", "nationalid", "tax_id",
                                  "taxid", "masothue"}, short |-> {"ssn", "cccd", "cmnd", "mst"}],
  [id |-> "payment", long |-> {"card_number", "cardnumber", "card_no", "cardno", "credit_card",
                               "creditcard"}, short |-> {}],
  [id |-> "answer_content", long |-> {"answer", "solution", "problemstatement", "problem_statement",
                                      "statement", "question", "dethi", "de_thi", "debai", "de_bai",
                                      "dapan", "da_pan", "dap_an"}, short |-> {"exam"}] >>

BuiltinExcluded == {"cursor", "page_token", "pagetoken", "pagination", "pagestate", "classname", "prepare"}

fragment_matches_key(key, group) == key.holds \cap group.long # {} \/ key.ends \cap group.short # {}

\* classify_key: the exclusions, then the groups in their order, then the keys of the
\* configuration, with separators or without.
classify_key(key, cfg) ==
  LET of == {g \in DOMAIN Groups : fragment_matches_key(key, Groups[g])} IN
  CASE key.holds \cap (BuiltinExcluded \cup cfg.excluded) # {} -> "none"
    [] key.holds \cap (BuiltinExcluded \cup cfg.excluded) = {} /\ of # {} -> Groups[Min(of)].id
    [] OTHER -> IF (key.holds \cup key.compact) \cap cfg.extra # {} THEN "custom" ELSE "none"

\* luhn_valid: from the right, every second digit is doubled and its digits are added.
luhn_valid(digits) ==
  LET n     == Len(digits)
      at(i) == IF (n - i) % 2 = 0 THEN digits[i]
               ELSE IF digits[i] * 2 > 9 THEN digits[i] * 2 - 9 ELSE digits[i] * 2
  IN  n \in 13..19 /\ MapThenSumSet(at, 1..n) % 10 = 0

meaningful(group, text) ==
  CASE group = "payment"     -> "luhn" \in text
    [] group = "pii_gov_id"  -> "gov_id" \in text
    [] group = "pii_contact" -> text \cap {"at_sign", "phone"} # {}
    [] OTHER                 -> "meaningful" \in text

------------------------------------------------------------------------------
(* The walk over a value.  Findings are [signals, passwords]: pairs <<what,   *)
(* key>>, and the keys whose values are kept as evidence.                     *)

Nothing    == [signals |-> {}, passwords |-> {}]
All(findings) == [signals |-> UNION {f.signals : f \in findings}, passwords |-> UNION {f.passwords : f \in findings}]

PrivacyFragments == {"private", "password", "secret", "isanswerpublic", "restricted"}

\* check_object_anomalies, of one field.
field_anomalies(name, val, keys, cfg) ==
  LET key   == keys[name]
      text  == IF val.kind \in {"string", "number"} THEN val.is ELSE {}
      group == classify_key(key, cfg)
      sensitive ==
        /\ group # "none"
        /\ val.kind = "string" \/ (val.kind = "number" /\ group \in {"payment", "pii_gov_id", "pii_contact"})
        /\ meaningful(group, text)
      when(c, what) == IF c THEN {<<what, name>>} ELSE {}
  IN  [signals |-> UNION {
         when(/\ key.holds \cap PrivacyFragments # {}
              /\ val.kind = "bool" \/ text \cap {"private", "hidden"} # {}, "privacy_flag_conflict"),
         when(sensitive, "sensitive_field:" \o group),
         when(IsArray(val) /\ \E i \in DOMAIN val.items : IsObject(val.items[i]), "nested_entity"),
         when(val.kind = "string" /\ "candidate" \in text, "high_entropy_value"),
         when(val.kind = "string" /\ "long" \in text, "long_text_field")},
       passwords |-> IF \/ name = "password" /\ val.kind = "string" /\ "blank" \notin text
                        \/ sensitive /\ group \in {"credential", "custom"} THEN {name} ELSE {}]

check_object_anomalies(v, keys, cfg) ==
  IF ~IsObject(v) THEN Nothing
  ELSE All({field_anomalies(m.key, m.val, keys, cfg) : m \in ToSet(v.fields)})

Walked0 == [found |-> Nothing, visited |-> 0, largest |-> 0]

RECURSIVE check_structural_bug(_, _, _, _)

\* bug: an array in an array is not gone into
check_structural_bug(w, v, keys, cfg) ==
  IF w.visited >= MAX_WALKED_NODES THEN w
  ELSE LET kept == IF IsArray(v) THEN SubSeq(v.items, 1, Min({Len(v.items), MAX_ITEMS_PER_ARRAY}))
                   ELSE IF IsObject(v) THEN [i \in DOMAIN v.fields |-> v.fields[i].val] ELSE <<>>
           own  == IF IsArray(v) THEN kept ELSE <<v>>
           here == [w EXCEPT !.visited = @ + 1,
                      !.found = All({@} \cup {check_object_anomalies(o, keys, cfg) : o \in ToSet(own)})]
       IN  FoldLeft(LAMBDA s, k : IF IsArray(v) /\ IsArray(k) THEN s ELSE check_structural_bug(s, k, keys, cfg),
                    here, SelectSeq(kept, Nested))

RECURSIVE check_structural_anomalies(_, _, _, _)

\* check_structural_anomalies: the walk w goes on with v.  Only so many nodes are visited and
\* so many items of an array looked at, but all objects of an array are counted.
check_structural_anomalies(w, v, keys, cfg) ==
  IF w.visited >= MAX_WALKED_NODES THEN w
  ELSE LET kept == IF IsArray(v) THEN SubSeq(v.items, 1, Min({Len(v.items), MAX_ITEMS_PER_ARRAY}))
                   ELSE IF IsObject(v) THEN [i \in DOMAIN v.fields |-> v.fields[i].val] ELSE <<>>
           own  == IF IsArray(v) THEN kept ELSE <<v>>
           count == IF IsArray(v) THEN Len(SelectSeq(v.items, IsObject)) ELSE 0
           here == [visited |-> w.visited + 1, largest |-> Max({w.largest, count}),
                    found |-> All({w.found} \cup {check_object_anomalies(o, keys, cfg) : o \in ToSet(own)})]
       IN  FoldLeft(LAMBDA s, k : check_structural_anomalies(s, k, keys, cfg), here, SelectSeq(kept, Nested))

------------------------------------------------------------------------------
(* What is parsed out of a body.                                              *)

\* balanced_bracket_end: past the bracket that closes the one at `open`, those in string
\* literals left aside; 0 if there is none.
balanced_bracket_end(text, open) ==
  LET step(s, b) ==
        CASE s.end # 0 -> s
          [] s.end = 0 /\ s.string ->
               [s EXCEPT !.at = @ + 1, !.escaped = ~s.escaped /\ b = "\\",
                         !.string = s.escaped \/ b # "\""]
          [] OTHER ->
               [s EXCEPT !.at = @ + 1, !.string = (b = "\""),
                         !.depth = CASE b = "[" -> @ + 1 [] b = "]" -> @ - 1 [] OTHER -> @,
                         !.end = IF b = "]" /\ s.depth = 1 THEN s.at + 1 ELSE 0]
  IN  IF open > Len(text) \/ text[open] # "[" THEN 0
      ELSE FoldLeft(step, [at |-> open, depth |-> 0, string |-> FALSE, escaped |-> FALSE, end |-> 0],
                    SubSeq(text, open, Len(text))).end

\* html_decode of a text of symbols, an entity being "&" and its name: one pass for each entity.
html_decode(text) ==
  LET put(e, s, b) ==
        IF s.amp /\ b = e[1] THEN [text |-> Append(Front(s.text), e[2]), amp |-> FALSE]
        ELSE [text |-> Append(s.text, b), amp |-> b = "&"]
      pass(t, e) == FoldLeft(LAMBDA s, b : put(e, s, b), [text |-> <<>>, amp |-> FALSE], t).text
  IN  FoldLeft(pass, text, << <<"quot;", "\"">>, <<"lt;", "<">>, <<"amp;", "&">> >>)

\* parse_flight_rows: objects and arrays, up to a limit that counts what was there before.
parse_flight_rows(results, rows) ==
  FoldLeft(LAMBDA r, row : IF Len(r) < MAX_ROWS /\ row.kind # "unparsed" /\ Nested(row) THEN Append(r, row) ELSE r,
           results, rows)

(* A body is [blank, kind, size, values, pushes, rows, text, chunks, pages]:  *)
(* values are those of the page (__NEXT_DATA__, wire:snapshot) or of the body *)
(* if it is JSON as a whole, pushes the rows of each self.__next_f.push,      *)
(* rows those of the raw text, `text` the facts about it, chunks those about  *)
(* each RSC chunk, and pages the <<current, total>> it speaks of.             *)

extract_json_payloads(b) ==
  IF "is_json" \in b.text THEN b.values
  ELSE LET found == FoldLeft(parse_flight_rows, <<>>, b.pushes) \o b.values IN
       IF b.kind = "x-component" /\ found = <<>> /\ b.pushes = <<>>
       THEN parse_flight_rows(found, b.rows) ELSE found

\* What one RSC chunk says by itself.
chunk_signals(c) ==
  UNION {IF "long" \in c THEN {<<"rsc_long_text_chunk", "">>} ELSE {},
         IF "problem_header" \in c THEN {<<"rsc_content_leak", "problem_statement_header">>} ELSE {},
         IF "answer_fragment" \in c THEN {<<"rsc_content_leak", "answer_content">>} ELSE {},
         IF "private_status" \in c THEN {<<"privacy_flag_conflict", "private_status">>} ELSE {}}

\* analyze_rsc_stream_payloads
rsc_findings(b) ==
  IF b.pushes = <<>> THEN Nothing
  ELSE [signals |-> UNION {chunk_signals(b.chunks[k]) : k \in DOMAIN b.chunks},
        passwords |-> IF "password_pair" \in b.text THEN {"password"} ELSE {}]

\* fallback_string_analysis
fallback(b) ==
  LET when(fact, s) == IF fact \in b.text THEN {s} ELSE {} IN
  [signals |-> UNION {when("status_private", <<"privacy_flag_conflict", "status">>),
                      when("answer_public_false", <<"privacy_flag_conflict", "isAnswerPublic">>),
                      when("problem_statement", <<"long_text_field", "problemStatement">>),
                      when("problem_object", <<"nested_entity", "problem">>),
                      when("answer_key", <<"sensitive_field:answer_content", "present">>)},
   passwords |-> IF "credential_pair" \in b.text THEN {"password"} ELSE {}]

census_pagination(b) ==
  (IF \E p \in b.pages : p[2] > p[1] THEN {<<"pagination_incomplete", "pages">>} ELSE {})
  \cup (IF "has_next" \in b.text THEN {<<"pagination_incomplete", "has_next">>} ELSE {})

is_size_checkable(b) == b.kind # "binary"
is_render_surface(b) == b.kind \in {"html", "x-component"}

SensitiveCore == {"sensitive_field:" \o g : g \in {"credential", "answer_content", "payment", "pii_gov_id", "custom"}}
Sensitive     == SensitiveCore \cup {"sensitive_field:token", "sensitive_field:pii_contact"}

\* The findings of a body with the signals that come of them and of the body as a whole.
judged(b, values, largest, found, cfg) ==
  LET when(c, what) == IF c THEN {<<what, "">>} ELSE {}
      named(S) == \E s \in found.signals : s[1] \in S
      in_html == is_render_surface(b) /\ "embedded_large" \in b.text /\ values # <<>>
      collection == \/ values # <<>> /\ IsArray(Head(values))
                    \/ census_pagination(b) # {} \/ "collection_key" \in b.text
  IN  [signals |-> UNION {found.signals, census_pagination(b),
                    when(largest > cfg.mass_entities, "mass_exposure"),
                    when("many_emails" \in b.text, "mass_pii_exposure"),
                    when(in_html, "api_payload_in_html"),
                    when(in_html /\ (named(Sensitive) \/ found.passwords # {}), "sensitive_payload_in_html"),
                    when(is_render_surface(b) /\ {"login_hint", "qr_image"} \subseteq b.text, "auth_qr_in_html"),
                    when(named(SensitiveCore) /\ collection, "sensitive_in_collection"),
                    when(found.passwords # {}, "exposed_passwords")},
       passwords |-> found.passwords]

\* Only when nothing else speaks, the raw text is searched.
or_fallback(parsed, b) == IF parsed = Nothing THEN fallback(b) ELSE parsed

analyze_values(b, values, walk, cfg) ==
  LET oversized == is_size_checkable(b) /\ b.size >= cfg.oversized
      sized     == [Nothing EXCEPT !.signals = IF oversized THEN {<<"oversized_response", "">>} ELSE {}]
  IN  judged(b, values, walk.largest, or_fallback(All({sized, walk.found, rsc_findings(b)}), b), cfg)

suspicious(all) == [signals |-> all.signals, passwords |-> all.passwords, is_suspicious |-> all.signals # {}]

\* analyze_with_config: the findings in full; they are suspicious when there is a signal.
analyze_with_config(b, keys, cfg) ==
  LET values == extract_json_payloads(b)
      walk   == FoldLeft(LAMBDA w, v : check_structural_anomalies(w, v, keys, cfg), Walked0, values)
  IN  suspicious(IF "blank" \in b.text THEN Nothing ELSE analyze_values(b, values, walk, cfg))
===============================================================================
