------------------------------- MODULE Mutations -------------------------------
(***************************************************************************)
(* Which parameters a flow has (crates/analysis/src/param_analyzer.rs),    *)
(* how a scan changes them (crates/scanner: mutation_engine.rs,            *)
(* response_verifier.rs) and how a security test changes its target        *)
(* (crates/security/src/executor.rs).  Texts are sequences of symbols.     *)
(***************************************************************************)
LOCAL INSTANCE Naturals
LOCAL INSTANCE Sequences
LOCAL INSTANCE FiniteSets
LOCAL INSTANCE SequencesExt
LOCAL INSTANCE FiniteSetsExt

(* A flow is [path, query, headers, body]: the segments of its path, pairs    *)
(* <<name, value>>, and a JSON value.  A JSON value is [kind |-> "scalar",    *)
(* text], [kind |-> "array", items], [kind |-> "object", fields |-> pairs     *)
(* <<key, value>>] or None.  A key is the sequence of its parts between dots. *)
None    == [kind |-> "none"]
Null    == [kind |-> "scalar", text |-> "null"]
Text(t) == [kind |-> "scalar", text |-> t]
Nested(v) == v.kind \in {"object", "array"}

InterestingHeaders == {"authorization", "x-api-key", "x-auth-token", "cookie"}
IsDigits(segment)  == segment # <<>> /\ \A i \in DOMAIN segment : segment[i] \in {"1", "2"}

Key(k)   == [key |-> k, index |-> 0]
Index(i) == [key |-> "", index |-> i]

\* The path of a field below `prefix`: its name joins the parts of the key with the dots that
\* join keys, so that reading it again splits them.
joined(prefix, key) == prefix \o [i \in DOMAIN key |-> Key(key[i])]

RECURSIVE walk_json(_, _)

\* walk_json: the scalar fields of the objects of a body; scalars of arrays are no parameters.
walk_json(v, prefix) ==
  CASE v.kind = "object" ->
         FlattenSeq([i \in DOMAIN v.fields |->
           LET at == joined(prefix, v.fields[i][1]) IN
           IF Nested(v.fields[i][2]) THEN walk_json(v.fields[i][2], at)
           ELSE <<[location |-> "body_json", name |-> at, sample |-> v.fields[i][2].text]>>])
    [] v.kind = "array" ->
         FlattenSeq([i \in DOMAIN v.items |-> walk_json(v.items[i], Append(prefix, Index(i)))])
    [] OTHER -> <<>>

\* analyze_flow
analyze_flow(flow) ==
  LET named(pairs, location) ==
        [i \in DOMAIN pairs |-> [location |-> location, name |-> pairs[i][1], sample |-> pairs[i][2]]]
      numbers == SelectSeq(flow.path, IsDigits)
  IN  named(flow.query, "query")
      \o (IF flow.body.kind = "object" THEN walk_json(flow.body, <<>>) ELSE <<>>)
      \o named(SelectSeq(flow.headers, LAMBDA h : h[1] \in InterestingHeaders), "header")
      \o [i \in DOMAIN numbers |-> [location |-> "path", name |-> "path_param", sample |-> numbers[i]]]

\* mutate_query: the first parameter of the name, or one more.
mutate_query(flow, name, value) ==
  LET at == {i \in DOMAIN flow.query : flow.query[i][1] = name} IN
  [flow EXCEPT !.query = IF at = {} THEN Append(@, <<name, value>>) ELSE [@ EXCEPT ![Min(at)] = <<name, value>>]]

RECURSIVE set_json_path_bug(_, _, _)

\* bug: a key that is there is set at its first part without going down
set_json_path_bug(v, path, value) ==
  IF path = <<>> THEN value
  ELSE IF v.kind # "object" \/ path[1].key = "" THEN v
  ELSE LET at == {i \in DOMAIN v.fields : v.fields[i][1] = <<path[1].key>>} IN
       IF at = {} THEN [v EXCEPT !.fields = Append(@, <<<<path[1].key>>, value>>)]
       ELSE [v EXCEPT !.fields[Min(at)][2] = IF Len(path) = 1 THEN value ELSE set_json_path_bug(@, Tail(path), value)]

RECURSIVE set_json_path(_, _, _)

\* set_json_path: a key that is missing is made, an object on the way to the rest of the
\* path and the value at its end; an array grows on the way, and at the end keeps its length.
set_json_path(v, path, value) ==
  LET step == Head(path)
      last == Len(path) = 1
      down(w) == IF last THEN value ELSE set_json_path(w, Tail(path), value)
  IN  CASE v.kind = "object" /\ step.key # "" ->
             LET at == {i \in DOMAIN v.fields : v.fields[i][1] = <<step.key>>} IN
             [v EXCEPT !.fields = IF at = {}
                THEN Append(@, << <<step.key>>, down([kind |-> "object", fields |-> <<>>]) >>)
                ELSE [@ EXCEPT ![Min(at)] = <<@[1], down(@[2])>>]]
        [] v.kind = "array" /\ step.key = "" /\ (~last \/ step.index <= Len(v.items)) ->
             LET grown == [i \in 1..Max({Len(v.items), step.index}) |->
                             IF i <= Len(v.items) THEN v.items[i] ELSE Null]
             IN  [v EXCEPT !.items = [grown EXCEPT ![step.index] = down(@)]]
        [] OTHER -> v

\* mutate_json_body: a body that is no JSON stays; the content type is added when it is missing.
mutate_json_body(flow, name, value) ==
  LET typed == \E i \in DOMAIN flow.headers : flow.headers[i][1] = "content-type" IN
  [flow EXCEPT !.body = IF @ = None THEN @ ELSE set_json_path(@, name, Text(value)),
               !.headers = IF typed THEN @ ELSE Append(@, <<"content-type", "application/json">>)]

\* mutate_header
mutate_header(flow, name, value) ==
  [flow EXCEPT !.headers = Append(SelectSeq(@, LAMBDA h : h[1] # name), <<name, value>>)]

\* str::replace in a segment: every place the sample stands in, from the left.
RECURSIVE replaced(_, _, _)
replaced(segment, sample, value) ==
  IF Len(segment) < Len(sample) \/ segment = <<>> THEN segment
  ELSE IF IsPrefix(sample, segment)
  THEN <<value>> \o replaced(SubSeq(segment, Len(sample) + 1, Len(segment)), sample, value)
  ELSE <<Head(segment)>> \o replaced(Tail(segment), sample, value)

\* mutate_path: wherever the sample stands in the path.
mutate_path(flow, sample, value) ==
  IF sample = <<>> THEN flow
  ELSE [flow EXCEPT !.path = [i \in DOMAIN @ |-> replaced(@[i], sample, value)]]

\* mutate: forms and cookies are put into a header.
mutate(flow, param, value) ==
  CASE param.location = "query"     -> mutate_query(flow, param.name, value)
    [] param.location = "body_json" -> mutate_json_body(flow, param.name, value)
    [] param.location = "path"      -> mutate_path(flow, param.sample, value)
    [] OTHER                        -> mutate_header(flow, param.name, value)

\* mutations_for: parameters, skills and payloads in their order, until there are as many as the
\* limit allows for all parameters together.  A mutation is <<parameter, skill, payload>>.
mutations_for(params, skills, payloads_for, limit) ==
  LET all == FlattenSeq(FlattenSeq(
               [p \in DOMAIN params |-> [s \in DOMAIN skills |->
                  [t \in DOMAIN payloads_for[skills[s]] |-> <<p, skills[s], payloads_for[skills[s]][t]>>]]]))
  IN  SubSeq(all, 1, Min({Len(all), Max({limit, 1}) * Len(params)}))

\* ResponseVerifier::classify: of a response [status, facts], the facts being what the
\* analyzers and the searches find in its body.
classify(skill, response) ==
  CASE skill \in {"excessive_data_exposure", "rsc_hydration_leak"} /\ "overfetching" \in response.facts -> "High"
    [] skill \in {"secret_leak", "cwe_debug_exposure"} /\ "secret" \in response.facts -> "High"
    [] "reflected" \in response.facts -> IF skill \in {"sqli", "xss"} THEN "High" ELSE "Warning"
    [] OTHER -> IF skill = "sqli" /\ ("sql_error" \in response.facts \/ response.status >= 500)
                THEN "Warning" ELSE "none"

------------------------------------------------------------------------------
(* A security test [path, query, flaw, payload, location, name] becomes a     *)
(* request [path, query, headers, body]; a path that ends with a slash ends   *)
(* with an empty segment.  Its location is [at, name]: a word and what stands *)
(* behind its colon, NoName when there is no colon.                           *)

NoName == "no name"

RECURSIVE trimmed(_)
trimmed(path) == IF path # <<>> /\ Last(path) = <<>> THEN trimmed(Front(path)) ELSE path

Panics == [panics |-> TRUE]

\* idor changes the last character of the target as it is written: of the last query value, of
\* the last segment, or the slash behind it, which joins the new character to the segment before.
flip_last(base) ==
  CASE base.query # <<>> -> [base EXCEPT !.query[Len(base.query)][2] = "flipped"]
    [] base.query = <<>> /\ Last(base.path) # <<>> -> [base EXCEPT !.path = Append(Front(@), <<"flipped">>)]
    [] OTHER -> LET before == Front(base.path) IN
                [base EXCEPT !.path = IF before = <<>> THEN << <<"a">> >> ELSE Append(Front(before), Append(Last(before), "a"))]

\* path.contains("callbackUrl") or path.contains("redirect")
redirects(test) ==
  {"callbackUrl", "redirect"} \cap
    (UNION {ToSet(test.path[i]) : i \in DOMAIN test.path} \cup UNION {ToSet(test.query[i]) : i \in DOMAIN test.query}) # {}

\* mutate_target with a payload: the place the location names, and the query for every location
\* that is not of one of the forms.  In the path it takes the place of the last segment, and a
\* path without segments panics.
with_payload(test, base) ==
  LET loc   == test.location
      named == loc.name # NoName
      json  == <<"content-type", "application/json">>
      at    == trimmed(test.path)
  IN  CASE named /\ loc.at = "body" ->
             [base EXCEPT !.body = IF loc.name = "" THEN <<test.payload>> ELSE <<loc.name, test.payload>>, !.headers = <<json>>]
        [] ~named /\ loc.at = "body" ->
             [base EXCEPT !.body = <<test.payload>>, !.headers = IF test.is_json THEN <<json>> ELSE <<>>]
        [] ~named /\ loc.at = "path" ->
             IF at = <<>> THEN Panics ELSE [base EXCEPT !.path = Append(Front(at), <<test.payload>>)]
        [] named /\ loc.at = "header" -> [base EXCEPT !.headers = <<<<loc.name, test.payload>>>>]
        [] named /\ loc.at = "cookie" -> [base EXCEPT !.headers = <<<<"cookie", loc.name, test.payload>>>>]
        [] OTHER -> [base EXCEPT !.query = Append(@, <<IF named /\ loc.at = "query" THEN loc.name ELSE "payload", test.payload>>)]

\* mutate_target
mutate_target(test) ==
  LET base == [panics |-> FALSE, path |-> test.path, query |-> test.query, headers |-> <<>>, body |-> <<>>]
      query(n, v) == [base EXCEPT !.query = Append(@, <<n, v>>)]
  IN  IF test.payload # "" THEN with_payload(test, base)
      ELSE CASE test.flaw = "xss"  -> query("x", "<script>")
             [] test.flaw = "sqli" -> query("q", "OR")
             [] test.flaw = "idor" -> flip_last(base)
             [] test.flaw = "open_redirect" /\ ~redirects(test) -> query("callbackUrl", "evil")
             [] OTHER -> base
===============================================================================
