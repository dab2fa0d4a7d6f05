----------------------------- MODULE RequestRules -----------------------------
(***************************************************************************)
(* crates/proxy/src/match_replace.rs and crates/domain/src/scope.rs: the   *)
(* rules a request and its response go through, and which hosts and paths  *)
(* are captured.  A pattern is the set of the texts it matches, "bad" in   *)
(* it meaning that it does not compile; replacing rewrites a whole text.   *)
(***************************************************************************)
LOCAL INSTANCE Naturals
LOCAL INSTANCE Sequences
LOCAL INSTANCE SequencesExt

(* A rule is [name, direction, condition, action]: a condition is [on, header, *)
(* pattern], an action [do, header, value, pattern], header and value being    *)
(* "bad" when http does not accept them.  Headers are a function from names    *)
(* to the sequences of their values, <<>> for a header that is not there.      *)

is_match(pattern, text) == "bad" \notin pattern /\ text \in pattern

\* CompiledCondition::matches: of a header the first value counts.
condition_matches(c, headers, path, body) ==
  CASE c.on = "always" -> TRUE
    [] c.on = "header" -> /\ c.header # "bad" /\ headers[c.header] # <<>>
                          /\ is_match(c.pattern, Head(headers[c.header]))
    [] c.on = "path"   -> is_match(c.pattern, path)
    [] c.on = "body"   -> body # "none" /\ is_match(c.pattern, body)

\* apply_headers: a header that is set loses its other values.
apply_headers(a, headers) ==
  CASE a.do = "set_header" /\ a.header # "bad" /\ a.value # "bad" -> [headers EXCEPT ![a.header] = <<a.value>>]
    [] a.do = "remove_header" /\ a.header # "bad" -> [headers EXCEPT ![a.header] = <<>>]
    [] OTHER -> headers

replaced(a, do, text) == IF a.do = do /\ is_match(a.pattern, text) THEN a.value ELSE text

Directed(rules, direction) == SelectSeq(rules, LAMBDA r : r.direction = direction)

\* apply_to_request_headers, apply_to_response_headers: each rule sees what the rules before
\* it made of the headers; a response has no body here.
apply_to_headers(rules, direction, headers, path, body) ==
  LET seen == IF direction = "response" THEN "none" ELSE body
      step(h, r) == IF condition_matches(r.condition, h, path, seen) THEN apply_headers(r.action, h) ELSE h
  IN  FoldLeft(step, headers, Directed(rules, direction))

\* apply_to_body: each rule sees the body the rules before it left.
apply_to_body(rules, direction, headers, path, body) ==
  LET step(b, r) == IF condition_matches(r.condition, headers, path, b)
                    THEN replaced(r.action, "replace_body", b) ELSE b
  IN  FoldLeft(step, body, Directed(rules, direction))

\* apply_to_url: every rule is asked of the request as it came, and rewrites the url so far.
apply_to_url(rules, url, headers, path, body) ==
  LET step(u, r) == IF condition_matches(r.condition, headers, path, body)
                    THEN replaced(r.action, "replace_url", u) ELSE u
  IN  FoldLeft(step, url, Directed(rules, "request"))

\* add_rule, remove_rule
add_rule(rules, rule)    == Append(rules, rule)
remove_rule(rules, name) == SelectSeq(rules, LAMBDA r : r.name # name)

\* ScopeFilter::new refuses patterns that do not compile; should_capture: what is excluded is
\* out, and what is included is needed where anything is.
scope_filter(config) == \A p \in UNION {config[f] : f \in DOMAIN config} : "bad" \notin p

Admits(include, exclude, text) ==
  /\ \A p \in exclude : text \notin p
  /\ include = {} \/ \E p \in include : text \in p

should_capture(config, host, path_no_query) ==
  /\ Admits(config.include_hosts, config.exclude_hosts, host)
  /\ Admits(config.include_paths, config.exclude_paths, path_no_query)
===============================================================================
