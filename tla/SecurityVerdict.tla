---------------------------- MODULE SecurityVerdict ----------------------------
(***************************************************************************)
(* crates/security: validator.rs, which plans may run, and executor.rs,    *)
(* what the answer to a test is taken for.  A response is [status, facts,  *)
(* error]: facts are what the searches and the analyzers find in its body, *)
(* and an error leaves status 0 and no facts.                              *)
(***************************************************************************)
LOCAL INSTANCE Naturals
LOCAL INSTANCE Sequences
LOCAL INSTANCE FiniteSets

AllowedFlaws == {"jwt_exposure", "idor", "bola", "auth_bypass", "xss", "sqli", "nosql", "csrf",
                 "open_redirect", "rate_limit", "excessive_data_exposure", "secret_leak",
                 "cwe_debug_exposure", "mass_assignment", "prompt_injection", "jwt_forge"}
PayloadFlaws == {"xss", "sqli", "nosql", "idor", "bola", "open_redirect", "mass_assignment", "prompt_injection"}

\* What is wrong with the test at k of a plan, whose texts are "" when they are blank.
test_errors(tests, k) ==
  LET t == tests[k]
      when(c, e) == IF c THEN {e} ELSE {} IN
  UNION {when(t.id = "", "empty id"),
         when(t.id # "" /\ \E j \in 1..(k - 1) : tests[j].id = t.id, "duplicate id"),
         when(t.flaw \notin AllowedFlaws, "unknown flaw"),
         when(t.method = "", "empty method"),
         when(t.path = "", "empty path"),
         when(t.path # "" /\ "absolute" \notin t.path_facts, "relative path")}

\* What may be wrong with it.
test_warnings(tests, k) ==
  LET t == tests[k]
      when(c, w) == IF c THEN {w} ELSE {} IN
  UNION {when(t.severity \notin {"", "Critical", "High", "Medium", "Low", "Info"}, "unknown severity"),
         when(/\ "absolute" \in t.path_facts
              /\ "generic" \in t.path_facts \/ "known_prefix" \notin t.path_facts, "invented path"),
         when(\E j \in 1..(k - 1) : tests[j].flaw = t.flaw /\ tests[j].path = t.path, "duplicate target"),
         when(t.oracle.status = 0 /\ t.oracle.contains = "", "no oracle"),
         when(t.flaw \in PayloadFlaws /\ t.payload = "", "no payload")}

\* validate_plan
validate_plan(plan, max_tests) ==
  LET when(c, e) == IF c THEN {e} ELSE {} IN
  [errors |-> UNION {when(plan.base_url = "", "empty base"), when(plan.base_url = "bad", "invalid base"),
                     when(plan.tests = <<>>, "no tests"), when(Len(plan.tests) > max_tests, "too many tests"),
                     UNION {test_errors(plan.tests, k) : k \in DOMAIN plan.tests}},
   warnings |-> UNION {test_warnings(plan.tests, k) : k \in DOMAIN plan.tests}]

\* check_oracle: what is not expected is not asked for.
check_oracle(oracle, r) ==
  /\ oracle.status # 0 => r.status = oracle.status
  /\ oracle.contains # "" => oracle.contains \in r.facts

\* is_likely_false_positive
is_likely_false_positive(t, r) ==
  LET has(f) == f \in r.facts IN
  CASE t.flaw = "jwt_exposure"  -> r.status \in 400..499
    [] t.flaw = "sqli"          -> r.status = 422 \/ (has("data_array") /\ ~has("error") /\ ~has("sql"))
    [] t.flaw = "xss"           -> has("is_json") /\ ~has("markup")
    [] t.flaw = "open_redirect" -> r.status = 500
    [] t.flaw = "auth_bypass"   -> r.status = 200 /\ has("empty")
    [] t.flaw = "rate_limit"    -> \/ "csrf" \in t.path_facts /\ r.status = 400
                                   \/ t.path_facts \cap {"callback", "login", "signin"} = {}
    [] OTHER                    -> FALSE

passed(t, r) == ~r.error /\ check_oracle(t.oracle, r)

potential(t, r) ==
  ~r.error /\ ~passed(t, r) /\ r.status # 0 /\ (t.oracle.status # 0 \/ t.oracle.contains # "")

oracle_should_report(t, r) ==
  CASE t.flaw = "jwt_exposure"           -> "token" \in r.facts
    [] t.flaw \in {"idor", "auth_bypass"} -> passed(t, r) \/ potential(t, r)
    [] t.flaw = "csrf"                   -> r.status \in {200, 201}
    [] t.flaw = "open_redirect"          -> "redirect" \in r.facts
    [] OTHER                             -> passed(t, r)

scan_suspicious(r) == r.facts \cap {"secret", "overfetching"} # {}

\* The finding a test leads to, by the skill it is filed under; "none" without one.
finding(t, r) ==
  IF ~(oracle_should_report(t, r) \/ scan_suspicious(r)) \/ is_likely_false_positive(t, r) THEN "none"
  ELSE IF scan_suspicious(r) /\ "_rsc" \in t.path_facts THEN "rsc_data_leakage"
  ELSE IF scan_suspicious(r) /\ ~oracle_should_report(t, r) THEN "secret_leak" ELSE t.flaw
===============================================================================
