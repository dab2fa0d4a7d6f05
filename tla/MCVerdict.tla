-------------------------------- MODULE MCVerdict --------------------------------
(***************************************************************************)
(* The tests of a plan and their answers, one after the other, as the      *)
(* executor judges them (crates/security/src/executor.rs:734-850).         *)
(***************************************************************************)
EXTENDS MCFunctions

VerdictInit == input = [part |-> "none"]
VerdictNext == input' \in VerdictInputs
VerdictSpec == VerdictInit /\ [][VerdictNext]_input

\* A leak in any answer is a finding, even when the oracle of the test passes: what the comment
\* at executor.rs:769-773 says.  The code drops an answer it takes for a false positive, leak
\* and all (executor.rs:822).
LeakReported ==
  input.part = "verdict" /\ "secret" \in input.facts =>
    V!finding(input, [status |-> input.status, facts |-> input.facts, error |-> FALSE]) # "none"
===================================================================================
