----------------------------- MODULE PlannedTests -----------------------------
(***************************************************************************)
(* A plan of tests from the AI to the target: Generation makes and keeps   *)
(* it, SecurityRun runs it.  The two meet in the plan only, so that a      *)
(* behaviour of both is one of each.                                       *)
(***************************************************************************)
EXTENDS SecurityRun, Generation

PlannedSpec == SecSpec /\ GenSpec

\* What is planned with the AI and run after it keeps its books: nothing invalid is saved, a workflow
\* shown without errors is approvable, and every test a run has left behind is sent or skipped once.
PlansKept == GenerationKept /\ TestsAccounted
===============================================================================
