--------------------------------- MODULE MCJobs ---------------------------------
(***************************************************************************)
(* The jobs the server and the scanner run: scans, runs of security tests  *)
(* and of workflows, logins, generations by the AI, searches for leaks in  *)
(* bodies, and the openings of the store.  They share no state; each       *)
(* behaviour is one of them.                                               *)
(***************************************************************************)
EXTENDS ScanJobs, PlannedTests, MCSecurity, MCWorkflow, AuthTokens, SecretScan, StoreRecovery

CONSTANTS a, b, c, x
VARIABLE job

MCPlans == {<<a, b, a, c>>, <<a, b, c, a, b>>, <<a, x, b>>, <<a, a>>}
Key(k) == <<k>>
MCPatterns      == {Key("aws"), Key("jwt")}
MCGitleaksRules == {Key("aws"), Key("slack")}
LeakBody(text, chunks) == [text |-> text, chunks |-> chunks, debug |-> FALSE]
MCBodies == {LeakBody(<<"aws", "slack", "-">>, <<>>), LeakBody(<<>>, <<>>),
             [LeakBody(<<"-", "-", "slack">>, << <<"jwt">>, <<"-", "aws">> >>) EXCEPT !.debug = TRUE]}

mcVars == <<job, scanVars, secVars, wfVars, authVars, genVars, leakVars, storeVars>>

\* Of the jobs not chosen only one initial state is taken.
MCInit ==
  /\ job \in {"scan", "security", "workflow", "auth", "generation", "leaks", "store"}
  /\ AuthInit /\ LeakInit /\ StoreInit
  /\ ScanInit /\ (job = "scan" \/ plan = [j \in ScanIds |-> <<a, a>>])
  /\ SecInit /\ (job = "security" \/ tests = <<Flagged("t1")>>)
  /\ WfInit /\ (job = "workflow" \/ wf = Joined)
  /\ GenInit /\ (job = "generation" \/ kind = "workflow")

Scan       == job = "scan" /\ UNCHANGED <<job, secVars, wfVars, authVars, genVars, leakVars, storeVars>>
Security   == job = "security" /\ UNCHANGED <<job, scanVars, wfVars, authVars, genVars, leakVars, storeVars>>
WorkflowJob == job = "workflow" /\ UNCHANGED <<job, scanVars, secVars, authVars, genVars, leakVars, storeVars>>
Login      == job = "auth" /\ UNCHANGED <<job, scanVars, secVars, wfVars, genVars, leakVars, storeVars>>
Generate   == job = "generation" /\ UNCHANGED <<job, scanVars, secVars, wfVars, authVars, leakVars, storeVars>>
Leaks       == job = "leaks" /\ UNCHANGED <<job, scanVars, secVars, wfVars, authVars, genVars, storeVars>>
Storage     == job = "store" /\ UNCHANGED <<job, scanVars, secVars, wfVars, authVars, genVars, leakVars>>

MCNext ==
  \/ Scan /\ ScanNext
  \/ Security /\ SecNext
  \/ WorkflowJob /\ WfNext
  \/ Login /\ AuthNext
  \/ Generate /\ GenNext
  \/ Leaks /\ LeakNext
  \/ Storage /\ StoreNext

\* The fairness each module states, of its job.
MCFairness ==
  /\ \A j \in ScanIds : /\ WF_mcVars(Scan /\ JobStep(j))
                        /\ \A w \in ScanWorkers : WF_mcVars(Scan /\ WorkerStep(j, w))
  /\ WF_mcVars(Security /\ RunStep)
  /\ WF_mcVars(WorkflowJob /\ WfStep)
  /\ \A t \in Analysts : WF_mcVars(Leaks /\ AnalysisStep(t))
  /\ WF_mcVars(Storage /\ OpenStep)

MCSpec == MCInit /\ [][MCNext]_mcVars /\ MCFairness

\* A job that was begun ends by itself and leaves the registries, though nobody answers, nobody
\* cancels, requests fail and gitleaks hangs, and an opening of the store is over, too.  Where
\* the code has no end for it, the parts name it: a run of tests that panics or whose handler
\* is dropped, and gitleaks while it is asked for its version or can not be waited for.
JobsEnd == ScanEnds /\ SecRunEnds /\ WfEnds /\ AnalysesEnd /\ OpeningEnds
===============================================================================
