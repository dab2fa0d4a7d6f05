------------------------------- MODULE ScanJobs -------------------------------
(***************************************************************************)
(* crates/scanner: TokioScanExecutor keeps a cancellation token per job id *)
(* and runs ScanScheduler on each submitted job: workers take mutations of *)
(* the plan from a shared cursor, each stopping for a reason of its own,   *)
(* and send them under a request budget, without repeating a request.      *)
(* Verifying an answer changes nothing that others see and is left out.    *)
(***************************************************************************)
EXTENDS Naturals, Sequences, FiniteSets

CONSTANTS ScanIds,      \* ids of jobs; a job is identified by its id
          Requests,     \* the requests mutations make; equal ones are duplicates
          OffScope,     \* those outside the scope of the jobs
          Plans,        \* the plans tried: sequences of requests
          ScanWorkers,  \* max_concurrency of a job
          ScanBudget,   \* request_budget
          SeenLimit,    \* fingerprints kept by RequestDedup
          RetryLimit    \* retries of one request

ASSUME ScanAssumption ==
  /\ OffScope \subseteq Requests /\ Plans \subseteq Seq(Requests)
  /\ IsFiniteSet(ScanWorkers) /\ ScanWorkers # {} /\ ScanBudget \in Nat \ {0} /\ SeenLimit \in Nat \ {0} /\ RetryLimit \in Nat

VARIABLES phase,     \* per job: new, submitted, running, finished, published, done, failed
          plan,      \* per job: the mutations in the order of execution
          tokens,    \* ids with a token in `running`
          cancelled, \* jobs whose token is cancelled
          cursor,    \* per job: mutations given out so far
          remaining, \* per job: BudgetTracker
          seen,      \* per job: RequestDedup
          stop,      \* per job: StopReason
          overdue,   \* jobs whose deadline has passed
          worker,    \* per job and worker: its next step
          hand,      \* per job and worker: index of the mutation it has
          tries,     \* per job and worker: failed attempts at it
          admitted,  \* history, per job: the mutations sent, in order
          lateSends  \* history, per job and worker: sends it began after a cancel

jobVars    == <<phase, plan, tokens>>
sharedVars == <<cursor, remaining, seen, stop>>
workerVars == <<worker, hand, tries>>
scanVars   == <<jobVars, cancelled, sharedVars, overdue, workerVars, admitted, lateSends>>

ScanInit ==
  /\ phase = [j \in ScanIds |-> "new"] /\ plan \in [ScanIds -> Plans]
  /\ tokens = {} /\ cancelled = {} /\ overdue = {}
  /\ cursor = [j \in ScanIds |-> 0] /\ remaining = [j \in ScanIds |-> ScanBudget]
  /\ seen = [j \in ScanIds |-> {}] /\ stop = [j \in ScanIds |-> "Completed"]
  /\ worker = [j \in ScanIds |-> [w \in ScanWorkers |-> "off"]]
  /\ hand = [j \in ScanIds |-> [w \in ScanWorkers |-> 0]]
  /\ tries = [j \in ScanIds |-> [w \in ScanWorkers |-> 0]]
  /\ admitted = [j \in ScanIds |-> <<>>]
  /\ lateSends = [j \in ScanIds |-> [w \in ScanWorkers |-> 0]]

\* submit fails when the flows cannot be listed, before anything is registered.
Submit(j) ==
  /\ phase[j] = "new"
  /\ \/ phase' = [phase EXCEPT ![j] = "submitted"] /\ tokens' = tokens \cup {j}
     \/ phase' = [phase EXCEPT ![j] = "failed"] /\ tokens' = tokens
  /\ UNCHANGED <<plan, cancelled, sharedVars, overdue, workerVars, admitted, lateSends>>

\* bug: a refused run returns early and leaves its token behind
RunBug(j) ==
  /\ phase[j] = "submitted"
  /\ \/ phase' = [phase EXCEPT ![j] = "failed"] /\ worker' = worker
     \/ /\ phase' = [phase EXCEPT ![j] = "running"]
        /\ worker' = [worker EXCEPT ![j] = [w \in ScanWorkers |-> "check"]]
  /\ UNCHANGED <<plan, tokens, cancelled, sharedVars, overdue, hand, tries, admitted, lateSends>>

\* run refuses a job without a valid allowlist and sends nothing in a dry run;
\* otherwise it starts the workers.
Run(j) ==
  /\ phase[j] = "submitted"
  /\ \/ phase' = [phase EXCEPT ![j] = "finished"] /\ worker' = worker
     \/ /\ phase' = [phase EXCEPT ![j] = "running"]
        /\ worker' = [worker EXCEPT ![j] = [w \in ScanWorkers |-> "check"]]
  /\ UNCHANGED <<plan, tokens, cancelled, sharedVars, overdue, hand, tries, admitted, lateSends>>

\* All workers have returned.
Join(j) ==
  /\ phase[j] = "running" /\ \A w \in ScanWorkers : worker[j][w] = "exit"
  /\ phase' = [phase EXCEPT ![j] = "finished"]
  /\ UNCHANGED <<plan, tokens, cancelled, sharedVars, overdue, workerVars, admitted, lateSends>>

PublishCompleted(j) ==
  /\ phase[j] = "finished" /\ phase' = [phase EXCEPT ![j] = "published"]
  /\ UNCHANGED <<plan, tokens, cancelled, sharedVars, overdue, workerVars, admitted, lateSends>>

Deregister(j) ==
  /\ phase[j] = "published" /\ phase' = [phase EXCEPT ![j] = "done"]
  /\ tokens' = tokens \ {j}
  /\ UNCHANGED <<plan, cancelled, sharedVars, overdue, workerVars, admitted, lateSends>>

\* cancel finds the token, or does nothing.
CancelScan(j) ==
  /\ j \in tokens /\ cancelled' = cancelled \cup {j}
  /\ UNCHANGED <<jobVars, sharedVars, overdue, workerVars, admitted, lateSends>>

\* The wall-clock budget of the job runs out.
DeadlinePasses(j) ==
  /\ phase[j] = "running" /\ overdue' = overdue \cup {j}
  /\ UNCHANGED <<jobVars, cancelled, sharedVars, workerVars, admitted, lateSends>>

-------------------------------------------------------------------------------
(* worker_loop.  A step runs from one shared access to the next.             *)

workFrame == <<jobVars, cancelled, overdue>>
Works(j, w, step) == worker' = [worker EXCEPT ![j][w] = step]

\* set_stop: the first reason stands.
SetStop(j, reason) == stop' = [stop EXCEPT ![j] = IF @ = "Completed" THEN reason ELSE @]
Exits(j, w, reason) == Works(j, w, "exit") /\ SetStop(j, reason)

CheckCancel(j, w) ==
  /\ worker[j][w] = "check"
  /\ IF j \in cancelled THEN Exits(j, w, "Cancelled") ELSE Works(j, w, "fetch") /\ stop' = stop
  /\ UNCHANGED <<workFrame, cursor, remaining, seen, hand, tries, admitted, lateSends>>

\* fetch_add on the cursor and the scope check of what was fetched.
Fetch(j, w) ==
  LET index == cursor[j] + 1 IN
  /\ worker[j][w] = "fetch"
  /\ cursor' = [cursor EXCEPT ![j] = index] /\ hand' = [hand EXCEPT ![j][w] = index]
  /\ CASE index > Len(plan[j])         -> Works(j, w, "exit") /\ stop' = stop
       [] index \in DOMAIN plan[j] /\ plan[j][index] \in OffScope -> Exits(j, w, "ScopeViolation")
       [] OTHER                        -> Works(j, w, "budget") /\ stop' = stop
  /\ UNCHANGED <<workFrame, remaining, seen, tries, admitted, lateSends>>

\* bug: the counter is read, compared and written without compare_exchange
TakeBudgetRaceBug(j, w) ==
  /\ worker[j][w] = "budget"
  /\ IF remaining[j] > 0
     THEN /\ remaining' \in {remaining, [remaining EXCEPT ![j] = @ - 1]}
          /\ Works(j, w, "dedup") /\ stop' = stop
     ELSE remaining' = remaining /\ Exits(j, w, "BudgetExhausted")
  /\ UNCHANGED <<workFrame, cursor, seen, hand, tries, admitted, lateSends>>

\* try_take; only when it fails the clock decides which budget is to blame.
TakeBudget(j, w) ==
  /\ worker[j][w] = "budget"
  /\ IF remaining[j] > 0
     THEN /\ remaining' = [remaining EXCEPT ![j] = @ - 1]
          /\ Works(j, w, "dedup") /\ stop' = stop
     ELSE /\ remaining' = remaining
          /\ Exits(j, w, IF j \in overdue THEN "DurationExceeded" ELSE "BudgetExhausted")
  /\ UNCHANGED <<workFrame, cursor, seen, hand, tries, admitted, lateSends>>

\* first_seen: a full set is cleared before it takes the next fingerprint.
FirstSeen(j, w) ==
  LET request == plan[j][hand[j][w]]
      kept    == IF Cardinality(seen[j]) >= SeenLimit THEN {} ELSE seen[j] IN
  /\ worker[j][w] = "dedup"
  /\ IF request \in seen[j]
     THEN Works(j, w, "check") /\ UNCHANGED <<seen, admitted>>
     ELSE /\ Works(j, w, "pace")
          /\ seen' = [seen EXCEPT ![j] = kept \cup {request}]
          /\ admitted' = [admitted EXCEPT ![j] = Append(@, hand[j][w])]
  /\ UNCHANGED <<workFrame, cursor, remaining, stop, hand, tries, lateSends>>

\* until_ready: the rate limiter of the host lets the worker pass, and nobody looks at
\* the token on the way to the first attempt.
Pace(j, w) ==
  /\ worker[j][w] = "pace" /\ Works(j, w, "send")
  /\ lateSends' = [lateSends EXCEPT ![j][w] = IF j \in cancelled THEN @ + 1 ELSE @]
  /\ UNCHANGED <<workFrame, sharedVars, hand, tries, admitted>>

\* execute: an error or a timeout is retried after a pause, at most RetryLimit times.
Execute(j, w) ==
  /\ worker[j][w] = "send"
  /\ \/ Works(j, w, "check") /\ tries' = [tries EXCEPT ![j][w] = 0]     \* an answer
     \/ /\ tries[j][w] < RetryLimit
        /\ tries' = [tries EXCEPT ![j][w] = @ + 1] /\ worker' = worker
  /\ UNCHANGED <<workFrame, sharedVars, hand, admitted, lateSends>>

WorkerStep(j, w) ==
  CheckCancel(j, w) \/ Fetch(j, w) \/ TakeBudget(j, w) \/ FirstSeen(j, w) \/ Pace(j, w) \/ Execute(j, w)
JobStep(j)       == Run(j) \/ Join(j) \/ PublishCompleted(j) \/ Deregister(j)

ScanNext ==
  \E j \in ScanIds :
    \/ Submit(j) \/ JobStep(j) \/ CancelScan(j) \/ DeadlinePasses(j)
    \/ \E w \in ScanWorkers : WorkerStep(j, w)

ScanSpec == ScanInit /\ [][ScanNext]_scanVars

\* tokio polls the task of the job and its workers; a request is answered or times out.
ScanFairness == \A j \in ScanIds : /\ WF_scanVars(JobStep(j))
                                   /\ \A w \in ScanWorkers : WF_scanVars(WorkerStep(j, w))
ScanFairSpec == ScanSpec /\ ScanFairness

-------------------------------------------------------------------------------
(* Properties *)

ScanTypeOK ==
  /\ phase \in [ScanIds -> {"new", "submitted", "running", "finished", "published", "done", "failed"}]
  /\ tokens \subseteq ScanIds /\ cancelled \subseteq ScanIds /\ overdue \subseteq ScanIds
  /\ cursor \in [ScanIds -> Nat] /\ remaining \in [ScanIds -> 0..ScanBudget]
  /\ \A j \in ScanIds : /\ seen[j] \subseteq Requests /\ Cardinality(seen[j]) <= SeenLimit
                        /\ plan[j] \in Plans /\ admitted[j] \in Seq(DOMAIN plan[j])
  /\ stop \in [ScanIds -> {"Completed", "Cancelled", "ScopeViolation", "BudgetExhausted", "DurationExceeded"}]
  /\ worker \in [ScanIds -> [ScanWorkers -> {"off", "check", "fetch", "budget", "dedup", "pace", "send", "exit"}]]
  /\ tries \in [ScanIds -> [ScanWorkers -> 0..RetryLimit]]

\* A token is registered exactly as long as its job can still be cancelled: a submit
\* that fails, a run that is refused, a finished job leave none behind.
TokensLive ==
  \A j \in ScanIds : j \in tokens <=> phase[j] \in {"submitted", "running", "finished", "published"}

\* However the workers share the cursor, no mutation is sent twice, and none outside
\* the scope.
SentOnce ==
  \A j \in ScanIds : \A i \in DOMAIN admitted[j] :
    /\ plan[j][admitted[j][i]] \notin OffScope
    /\ \A k \in 1..(i - 1) : admitted[j][k] # admitted[j][i]

\* Equal requests are sent again only after the set of fingerprints was cleared: no
\* two within the same SeenLimit requests.
UniquePerEra ==
  \A j \in ScanIds : \A i, k \in DOMAIN admitted[j] :
    i < k /\ (i - 1) \div SeenLimit = (k - 1) \div SeenLimit =>
      plan[j][admitted[j][i]] # plan[j][admitted[j][k]]

\* Requests sent and about to be sent never exceed the budget.
WithinBudget ==
  \A j \in ScanIds :
    Len(admitted[j]) + Cardinality({w \in ScanWorkers : worker[j][w] = "dedup"}) <= ScanBudget

\* A run that reports Completed left nothing out: every mutation of its plan was
\* sent, or equals one that was.
CompletedMeansAll ==
  \A j \in ScanIds :
    /\ phase[j] \in {"finished", "published", "done"} /\ stop[j] = "Completed"
    /\ \A w \in ScanWorkers : worker[j][w] = "exit"
    => \A i \in DOMAIN plan[j] : \E k \in DOMAIN admitted[j] : plan[j][admitted[j][k]] = plan[j][i]

\* After a cancel a worker begins at most the one request it was on its way to.
CancelIsPrompt == \A j \in ScanIds : \A w \in ScanWorkers : lateSends[j][w] <= 1

\* Every submitted job ends, cancelled or not, and leaves the registry.
ScanEnds == \A j \in ScanIds : phase[j] = "submitted" ~> phase[j] = "done" /\ j \notin tokens

\* What a scan sends is what was planned: each mutation at most once, equal ones once per
\* era of the dedup, none beyond the budget, all of them if it reports Completed; the job can
\* be cancelled exactly as long as it is there, and a cancel is prompt.
SentAsPlanned ==
  ScanTypeOK /\ TokensLive /\ SentOnce /\ UniquePerEra /\ WithinBudget /\ CompletedMeansAll /\ CancelIsPrompt
===============================================================================
