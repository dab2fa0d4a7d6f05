------------------------------ MODULE SecurityRun ------------------------------
(***************************************************************************)
(* One run of a security test plan: security_run of the server registers   *)
(* it and spawns a task in which SecurityExecutor sends the tests of the   *)
(* plan one after the other.  A destructive test waits for a REST call     *)
(* that confirms it, a timeout or a cancel.  What a response says of a     *)
(* test is data; see SecurityVerdict for it.                                 *)
(***************************************************************************)
EXTENDS Naturals, Sequences, FiniteSets

CONSTANTS TestPlans,    \* the plans tried: sequences of tests
          Confirms,     \* REST calls to security_confirm
          MaxRequests,  \* max_requests
          SecRetries    \* retry_limit

\* A test, as far as the executor tells tests apart.  One whose location is the path and whose path is
\* only slashes has no last segment to replace: it cannot be built (mutate_target panics).
Test == [id : STRING, writes : BOOLEAN, sensitive : BOOLEAN,
         requires_confirmation : BOOLEAN, in_scope : BOOLEAN, buildable : BOOLEAN]

\* Only plans validate_plan lets through are saved and run: the ids of their tests differ.
ASSUME SecurityAssumption ==
  /\ TestPlans \subseteq Seq(Test) /\ MaxRequests \in Nat /\ SecRetries \in Nat
  /\ \A plan \in TestPlans : \A i, j \in DOMAIN plan : plan[i].id = plan[j].id => i = j

VARIABLES tests,         \* the plan of the run
          secStep,       \* the next step of security_run and its task
          at,            \* index of the test in hand
          registry,      \* {"token", "map"}: where the run is registered
          secCancelled,  \* its token is cancelled
          pending,       \* pending_confirmations: indices of tests with a sender there
          reply,         \* per test: what its sender was given
          approved,      \* the answer as the executor took it
          secBudget,     \* BudgetTracker
          attempts,      \* failed attempts at the test in hand
          row,           \* status of the row of the run
          stopReason, sent, skipped, \* the outcome: requests_sent and skipped, by test
          call,          \* per confirming call: its next step or result
          asks,          \* per confirming call: the test it names by its id, and the answer
          served,        \* history, per confirming call: the test it answered, or 0
          httpSends,     \* history: requests that reached the HTTP client
          sentLate       \* history: tests sent after a cancel

callVars == <<call, asks, served>>
outcome  == <<stopReason, sent, skipped>>
secVars  == <<tests, secStep, at, registry, secCancelled, pending, reply, approved, secBudget,
              attempts, row, outcome, callVars, httpSends, sentLate>>

SecInit ==
  /\ tests \in TestPlans /\ secStep = "new" /\ at = 0 /\ registry = {} /\ secCancelled = FALSE
  /\ pending = {} /\ reply = [i \in DOMAIN tests |-> "none"] /\ approved = FALSE
  /\ secBudget = MaxRequests /\ attempts = 0 /\ row = "none"
  /\ stopReason = "Completed" /\ sent = <<>> /\ skipped = {}
  /\ call = [c \in Confirms |-> "idle"] /\ served = [c \in Confirms |-> 0]
  /\ asks = [c \in Confirms |-> [test |-> 0, yes |-> FALSE]]
  /\ httpSends = 0 /\ sentLate = 0

is_destructive(test) == test.writes /\ (test.sensitive \/ test.requires_confirmation)

-------------------------------------------------------------------------------
(* security_run *)

SecCalled ==
  /\ secStep = "new" /\ secStep' = "save" /\ registry' = {"token"}
  /\ UNCHANGED <<tests, at, secCancelled, pending, reply, approved, secBudget, attempts, row,
                 outcome, callVars, httpSends, sentLate>>

\* A save that fails answers with an error and leaves the token where it is.
SaveRun ==
  /\ secStep = "save"
  /\ \/ secStep' = "saved" /\ row' = "running"
     \/ secStep' = "refused" /\ row' = row
  /\ UNCHANGED <<tests, at, registry, secCancelled, pending, reply, approved, secBudget, attempts,
                 outcome, callVars, httpSends, sentLate>>

\* The flows have been read for their cookies: the task is spawned.
SpawnRun ==
  /\ secStep = "saved" /\ secStep' = "spawned"
  /\ UNCHANGED <<tests, at, registry, secCancelled, pending, reply, approved, secBudget, attempts, row,
                 outcome, callVars, httpSends, sentLate>>

\* The browser goes away while the handler saves the run or reads the flows: the handler is dropped,
\* and what it has registered and saved stays.
HandlerDropped ==
  /\ secStep \in {"save", "saved"} /\ secStep' = "dropped" /\ row' \in {row, "running"}
  /\ UNCHANGED <<tests, at, registry, secCancelled, pending, reply, approved, secBudget, attempts,
                 outcome, callVars, httpSends, sentLate>>

\* The map of confirmations is registered before with_events looks at the scope again,
\* which may have been emptied since; update_run may fail, which is ignored.
OpenExecutor ==
  /\ secStep = "spawned"
  /\ registry' = registry \cup {"map"}
  /\ \/ secStep' = "loop" /\ row' = row
     \/ secStep' = "untoken" /\ row' \in {row, "failed"}
  /\ UNCHANGED <<tests, at, secCancelled, pending, reply, approved, secBudget, attempts, outcome,
                 callVars, httpSends, sentLate>>

Finish ==
  /\ secStep = "finish" /\ secStep' = "untoken"
  /\ row' \in {row, IF stopReason = "Cancelled" THEN "cancelled" ELSE "completed"}
  /\ UNCHANGED <<tests, at, registry, secCancelled, pending, reply, approved, secBudget, attempts,
                 outcome, callVars, httpSends, sentLate>>

Unregister(entry, from, to) ==
  /\ secStep = from /\ secStep' = to /\ registry' = registry \ {entry}
  /\ UNCHANGED <<tests, at, secCancelled, pending, reply, approved, secBudget, attempts, row,
                 outcome, callVars, httpSends, sentLate>>

-------------------------------------------------------------------------------
(* SecurityExecutor::execute *)

Stops(reason) == secStep' = "finish" /\ stopReason' = reason

\* bug: the token is not looked at between tests
NextTestDeafBug ==
  /\ secStep = "loop" /\ at' = at + 1 /\ UNCHANGED sent
  /\ IF at = Len(tests)       THEN Stops("Completed") /\ skipped' = skipped
     ELSE /\ stopReason' = stopReason
          /\ secStep' = IF ~tests[at + 1].buildable THEN "panicked" ELSE IF ~tests[at + 1].in_scope THEN "loop"
                        ELSE IF is_destructive(tests[at + 1]) THEN "ask" ELSE "budget"
          /\ skipped' = IF tests[at + 1].in_scope THEN skipped ELSE skipped \cup {at + 1}
  /\ UNCHANGED <<tests, registry, secCancelled, pending, reply, approved, secBudget, attempts,
                 row, callVars, httpSends, sentLate>>

\* The head of the loop: cancel, the request, scope, and whether the test must be confirmed.  A test
\* that cannot be built panics, and the task ends where it is.
NextTest ==
  /\ secStep = "loop" /\ at' = at + 1 /\ UNCHANGED sent
  /\ IF at = Len(tests)       THEN Stops("Completed") /\ skipped' = skipped
     ELSE IF secCancelled     THEN Stops("Cancelled") /\ skipped' = skipped
     ELSE IF ~tests[at + 1].buildable THEN secStep' = "panicked" /\ UNCHANGED <<stopReason, skipped>>
     ELSE /\ stopReason' = stopReason
          /\ secStep' = IF ~tests[at + 1].in_scope THEN "loop"
                        ELSE IF is_destructive(tests[at + 1]) THEN "ask" ELSE "budget"
          /\ skipped' = IF tests[at + 1].in_scope THEN skipped ELSE skipped \cup {at + 1}
  /\ UNCHANGED <<tests, registry, secCancelled, pending, reply, approved, secBudget, attempts,
                 row, callVars, httpSends, sentLate>>

\* The sender is in the map before the browser hears of the question.
Ask ==
  /\ secStep = "ask" /\ secStep' = "wait" /\ pending' = pending \cup {at}
  /\ UNCHANGED <<tests, at, registry, secCancelled, reply, approved, secBudget, attempts, row,
                 outcome, callVars, httpSends, sentLate>>

\* select: an answer, the timeout of 60 s or the cancel; of those that are ready, any.
Await ==
  /\ secStep = "wait" /\ secStep' = "cleanup"
  /\ \/ reply[at] # "none" /\ approved' = (reply[at] = "yes")
     \/ approved' = FALSE
  /\ UNCHANGED <<tests, at, registry, secCancelled, pending, reply, secBudget, attempts, row,
                 outcome, callVars, httpSends, sentLate>>

\* bug: the sender of a test nobody answered stays in the map
CleanupBug ==
  /\ secStep = "cleanup" /\ secStep' = IF approved THEN "budget" ELSE "loop"
  /\ skipped' = IF approved THEN skipped ELSE skipped \cup {at}
  /\ UNCHANGED <<tests, at, registry, secCancelled, pending, reply, approved, secBudget, attempts,
                 row, stopReason, sent, callVars, httpSends, sentLate>>

Cleanup ==
  /\ secStep = "cleanup" /\ secStep' = IF approved THEN "budget" ELSE "loop"
  /\ pending' = pending \ {at}
  /\ skipped' = IF approved THEN skipped ELSE skipped \cup {at}
  /\ UNCHANGED <<tests, at, registry, secCancelled, reply, approved, secBudget, attempts, row,
                 stopReason, sent, callVars, httpSends, sentLate>>

\* try_take; when no slot is left the clock decides which budget is named.
TakeSlot ==
  /\ secStep = "budget" /\ UNCHANGED <<sent, skipped>>
  /\ IF secBudget > 0
     THEN secBudget' = secBudget - 1 /\ secStep' = "pace" /\ stopReason' = stopReason
     ELSE secBudget' = secBudget /\ \E reason \in {"BudgetExhausted", "DurationExceeded"} : Stops(reason)
  /\ UNCHANGED <<tests, at, registry, secCancelled, pending, reply, approved, attempts, row,
                 callVars, httpSends, sentLate>>

\* The rate limiter lets the test pass; it counts as sent from here on.
PaceTest ==
  /\ secStep = "pace" /\ secStep' = "send" /\ sent' = Append(sent, at) /\ attempts' = 0
  /\ sentLate' = sentLate + (IF secCancelled THEN 1 ELSE 0)
  /\ UNCHANGED <<tests, at, registry, secCancelled, pending, reply, approved, secBudget, row,
                 stopReason, skipped, callVars, httpSends>>

\* RequestExecutor: an error or a timeout is tried again, at most SecRetries times; the
\* test is judged and reported, whatever came of it, unless a body is cut within a character
\* for the evidence, which panics.
SendTest ==
  /\ secStep = "send" /\ httpSends' = httpSends + 1
  /\ \/ secStep' \in {"loop", "panicked"} /\ attempts' = attempts
     \/ attempts < SecRetries /\ attempts' = attempts + 1 /\ secStep' = secStep
  /\ UNCHANGED <<tests, at, registry, secCancelled, pending, reply, approved, secBudget, row,
                 outcome, callVars, sentLate>>

-------------------------------------------------------------------------------
(* security_cancel and security_confirm *)

SecCancel ==
  /\ "token" \in registry /\ secCancelled' = TRUE
  /\ UNCHANGED <<tests, secStep, at, registry, pending, reply, approved, secBudget, attempts, row,
                 outcome, callVars, httpSends, sentLate>>

\* A call finds the map of the run, or no active run.
ConfirmCalled(c) ==
  /\ call[c] = "idle" /\ secStep # "new"
  /\ \E i \in DOMAIN tests, yes \in BOOLEAN :
       asks' = [asks EXCEPT ![c] = [test |-> i, yes |-> yes]]
  /\ call' = [call EXCEPT ![c] = IF "map" \in registry THEN "found" ELSE "not_found"]
  /\ UNCHANGED <<tests, secStep, at, registry, secCancelled, pending, reply, approved, secBudget,
                 attempts, row, outcome, served, httpSends, sentLate>>

\* It takes the sender under the id of the test out of the map; whether anybody listens is not asked.
ConfirmSends(c) ==
  /\ call[c] = "found"
  /\ LET named == {i \in pending : tests[i].id = tests[asks[c].test].id} IN
       IF named = {}
       THEN call' = [call EXCEPT ![c] = "not_found"] /\ UNCHANGED <<pending, reply, served>>
       ELSE \E i \in named :
              /\ call' = [call EXCEPT ![c] = "ok"] /\ served' = [served EXCEPT ![c] = i]
              /\ pending' = pending \ {i}
              /\ reply' = [reply EXCEPT ![i] = IF asks[c].yes THEN "yes" ELSE "no"]
  /\ UNCHANGED <<tests, secStep, at, registry, secCancelled, approved, secBudget, attempts, row,
                 outcome, asks, httpSends, sentLate>>

ExecutorStep == NextTest \/ Ask \/ Await \/ Cleanup \/ TakeSlot \/ PaceTest \/ SendTest
RunStep ==
  \/ SaveRun \/ SpawnRun \/ OpenExecutor \/ ExecutorStep \/ Finish
  \/ Unregister("token", "untoken", "unmap") \/ Unregister("map", "unmap", "ended")

SecNext ==
  \/ SecCalled \/ HandlerDropped \/ RunStep \/ SecCancel
  \/ \E c \in Confirms : ConfirmCalled(c) \/ ConfirmSends(c)

SecSpec == SecInit /\ [][SecNext]_secVars

\* tokio polls the task; storage and target answer or time out; 60 s pass.  Nobody has
\* to answer or to cancel.
SecFairness == WF_secVars(RunStep)
SecFairSpec == SecSpec /\ SecFairness

-------------------------------------------------------------------------------
(* Properties *)

SentSet == {sent[k] : k \in DOMAIN sent}

SecTypeOK ==
  /\ tests \in TestPlans /\ at \in 0..(Len(tests) + 1) /\ registry \subseteq {"token", "map"}
  /\ secStep \in {"new", "save", "saved", "refused", "dropped", "spawned", "panicked", "loop", "ask", "wait", "cleanup", "budget",
                  "pace", "send", "finish", "untoken", "unmap", "ended"}
  /\ pending \subseteq DOMAIN tests /\ reply \in [DOMAIN tests -> {"none", "yes", "no"}]
  /\ secBudget \in 0..MaxRequests /\ attempts \in 0..SecRetries
  /\ row \in {"none", "running", "completed", "cancelled", "failed"}
  /\ SentSet \subseteq DOMAIN tests /\ skipped \subseteq DOMAIN tests
  /\ call \in [Confirms -> {"idle", "found", "ok", "not_found"}]
  /\ served \in [Confirms -> 0..Len(tests)]

\* A destructive test, as is_destructive has it, is sent only after a call of security_confirm that
\* named this very test said yes and was answered Ok, whatever timeout and cancel do meanwhile.
AnswersObeyed ==
  \A i \in SentSet : is_destructive(tests[i]) =>
    \E c \in Confirms : call[c] = "ok" /\ served[c] = i /\ asks[c].test = i /\ asks[c].yes

\* The map holds a sender only while the executor waits for it, so that an answer that
\* comes too late is told so instead of being lost behind an Ok.
OnlyAwaitedSenders == pending \subseteq IF secStep \in {"wait", "cleanup"} THEN {at} ELSE {}

\* Every test the loop has left behind was either sent, once, or skipped.
EveryTestAccounted ==
  LET behind == IF \/ secStep \in {"finish", "untoken", "unmap", "ended"} /\ stopReason # "Completed"
                   \/ secStep = "panicked"
                THEN at - 1
                ELSE IF secStep = "loop" \/ at > Len(tests) THEN at ELSE at - 1 IN
  /\ Cardinality(SentSet) = Len(sent) /\ SentSet \cap skipped = {}
  /\ \A i \in 1..behind : i <= Len(tests) => i \in SentSet \cup skipped

\* After a cancel at most the one test that had passed its gate is still sent.
CancelStopsTests == sentLate <= 1

\* The tests sent, their retries aside, keep to the budget, and a run stops for its requests only when
\* they are used up.
TestsWithinBudget ==
  /\ Len(sent) <= MaxRequests
  /\ stopReason = "BudgetExhausted" => Len(sent) = MaxRequests

\* A run that is over is registered nowhere; one in its loop can be cancelled and
\* confirmed.
RegistriesFollow ==
  /\ secStep = "ended" => registry = {}
  /\ secStep \in {"loop", "ask", "wait", "cleanup", "budget", "pace", "send"} => registry = {"token", "map"}

\* Every run that was called ends, though nobody answers and nobody cancels, unless it is cut off: by a
\* browser that goes away before the task is spawned (security_service.rs:351-369), or by a panic
\* (executor.rs:192, 750).  Such a run stays registered, and its row says running for ever.
SecRunEnds == secStep = "save" ~> secStep \in {"refused", "ended"} \cup {"dropped", "panicked"}

\* executor.rs:24-25, "Hard cap on HTTP requests sent (incl. retries)", of max_requests.
HardCap == httpSends <= MaxRequests

\* types.rs:28, "If true, executor will pause and ask user for approval before running this test", of
\* requires_confirmation.
FlaggedAsked ==
  \A i \in SentSet : tests[i].requires_confirmation =>
    \E c \in Confirms : served[c] = i /\ asks[c].yes

\* An answer is obeyed by the test it was given for, and by no other: the confirmations of
\* the executor and the map of the server never disagree about which one is awaited.
ConfirmationsMatch == AnswersObeyed /\ OnlyAwaitedSenders

\* The run keeps its books: every test is sent or skipped, within the budget, at most one
\* after a cancel, and the registries follow its life.
TestsAccounted ==
  SecTypeOK /\ EveryTestAccounted /\ CancelStopsTests /\ TestsWithinBudget /\ RegistriesFollow
===============================================================================
