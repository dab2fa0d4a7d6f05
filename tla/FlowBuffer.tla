------------------------------ MODULE FlowBuffer ------------------------------
(***************************************************************************)
(* crates/capture/src/buffer.rs: the bounded capture buffer.  Every flow   *)
(* of Flows is pushed by a task of its own (one `push` call), one consumer *)
(* calls `recv` in a loop, and `close` and `reset_dedup` may be called at  *)
(* any time.  A step is what the code does between two points where other  *)
(* tasks may run: the load of `closed`, the dedup critical section, the    *)
(* queue critical section, the creation of the Notified future and its     *)
(* first poll.  All tasks share ONE tokio Notify (permit, waiters, calls). *)
(***************************************************************************)
EXTENDS Naturals, Integers, Sequences, FiniteSets

CONSTANTS Flows,         \* the flows, each pushed once
          Consumer,      \* the task that calls recv
          Size,          \* size_bytes of a flow
          Fingerprint,   \* fingerprint of a flow
          Capacity,      \* buffer capacity, in flows
          MaxBytes,      \* byte cap, 0 when disabled
          DedupEnabled,
          DedupLimit,    \* bound of the fingerprint set, 0 when disabled
          Policy,        \* "DropOldest" | "FailFast" | "Block"
          MaxCloses,     \* bound: calls of close
          MaxResets      \* bound: calls of reset_dedup

ASSUME BufferAssumption ==
  /\ Consumer \notin Flows
  /\ Size \in [Flows -> Nat]
  /\ DOMAIN Fingerprint = Flows
  /\ Capacity \in Nat \ {0}
  /\ MaxBytes \in Nat
  /\ DedupEnabled \in BOOLEAN
  /\ DedupLimit \in Nat
  /\ Policy \in {"DropOldest", "FailFast", "Block"}
  /\ MaxCloses \in Nat
  /\ MaxResets \in Nat

VARIABLES queue, queued_bytes, closed, accepted, duplicates, dropped,
          dedup,      \* the fingerprints seen since the set was last cleared
          permit,     \* Notify: a stored notify_one
          waiters,    \* Notify: the tasks asleep, oldest first
          calls,      \* Notify: the notify_waiters calls made so far
          seenCalls,  \* per task: `calls` when its Notified was created
          closing,    \* a close() stands between its store and its wake-up
          pc,         \* per task: the next step, or the result of the push
          gone,       \* history: the flows that left through the front
          evicted,    \* history: those of them dropped by DropOldest
          era,        \* history: how often the fingerprint set was cleared
          bornIn      \* history: the era in which a flow was recorded as seen

notifyVars  == <<permit, waiters>>
queueVars   == <<queue, queued_bytes, accepted, dropped, gone, evicted>>
dedupVars   == <<dedup, duplicates, era, bornIn>>
closeVars   == <<closed, closing, calls>>
vars == <<queueVars, dedupVars, closeVars, notifyVars, seenCalls, pc>>

Tasks    == Flows \cup {Consumer}
Outcomes == {"Accepted", "Duplicate", "Overflow"}
PushSteps == {"idle", "top", "dedup", "enqueue", "evict", "full", "notified",
              "waiting"} \cup Outcomes
RecvSteps == {"top", "created", "popped", "notified", "waiting", "ended"}

Init == /\ queue = <<>> /\ queued_bytes = 0
        /\ accepted = 0 /\ duplicates = 0 /\ dropped = 0
        /\ dedup = {} /\ closed = FALSE
        /\ permit = FALSE /\ waiters = <<>> /\ calls = 0
        /\ seenCalls = [t \in Tasks |-> 0]
        /\ closing = FALSE
        /\ pc = [t \in Tasks |-> IF t = Consumer THEN "top" ELSE "idle"]
        /\ gone = <<>> /\ evicted = {}
        /\ era = 0 /\ bornIn = [f \in Flows |-> 0]

-------------------------------------------------------------------------------
(* tokio::sync::Notify *)

\* notify_one wakes the oldest sleeper, or stores one permit.  `next` is pc
\* after the caller's own move.
NotifyOne(next) ==
  IF waiters # <<>>
    THEN /\ pc' = [next EXCEPT ![Head(waiters)] = "top"]
         /\ waiters' = Tail(waiters)
         /\ UNCHANGED permit
    ELSE /\ pc' = next
         /\ permit' = TRUE
         /\ UNCHANGED waiters

\* notify_waiters wakes every sleeper and stores no permit.
NotifyWaiters ==
  /\ calls' = calls + 1
  /\ waiters' = <<>>
  /\ pc' = [t \in Tasks |-> IF pc[t] = "waiting" THEN "top" ELSE pc[t]]
  /\ UNCHANGED permit

\* First poll of a Notified: it completes on the permit, or when
\* notify_waiters was called since it was created, and else sleeps.
PollNotified(t) ==
  /\ pc[t] = "notified"
  /\ \/ /\ permit
        /\ permit' = FALSE
        /\ pc' = [pc EXCEPT ![t] = "top"]
        /\ UNCHANGED waiters
     \/ /\ ~permit /\ calls # seenCalls[t]
        /\ pc' = [pc EXCEPT ![t] = "top"]
        /\ UNCHANGED notifyVars
     \/ /\ ~permit /\ calls = seenCalls[t]
        /\ waiters' = Append(waiters, t)
        /\ pc' = [pc EXCEPT ![t] = "waiting"]
        /\ UNCHANGED permit
  /\ UNCHANGED <<queueVars, dedupVars, closeVars, seenCalls>>

-------------------------------------------------------------------------------
(* push *)

\* Operators named ...Bug are the definition after them with a plausible slip;
\* Next never uses them.

Goto(t, step) == pc' = [pc EXCEPT ![t] = step]

\* The load of `closed` at the head of the loop.
CheckClosed(f) ==
  /\ Goto(f, IF closed THEN "Overflow"
             ELSE IF DedupEnabled THEN "dedup" ELSE "enqueue")
  /\ UNCHANGED <<queueVars, dedupVars, closeVars, notifyVars, seenCalls>>

BeginPush(f) == pc[f] = "idle" /\ CheckClosed(f)
RetryPush(f) == pc[f] = "top" /\ CheckClosed(f)

\* The dedup critical section: record the fingerprint, clear the set when it
\* outgrows its limit, or report a duplicate.
Clears(seen) == DedupLimit > 0 /\ Cardinality(seen) > DedupLimit

\* bug: the result of the insert is ignored
RecordFingerprintBug(f) ==
  /\ pc[f] = "dedup"
  /\ dedup' = dedup \cup {Fingerprint[f]}
  /\ bornIn' = [bornIn EXCEPT ![f] = era]
  /\ Goto(f, "enqueue")
  /\ UNCHANGED <<queueVars, duplicates, era, closeVars, notifyVars, seenCalls>>

RecordFingerprint(f) ==
  LET seen == dedup \cup {Fingerprint[f]} IN
  /\ pc[f] = "dedup"
  /\ Fingerprint[f] \notin dedup
  /\ dedup' = IF Clears(seen) THEN {} ELSE seen
  /\ era' = IF Clears(seen) THEN era + 1 ELSE era
  /\ bornIn' = [bornIn EXCEPT ![f] = era]
  /\ Goto(f, "enqueue")
  /\ UNCHANGED <<queueVars, duplicates, closeVars, notifyVars, seenCalls>>

ReportDuplicate(f) ==
  /\ pc[f] = "dedup"
  /\ Fingerprint[f] \in dedup
  /\ duplicates' = duplicates + 1
  /\ Goto(f, "Duplicate")
  /\ UNCHANGED <<queueVars, dedup, era, bornIn, closeVars, notifyVars, seenCalls>>

\* The queue lock is held across steps only by a push that is evicting.
LockFree == \A f \in Flows : pc[f] # "evict"

\* bug: one flow too many
FitsCapacityBug(f) == /\ Len(queue) <= Capacity
                      /\ MaxBytes = 0 \/ queued_bytes + Size[f] <= MaxBytes

Fits(f) == /\ Len(queue) < Capacity
           /\ MaxBytes = 0 \/ queued_bytes + Size[f] <= MaxBytes

\* bug: notify_waiters, which leaves no permit, for notify_one
PushBackNotifyBug(f) ==
  /\ queue' = Append(queue, f)
  /\ queued_bytes' = queued_bytes + Size[f]
  /\ accepted' = accepted + 1
  /\ waiters' = <<>>
  /\ pc' = [t \in Tasks |-> IF t = f THEN "Accepted"
                            ELSE IF pc[t] = "waiting" THEN "top" ELSE pc[t]]
  /\ UNCHANGED <<permit, dropped, gone, evicted, dedupVars, closeVars, seenCalls>>

PushBack(f) ==
  /\ queue' = Append(queue, f)
  /\ queued_bytes' = queued_bytes + Size[f]
  /\ accepted' = accepted + 1
  /\ NotifyOne([pc EXCEPT ![f] = "Accepted"])
  /\ UNCHANGED <<dropped, gone, evicted, dedupVars, closeVars, seenCalls>>

EnqueueFits(f) == pc[f] = "enqueue" /\ LockFree /\ Fits(f) /\ PushBack(f)

\* Where a push that does not fit goes on.
WhenFull == [DropOldest |-> "evict", FailFast |-> "Overflow", Block |-> "full"]

EnqueueFull(f) ==
  /\ pc[f] = "enqueue" /\ LockFree /\ ~Fits(f)
  /\ Goto(f, WhenFull[Policy])
  /\ dropped' = IF Policy = "FailFast" THEN dropped + 1 ELSE dropped
  /\ UNCHANGED <<queue, queued_bytes, accepted, gone, evicted,
                 dedupVars, closeVars, notifyVars, seenCalls>>

\* bug: the bytes of the evicted flow stay counted
EvictOldestBug(f) ==
  /\ pc[f] = "evict"
  /\ queue # <<>> /\ ~Fits(f)
  /\ queue' = Tail(queue)
  /\ dropped' = dropped + 1
  /\ gone' = Append(gone, Head(queue))
  /\ evicted' = evicted \cup {Head(queue)}
  /\ UNCHANGED <<queued_bytes, accepted, dedupVars, closeVars, notifyVars, seenCalls, pc>>

\* DropOldest: pop the head until the flow fits or nothing is left.
EvictOldest(f) ==
  /\ pc[f] = "evict"
  /\ queue # <<>> /\ ~Fits(f)
  /\ queue' = Tail(queue)
  /\ queued_bytes' = queued_bytes - Size[Head(queue)]
  /\ dropped' = dropped + 1
  /\ gone' = Append(gone, Head(queue))
  /\ evicted' = evicted \cup {Head(queue)}
  /\ UNCHANGED <<accepted, dedupVars, closeVars, notifyVars, seenCalls, pc>>

EnqueueEvicted(f) == /\ pc[f] = "evict"
                     /\ queue = <<>> \/ Fits(f)
                     /\ PushBack(f)

\* Block: with the lock released the push creates its Notified.
CreateNotified(f) ==
  /\ pc[f] = "full"
  /\ seenCalls' = [seenCalls EXCEPT ![f] = calls]
  /\ Goto(f, "notified")
  /\ UNCHANGED <<queueVars, dedupVars, closeVars, notifyVars>>

PushStep(f) == \/ RetryPush(f)
               \/ RecordFingerprint(f) \/ ReportDuplicate(f)
               \/ EnqueueFits(f) \/ EnqueueFull(f)
               \/ EvictOldest(f) \/ EnqueueEvicted(f)
               \/ CreateNotified(f) \/ PollNotified(f)

-------------------------------------------------------------------------------
(* recv *)

\* The consumer creates its Notified before it looks at the queue.
BeginRecv ==
  /\ pc[Consumer] = "top"
  /\ seenCalls' = [seenCalls EXCEPT ![Consumer] = calls]
  /\ Goto(Consumer, "created")
  /\ UNCHANGED <<queueVars, dedupVars, closeVars, notifyVars>>

PopFront ==
  /\ pc[Consumer] = "created" /\ LockFree
  /\ queue # <<>>
  /\ queue' = Tail(queue)
  /\ queued_bytes' = queued_bytes - Size[Head(queue)]
  /\ gone' = Append(gone, Head(queue))
  /\ Goto(Consumer, "popped")
  /\ UNCHANGED <<accepted, dropped, evicted, dedupVars, closeVars, notifyVars, seenCalls>>

FindEmpty ==
  /\ pc[Consumer] = "created" /\ LockFree
  /\ queue = <<>>
  /\ Goto(Consumer, IF closed THEN "ended" ELSE "notified")
  /\ UNCHANGED <<queueVars, dedupVars, closeVars, notifyVars, seenCalls>>

\* The lock is dropped before notify_one; then recv returns and is called again.
NotifyAfterPop ==
  /\ pc[Consumer] = "popped"
  /\ NotifyOne([pc EXCEPT ![Consumer] = "top"])
  /\ UNCHANGED <<queueVars, dedupVars, closeVars, seenCalls>>

RecvStep == \/ BeginRecv \/ PopFront \/ FindEmpty
            \/ NotifyAfterPop \/ PollNotified(Consumer)

-------------------------------------------------------------------------------
(* close and reset_dedup *)

StoreClosed ==
  /\ ~closing /\ calls < MaxCloses
  /\ closed' = TRUE
  /\ closing' = TRUE
  /\ UNCHANGED <<calls, queueVars, dedupVars, notifyVars, seenCalls, pc>>

\* bug: notify_one for notify_waiters
WakeAllBug ==
  /\ closing
  /\ closing' = FALSE
  /\ calls' = calls + 1
  /\ NotifyOne(pc)
  /\ UNCHANGED <<closed, queueVars, dedupVars, seenCalls>>

WakeAll ==
  /\ closing
  /\ closing' = FALSE
  /\ NotifyWaiters
  /\ UNCHANGED <<closed, queueVars, dedupVars, seenCalls>>

ResetDedup ==
  /\ DedupEnabled /\ era < MaxResets
  /\ dedup' = {}
  /\ era' = era + 1
  /\ UNCHANGED <<duplicates, bornIn, queueVars, closeVars, notifyVars, seenCalls, pc>>

Next == \/ \E f \in Flows : BeginPush(f) \/ PushStep(f)
        \/ RecvStep
        \/ StoreClosed \/ WakeAll \/ ResetDedup

Spec == Init /\ [][Next]_vars

\* A spawned task keeps running until it sleeps or returns; nothing obliges
\* anyone to push a flow or to close the buffer.
Fairness == /\ \A f \in Flows : WF_vars(PushStep(f))
            /\ WF_vars(RecvStep)
            /\ WF_vars(WakeAll)

FairSpec == Spec /\ Fairness
-------------------------------------------------------------------------------
(* Properties *)

TypeOK ==
  /\ queue \in Seq(Flows) /\ gone \in Seq(Flows) /\ evicted \subseteq Flows
  /\ queued_bytes \in Int
  /\ accepted \in Nat /\ duplicates \in Nat /\ dropped \in Nat
  /\ closed \in BOOLEAN /\ closing \in BOOLEAN /\ permit \in BOOLEAN
  /\ waiters \in Seq(Tasks)
  /\ calls \in Nat /\ seenCalls \in [Tasks -> Nat]
  /\ pc \in [Tasks -> PushSteps \cup RecvSteps]
  /\ \A f \in Flows : pc[f] \in PushSteps
  /\ pc[Consumer] \in RecvSteps
  /\ era \in Nat /\ bornIn \in [Flows -> Nat]

\* Without producers that park (buffer.rs:153-155 is the only place they do)
\* the consumer never sleeps on a non-empty queue: the notify_one of a push
\* cannot be consumed by anybody else, and a push that slips in between
\* recv's look at the queue and its await leaves a permit.
ConsumerNeverSleepsOnWork ==
  Policy # "Block" /\ queue # <<>> =>
    /\ pc[Consumer] # "waiting"
    /\ pc[Consumer] = "notified" => permit

\* The inductive invariant behind the theorems of FlowBufferProofs: a task
\* sleeps exactly while Notify lists it, once; a flow inside the buffer or
\* beyond it belongs to a push that has returned; pushes sleep only under
\* Block; and the consumer does not sleep on work.
SleepersListed ==
  /\ \A i \in 1..Len(waiters) : pc[waiters[i]] = "waiting"
  /\ \A i, j \in 1..Len(waiters) : i # j => waiters[i] # waiters[j]
  /\ \A t \in Tasks : pc[t] = "waiting" => \E i \in 1..Len(waiters) : waiters[i] = t
AdmittedReturned ==
  /\ \A i \in 1..Len(queue) : pc[queue[i]] = "Accepted"
  /\ \A i \in 1..Len(gone) : pc[gone[i]] = "Accepted"
OnlyBlockParks ==
  Policy # "Block" =>
    \A f \in Flows : pc[f] \notin {"top", "full", "notified", "waiting"}
OnlyDropOldestEvicts == \A f \in Flows : pc[f] = "evict" => Policy = "DropOldest"
BufferInv == /\ SleepersListed /\ AdmittedReturned /\ OnlyDropOldestEvicts
             /\ OnlyBlockParks /\ ConsumerNeverSleepsOnWork

\* Between two clears of the fingerprint set at most one flow per fingerprint
\* gets past deduplication (buffer.rs:115-128), whatever the interleaving.
PastDedup(f) == pc[f] \notin {"idle", "top", "dedup", "Duplicate"}
OnePerFingerprintAndEra ==
  DedupEnabled =>
    \A f, g \in Flows :
      /\ f # g /\ Fingerprint[f] = Fingerprint[g]
      /\ PastDedup(f) /\ PastDedup(g)
      /\ pc[f] # "Overflow" /\ pc[g] # "Overflow"
      => bornIn[f] # bornIn[g]

\* What buffer.rs:85-86 promises of the buffer from_config builds: a push that answers Duplicate drops
\* nothing, an equal flow of another push has been let in or is on its way in.  A push that waits for room
\* begins again at the head of the loop (buffer.rs:107, 153-155) and meets the fingerprint it recorded itself.
NoSilentLoss ==
  \A f \in Flows : pc[f] = "Duplicate" =>
    \E g \in Flows \ {f} : Fingerprint[g] = Fingerprint[f] /\ pc[g] \notin {"idle", "Duplicate", "Overflow"}

\* The byte cap is exceeded only by a single flow larger than the cap that
\* was let into an empty queue (buffer.rs:69-72).
BytesBounded == MaxBytes > 0 /\ queued_bytes > MaxBytes => Len(queue) = 1

\* queued_bytes, maintained by deltas on every path (buffer.rs:143-144, 161-162,
\* 195-196), is the size of what is queued, and only a single flow larger than the cap
\* exceeds it.
TotalSize(flows) ==
  LET total[i \in 0..Len(flows)] == IF i = 0 THEN 0 ELSE total[i - 1] + Size[flows[i]]
  IN total[Len(flows)]
ByteAccounting == BytesBounded /\ queued_bytes = TotalSize(queue)

\* After close the consumer gets its None, even when close slips in between
\* recv's look at the queue and its await (buffer.rs:186-212).
ConsumerStopsAfterClose == closed ~> pc[Consumer] = "ended"

\* An accepted flow leaves the queue, unless the consumer has ended.
AcceptedLeaves ==
  \A f \in Flows : pc[f] = "Accepted" ~>
    (pc[Consumer] = "ended" \/ \E i \in 1..Len(gone) : gone[i] = f)

\* The buffer is the channel of FlowChannel: bounded, first-in first-out, no
\* flow twice, and lossy only under DropOldest.
Channel == INSTANCE FlowChannel
             WITH Lossy <- (Policy = "DropOldest"), held <- queue, lost <- evicted
ImplementsChannel == Channel!ChannelSpec
===============================================================================
