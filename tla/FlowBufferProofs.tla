--------------------------- MODULE FlowBufferProofs ---------------------------
(***************************************************************************)
(* Theorems about FlowBuffer, for every set of flows, capacity, byte cap,  *)
(* overflow policy and deduplication setting.                              *)
(***************************************************************************)
EXTENDS FlowBuffer, SequenceTheorems, WellFoundedInduction, TLAPS

-------------------------------------------------------------------------------
(* Type correctness *)

\* What notify_one does to the types: pc and the sleepers stay well typed,
\* whatever well-typed move the caller makes (tokio Notify::notify_one).
LEMMA NotifyOneTypes ==
  ASSUME TypeOK, NEW t \in Tasks, NEW step,
         t = Consumer => step \in RecvSteps,
         t \in Flows => step \in PushSteps,
         NotifyOne([pc EXCEPT ![t] = step])
  PROVE  /\ waiters' \in Seq(Tasks)
         /\ permit' \in BOOLEAN
         /\ pc' \in [Tasks -> PushSteps \cup RecvSteps]
         /\ \A f \in Flows : pc'[f] \in PushSteps
         /\ pc'[Consumer] \in RecvSteps
<1> DEFINE next == [pc EXCEPT ![t] = step]
<1>1. /\ next \in [Tasks -> PushSteps \cup RecvSteps]
      /\ \A f \in Flows : next[f] \in PushSteps
      /\ next[Consumer] \in RecvSteps
  BY BufferAssumption DEF TypeOK, Tasks
<1>2. CASE waiters # <<>>
  <2>1. Head(waiters) \in Tasks /\ Tail(waiters) \in Seq(Tasks)
    BY <1>2, HeadTailProperties DEF TypeOK
  <2>2. "top" \in PushSteps /\ "top" \in RecvSteps
    BY DEF PushSteps, RecvSteps
  <2>3. pc' = [next EXCEPT ![Head(waiters)] = "top"] /\ waiters' = Tail(waiters)
        /\ permit' = permit
    BY <1>2 DEF NotifyOne
  <2> HIDE DEF next
  <2>4. QED BY <1>1, <2>1, <2>2, <2>3, BufferAssumption DEF TypeOK, Tasks
<1>3. CASE waiters = <<>>
  BY <1>1, <1>3 DEF NotifyOne, TypeOK
<1>4. QED BY <1>2, <1>3

\* The three policies send a push that does not fit three ways (buffer.rs:138-157).
LEMMA WhenFullTable ==
  /\ WhenFull[Policy] \in {"evict", "Overflow", "full"}
  /\ WhenFull[Policy] = "full" => Policy = "Block"
  /\ WhenFull[Policy] = "evict" => Policy = "DropOldest"
<1>1. Policy \in {"DropOldest", "FailFast", "Block"}
  BY BufferAssumption
<1>2. /\ WhenFull["DropOldest"] = "evict" /\ WhenFull["FailFast"] = "Overflow"
      /\ WhenFull["Block"] = "full"
  BY DEF WhenFull
<1>3. QED BY <1>1, <1>2

LEMMA PushBackTypes ==
  ASSUME TypeOK, NEW f \in Flows, PushBack(f)
  PROVE  TypeOK'
<1>1. "Accepted" \in PushSteps
  BY DEF PushSteps, Outcomes
<1>2. NotifyOne([pc EXCEPT ![f] = "Accepted"])
  BY DEF PushBack
<1>3. f # Consumer /\ f \in Tasks
  BY BufferAssumption DEF Tasks
<1>4. /\ waiters' \in Seq(Tasks)
      /\ permit' \in BOOLEAN
      /\ pc' \in [Tasks -> PushSteps \cup RecvSteps]
      /\ \A g \in Flows : pc'[g] \in PushSteps
      /\ pc'[Consumer] \in RecvSteps
  BY <1>1, <1>2, <1>3, NotifyOneTypes
<1>5. queue' \in Seq(Flows) /\ queued_bytes' \in Int /\ accepted' \in Nat
  BY BufferAssumption DEF PushBack, TypeOK
<1>6. QED
  BY <1>4, <1>5 DEF PushBack, TypeOK, dedupVars, closeVars

LEMMA PollTypes ==
  ASSUME TypeOK, NEW t \in Tasks, PollNotified(t)
  PROVE  TypeOK'
<1>0. Append(waiters, t) \in Seq(Tasks)
  BY DEF TypeOK
<1>1. /\ waiters' \in Seq(Tasks)
      /\ permit' \in BOOLEAN
  BY <1>0, Zenon DEF PollNotified, TypeOK, notifyVars
<1>2. PICK step \in {"top", "waiting"} : pc' = [pc EXCEPT ![t] = step]
  BY DEF PollNotified
<1>3. step \in PushSteps /\ step \in RecvSteps
  BY <1>2 DEF PushSteps, RecvSteps
<1>4. /\ pc' \in [Tasks -> PushSteps \cup RecvSteps]
      /\ \A f \in Flows : pc'[f] \in PushSteps
      /\ pc'[Consumer] \in RecvSteps
  BY <1>2, <1>3 DEF TypeOK, Tasks
<1>5. QED
  BY <1>1, <1>4 DEF PollNotified, TypeOK, queueVars, dedupVars, closeVars

\* A step of push other than those that notify or poll moves only its own pc.
LEMMA GotoTypes ==
  ASSUME TypeOK, NEW f \in Flows, NEW step \in PushSteps, Goto(f, step)
  PROVE  /\ pc' \in [Tasks -> PushSteps \cup RecvSteps]
         /\ \A g \in Flows : pc'[g] \in PushSteps
         /\ pc'[Consumer] \in RecvSteps
BY BufferAssumption DEF Goto, TypeOK, Tasks

LEMMA PushTypes ==
  ASSUME TypeOK, NEW f \in Flows, BeginPush(f) \/ PushStep(f)
  PROVE  TypeOK'
<1> USE DEF queueVars, dedupVars, closeVars, notifyVars
<1>0. /\ "dedup" \in PushSteps /\ "enqueue" \in PushSteps /\ "evict" \in PushSteps
      /\ "full" \in PushSteps /\ "notified" \in PushSteps
      /\ "Duplicate" \in PushSteps /\ "Overflow" \in PushSteps
  BY DEF PushSteps, Outcomes
<1>1. CASE BeginPush(f) \/ RetryPush(f)
  <2>1. PICK step \in PushSteps : Goto(f, step)
    BY <1>0, <1>1 DEF BeginPush, RetryPush, CheckClosed
  <2>2. QED BY <1>1, <2>1, GotoTypes DEF BeginPush, RetryPush, CheckClosed, TypeOK
<1>2. CASE RecordFingerprint(f)
  <2>1. Goto(f, "enqueue")
    BY <1>2 DEF RecordFingerprint
  <2>2. /\ pc' \in [Tasks -> PushSteps \cup RecvSteps] /\ pc'[Consumer] \in RecvSteps
        /\ \A g \in Flows : pc'[g] \in PushSteps
    BY <1>0, <2>1, GotoTypes
  <2> QED
    BY <1>2, <2>2 DEF RecordFingerprint, TypeOK
<1>3. CASE ReportDuplicate(f)
  BY <1>0, <1>3, GotoTypes DEF ReportDuplicate, TypeOK
<1>4. CASE EnqueueFits(f) \/ EnqueueEvicted(f)
  BY <1>4, PushBackTypes DEF EnqueueFits, EnqueueEvicted
<1>5. CASE EnqueueFull(f)
  <2>1. PICK step \in PushSteps : Goto(f, step)
    <3>1. WhenFull[Policy] \in PushSteps
      BY WhenFullTable DEF PushSteps, Outcomes
    <3>2. QED BY <1>5, <3>1 DEF EnqueueFull
  <2>2. dropped' \in Nat
    BY <1>5 DEF EnqueueFull, TypeOK
  <2>3. QED BY <1>5, <2>1, <2>2, GotoTypes DEF EnqueueFull, TypeOK
<1>6. CASE EvictOldest(f)
  <2>1. Head(queue) \in Flows /\ Tail(queue) \in Seq(Flows)
    BY <1>6, HeadTailProperties DEF EvictOldest, TypeOK
  <2>2. Size[Head(queue)] \in Nat
    BY <2>1, BufferAssumption
  <2>3. Append(gone, Head(queue)) \in Seq(Flows)
    BY <2>1 DEF TypeOK
  <2>4. queued_bytes' \in Int /\ dropped' \in Nat
    BY <1>6, <2>2 DEF EvictOldest, TypeOK
  <2>5. evicted' \subseteq Flows
    BY <1>6, <2>1 DEF EvictOldest, TypeOK
  <2>6. QED BY <1>6, <2>1, <2>3, <2>4, <2>5 DEF EvictOldest, TypeOK
<1>7. CASE CreateNotified(f)
  <2>1. seenCalls' \in [Tasks -> Nat]
    BY <1>7 DEF CreateNotified, TypeOK, Tasks
  <2>2. QED BY <1>0, <1>7, <2>1, GotoTypes DEF CreateNotified, TypeOK
<1>8. CASE PollNotified(f)
  BY <1>8, PollTypes DEF Tasks
<1>9. QED
  BY <1>1, <1>2, <1>3, <1>4, <1>5, <1>6, <1>7, <1>8 DEF PushStep

LEMMA RecvTypes ==
  ASSUME TypeOK, RecvStep
  PROVE  TypeOK'
<1> USE DEF queueVars, dedupVars, closeVars, notifyVars
<1>0. Consumer \in Tasks
  BY DEF Tasks
<1>a. ASSUME NEW step \in RecvSteps, Goto(Consumer, step)
      PROVE  /\ pc' \in [Tasks -> PushSteps \cup RecvSteps]
             /\ \A g \in Flows : pc'[g] \in PushSteps
             /\ pc'[Consumer] \in RecvSteps
  BY <1>a, BufferAssumption DEF Goto, TypeOK, Tasks
<1>b. /\ "top" \in RecvSteps /\ "created" \in RecvSteps /\ "popped" \in RecvSteps
      /\ "notified" \in RecvSteps /\ "ended" \in RecvSteps
  BY DEF RecvSteps
<1>1. CASE BeginRecv
  <2>1. seenCalls' \in [Tasks -> Nat]
    BY <1>1, <1>0 DEF BeginRecv, TypeOK
  <2>2. QED BY <1>1, <1>a, <1>b, <2>1 DEF BeginRecv, TypeOK
<1>2. CASE PopFront
  <2>1. Head(queue) \in Flows /\ Tail(queue) \in Seq(Flows)
    BY <1>2, HeadTailProperties DEF PopFront, TypeOK
  <2>2. Size[Head(queue)] \in Nat
    BY <2>1, BufferAssumption
  <2>3. Append(gone, Head(queue)) \in Seq(Flows)
    BY <2>1 DEF TypeOK
  <2>4. /\ pc' \in [Tasks -> PushSteps \cup RecvSteps] /\ pc'[Consumer] \in RecvSteps
        /\ \A g \in Flows : pc'[g] \in PushSteps
    BY <1>2, <1>a, <1>b DEF PopFront
  <2>5. queued_bytes' \in Int
    BY <1>2, <2>2 DEF PopFront, TypeOK
  <2>6. QED BY <1>2, <2>1, <2>3, <2>4, <2>5 DEF PopFront, TypeOK
<1>3. CASE FindEmpty
  <2>1. PICK step \in RecvSteps : Goto(Consumer, step)
    BY <1>3, <1>b DEF FindEmpty
  <2>2. QED BY <1>3, <1>a, <2>1 DEF FindEmpty, TypeOK
<1>4. CASE NotifyAfterPop
  <2>1. NotifyOne([pc EXCEPT ![Consumer] = "top"])
    BY <1>4 DEF NotifyAfterPop
  <2>2. /\ waiters' \in Seq(Tasks)
        /\ permit' \in BOOLEAN
        /\ pc' \in [Tasks -> PushSteps \cup RecvSteps]
        /\ \A f \in Flows : pc'[f] \in PushSteps
        /\ pc'[Consumer] \in RecvSteps
    BY <1>0, <1>b, <2>1, NotifyOneTypes, BufferAssumption
  <2>3. QED BY <1>4, <2>2 DEF NotifyAfterPop, TypeOK
<1>5. CASE PollNotified(Consumer)
  BY <1>0, <1>5, PollTypes
<1>6. QED BY <1>1, <1>2, <1>3, <1>4, <1>5 DEF RecvStep

\* Every variable of the buffer keeps its type (buffer.rs:34-48, with tokio's
\* Notify beside it).
THEOREM TypeCorrect == Spec => []TypeOK
<1>1. Init => TypeOK
  <2> SUFFICES ASSUME Init PROVE TypeOK
    OBVIOUS
  <2>1. pc \in [Tasks -> PushSteps \cup RecvSteps]
    BY DEF Init, PushSteps, RecvSteps
  <2>2. \A f \in Flows : pc[f] \in PushSteps
    BY BufferAssumption DEF Init, PushSteps, Tasks
  <2>3. pc[Consumer] \in RecvSteps
    BY DEF Init, RecvSteps, Tasks
  <2>4. /\ queue \in Seq(Flows) /\ gone \in Seq(Flows) /\ waiters \in Seq(Tasks)
        /\ evicted \subseteq Flows
        /\ queued_bytes \in Int /\ accepted \in Nat /\ duplicates \in Nat
        /\ dropped \in Nat /\ calls \in Nat /\ era \in Nat
        /\ seenCalls \in [Tasks -> Nat] /\ bornIn \in [Flows -> Nat]
    BY DEF Init
  <2>5. closed \in BOOLEAN /\ closing \in BOOLEAN /\ permit \in BOOLEAN
    BY DEF Init
  <2>6. QED BY <2>1, <2>2, <2>3, <2>4, <2>5 DEF TypeOK
<1>2. TypeOK /\ [Next]_vars => TypeOK'
  <2> SUFFICES ASSUME TypeOK, [Next]_vars PROVE TypeOK'
    OBVIOUS
  <2> USE DEF queueVars, dedupVars, closeVars, notifyVars
  <2>1. CASE \E f \in Flows : BeginPush(f) \/ PushStep(f)
    BY <2>1, PushTypes
  <2>2. CASE RecvStep
    BY <2>2, RecvTypes
  <2>3. CASE StoreClosed
    BY <2>3 DEF StoreClosed, TypeOK
  <2>4. CASE WakeAll
    <3>1. "top" \in PushSteps /\ "top" \in RecvSteps
      BY DEF PushSteps, RecvSteps
    <3>2. /\ pc' \in [Tasks -> PushSteps \cup RecvSteps]
          /\ \A f \in Flows : pc'[f] \in PushSteps
          /\ pc'[Consumer] \in RecvSteps
      BY <2>4, <3>1 DEF WakeAll, NotifyWaiters, TypeOK, Tasks
    <3>3. calls' \in Nat /\ waiters' \in Seq(Tasks)
      BY <2>4 DEF WakeAll, NotifyWaiters, TypeOK
    <3>4. closing' \in BOOLEAN /\ permit' \in BOOLEAN /\ closed' \in BOOLEAN
      BY <2>4 DEF WakeAll, NotifyWaiters, TypeOK
    <3>5. QED BY <2>4, <3>2, <3>3, <3>4 DEF WakeAll, TypeOK
  <2>5. CASE ResetDedup
    BY <2>5 DEF ResetDedup, TypeOK
  <2>6. CASE UNCHANGED vars
    BY <2>6 DEF vars, TypeOK
  <2>7. QED BY <2>1, <2>2, <2>3, <2>4, <2>5, <2>6 DEF Next
<1>3. QED BY <1>1, <1>2, PTL DEF Spec
-------------------------------------------------------------------------------
(* The inductive invariant *)

\* notify_one wakes the oldest sleeper or leaves a permit, and moves nobody
\* else but the caller.
LEMMA NotifyOneEffect ==
  ASSUME TypeOK, SleepersListed, NEW t \in Tasks, NEW step,
         pc[t] # "waiting", step # "waiting",
         NotifyOne([pc EXCEPT ![t] = step])
  PROVE  /\ SleepersListed'
         /\ \A u \in Tasks : pc'[u] = IF u = t THEN step
                                     ELSE IF waiters # <<>> /\ u = Head(waiters)
                                       THEN "top" ELSE pc[u]
         /\ waiters = <<>> => permit'
<1> DEFINE next == [pc EXCEPT ![t] = step]
<1>0. /\ \A u \in Tasks : next[u] = IF u = t THEN step ELSE pc[u]
      /\ DOMAIN next = Tasks
  BY DEF TypeOK
<1>1. CASE waiters = <<>>
  <2>1. pc' = next /\ waiters' = waiters /\ permit' = TRUE
    BY <1>1 DEF NotifyOne
  <2>2. \A u \in Tasks : pc'[u] = IF u = t THEN step ELSE pc[u]
    BY <1>0, <2>1
  <2>3. \A u \in Tasks : pc'[u] # "waiting"
    BY <1>1, <2>2 DEF SleepersListed
  <2>4. SleepersListed'
    BY <1>1, <2>1, <2>3 DEF SleepersListed
  <2>5. QED BY <1>1, <2>1, <2>2, <2>4
<1>2. CASE waiters # <<>>
  <2>1. pc' = [next EXCEPT ![Head(waiters)] = "top"] /\ waiters' = Tail(waiters)
    BY <1>2 DEF NotifyOne
  <2>2. /\ Head(waiters) = waiters[1] /\ Len(waiters) \in Nat /\ Len(waiters) >= 1
        /\ Len(waiters') = Len(waiters) - 1
        /\ \A i \in 1..Len(waiters') : waiters'[i] = waiters[i + 1]
        /\ \A i \in 1..Len(waiters) : waiters[i] \in Tasks
    BY <1>2, <2>1 DEF TypeOK
  <2>3. Head(waiters) # t /\ Head(waiters) \in Tasks
    BY <2>2 DEF SleepersListed
  <2> HIDE DEF next
  <2>4. \A u \in Tasks : pc'[u] = IF u = t THEN step
                                 ELSE IF u = Head(waiters) THEN "top" ELSE pc[u]
    BY <1>0, <2>1, <2>3
  <2>5. \A i \in 1..Len(waiters') : pc'[waiters'[i]] = "waiting"
    <3> TAKE i \in 1..Len(waiters')
    <3>1. i + 1 \in 1..Len(waiters) /\ i + 1 # 1 /\ waiters'[i] = waiters[i + 1]
      BY <2>2
    <3>2. waiters[i + 1] # Head(waiters) /\ pc[waiters[i + 1]] = "waiting"
      BY <2>2, <3>1 DEF SleepersListed
    <3>3. QED BY <2>2, <2>4, <3>1, <3>2
  <2>6. \A i, j \in 1..Len(waiters') : i # j => waiters'[i] # waiters'[j]
    <3> TAKE i, j \in 1..Len(waiters')
    <3>1. /\ i + 1 \in 1..Len(waiters) /\ waiters'[i] = waiters[i + 1]
          /\ j + 1 \in 1..Len(waiters) /\ waiters'[j] = waiters[j + 1]
          /\ i # j => i + 1 # j + 1
      BY <2>2
    <3>2. QED BY <3>1 DEF SleepersListed
  <2>7. \A u \in Tasks : pc'[u] = "waiting" => \E i \in 1..Len(waiters') : waiters'[i] = u
    <3> SUFFICES ASSUME NEW u \in Tasks, pc'[u] = "waiting"
                 PROVE  \E i \in 1..Len(waiters') : waiters'[i] = u
      OBVIOUS
    <3>1. u # Head(waiters) /\ pc[u] = "waiting"
      BY <2>4
    <3>2. PICK i \in 1..Len(waiters) : waiters[i] = u
      BY <3>1 DEF SleepersListed
    <3>3. i # 1
      BY <2>2, <3>1, <3>2
    <3>4. i - 1 \in 1..Len(waiters') /\ waiters'[i - 1] = u
      BY <2>2, <3>2, <3>3
    <3>5. QED BY <3>4
  <2>8. SleepersListed'
    BY <2>5, <2>6, <2>7 DEF SleepersListed
  <2>9. QED BY <1>2, <2>4, <2>8
<1>3. QED BY <1>1, <1>2

\* A step that wakes nobody and puts nobody to sleep keeps the list right.
LEMMA MoveKeepsSleepers ==
  ASSUME TypeOK, SleepersListed, NEW t \in Tasks, NEW step,
         pc[t] # "waiting", step # "waiting", Goto(t, step), waiters' = waiters
  PROVE  SleepersListed'
<1>1. \A u \in Tasks : pc'[u] = IF u = t THEN step ELSE pc[u]
  BY DEF Goto, TypeOK
<1>2. \A i \in 1..Len(waiters) : waiters[i] \in Tasks
  BY DEF TypeOK
<1>3. QED BY <1>1, <1>2 DEF SleepersListed

LEMMA PollKeepsSleepers ==
  ASSUME TypeOK, SleepersListed, NEW t \in Tasks, PollNotified(t)
  PROVE  SleepersListed'
<1>1. pc[t] = "notified"
  BY DEF PollNotified
<1>2. CASE waiters' = waiters /\ Goto(t, "top")
  BY <1>1, <1>2, MoveKeepsSleepers
<1>3. CASE waiters' = Append(waiters, t) /\ Goto(t, "waiting")
  <2>1. \A u \in Tasks : pc'[u] = IF u = t THEN "waiting" ELSE pc[u]
    BY <1>3 DEF Goto, TypeOK
  <2>2. /\ Len(waiters) \in Nat /\ Len(waiters') = Len(waiters) + 1
        /\ \A i \in 1..Len(waiters) : waiters'[i] = waiters[i] /\ waiters[i] \in Tasks
        /\ waiters'[Len(waiters) + 1] = t
    BY <1>3, AppendProperties DEF TypeOK
  <2>3. \A i \in 1..Len(waiters) : waiters[i] # t
    BY <1>1, <2>2 DEF SleepersListed
  <2>4. \A i \in 1..Len(waiters') : i \in 1..Len(waiters) \/ i = Len(waiters) + 1
    BY <2>2
  <2>5. \A i \in 1..Len(waiters') : pc'[waiters'[i]] = "waiting"
    BY <2>1, <2>2, <2>4 DEF SleepersListed
  <2>6. \A i, j \in 1..Len(waiters') : i # j => waiters'[i] # waiters'[j]
    BY <2>2, <2>3, <2>4 DEF SleepersListed
  <2>7. \A u \in Tasks : pc'[u] = "waiting" => \E i \in 1..Len(waiters') : waiters'[i] = u
    <3> TAKE u \in Tasks
    <3>1. CASE u = t
      BY <2>2, <3>1
    <3>2. CASE u # t
      BY <2>1, <2>2, <3>2 DEF SleepersListed
    <3>3. QED BY <3>1, <3>2
  <2>8. QED BY <2>5, <2>6, <2>7 DEF SleepersListed
<1>4. QED BY <1>2, <1>3 DEF PollNotified, Goto, notifyVars
\* Moving the head of the queue to the end of `gone` keeps both made of
\* flows whose push has returned.
LEMMA HeadLeavesReturned ==
  ASSUME TypeOK, AdmittedReturned, queue # <<>>,
         queue' = Tail(queue), gone' = Append(gone, Head(queue)),
         \A f \in Flows : pc'[f] = pc[f]
  PROVE  AdmittedReturned'
<1>1. /\ Head(queue) = queue[1] /\ 1 \in 1..Len(queue)
      /\ \A i \in 1..Len(queue') : i + 1 \in 1..Len(queue) /\ queue'[i] = queue[i + 1]
      /\ \A i \in 1..Len(queue) : queue[i] \in Flows
  BY DEF TypeOK
<1>2. /\ \A i \in 1..Len(gone') : (i \in 1..Len(gone) /\ gone'[i] = gone[i]) \/ gone'[i] = queue[1]
      /\ \A i \in 1..Len(gone) : gone[i] \in Flows
  BY <1>1 DEF TypeOK
<1>3. \A i \in 1..Len(queue') : pc'[queue'[i]] = "Accepted"
  BY <1>1 DEF AdmittedReturned
<1>4. \A i \in 1..Len(gone') : pc'[gone'[i]] = "Accepted"
  BY <1>1, <1>2 DEF AdmittedReturned
<1>5. QED BY <1>3, <1>4 DEF AdmittedReturned

\* A push that only moves its own program counter keeps the invariant.
LEMMA GotoKeepsInv ==
  ASSUME TypeOK, BufferInv, NEW f \in Flows, NEW step, Goto(f, step),
         pc[f] \notin {"waiting", "Accepted"}, step # "waiting",
         Policy # "Block" => step \notin {"top", "full", "notified"},
         step = "evict" => Policy = "DropOldest",
         UNCHANGED <<waiters, permit, queue, gone>>
  PROVE  BufferInv'
<1>1. \A t \in Tasks : pc'[t] = IF t = f THEN step ELSE pc[t]
  BY DEF Goto, TypeOK
<1>2. f \in Tasks /\ Consumer \in Tasks /\ f # Consumer /\ Flows \subseteq Tasks
  BY BufferAssumption DEF Tasks
<1>3. SleepersListed'
  BY <1>2, MoveKeepsSleepers DEF BufferInv
<1>4. AdmittedReturned'
  <2>1. /\ \A i \in 1..Len(queue) : queue[i] \in Flows
        /\ \A i \in 1..Len(gone) : gone[i] \in Flows
    BY DEF TypeOK
  <2>2. QED BY <1>1, <1>2, <2>1 DEF BufferInv, AdmittedReturned
<1>5. OnlyBlockParks' /\ OnlyDropOldestEvicts'
  BY <1>1, <1>2 DEF BufferInv, OnlyBlockParks, OnlyDropOldestEvicts
<1>6. ConsumerNeverSleepsOnWork'
  BY <1>1, <1>2 DEF BufferInv, ConsumerNeverSleepsOnWork
<1>7. QED BY <1>3, <1>4, <1>5, <1>6 DEF BufferInv

\* The append of a push: whoever sleeps first is woken, and under the policies
\* that never park that can only be the consumer.
LEMMA PushBackKeepsInv ==
  ASSUME TypeOK, BufferInv, NEW f \in Flows, pc[f] \in {"enqueue", "evict"}, PushBack(f)
  PROVE  BufferInv'
<1>1. f \in Tasks /\ Consumer \in Tasks /\ f # Consumer /\ Flows \subseteq Tasks
  BY BufferAssumption DEF Tasks
<1>2. /\ SleepersListed'
      /\ \A u \in Tasks : pc'[u] = IF u = f THEN "Accepted"
                                  ELSE IF waiters # <<>> /\ u = Head(waiters)
                                    THEN "top" ELSE pc[u]
      /\ waiters = <<>> => permit'
  <2>1. NotifyOne([pc EXCEPT ![f] = "Accepted"])
    BY DEF PushBack
  <2>2. QED BY <1>1, <2>1, NotifyOneEffect DEF BufferInv
<1>3. waiters # <<>> => Head(waiters) \in Tasks /\ pc[Head(waiters)] = "waiting"
  BY DEF TypeOK, BufferInv, SleepersListed
<1>4. AdmittedReturned'
  <2>1. /\ \A i \in 1..Len(queue') : (i \in 1..Len(queue) /\ queue'[i] = queue[i]) \/ queue'[i] = f
        /\ \A i \in 1..Len(queue) : queue[i] \in Flows
        /\ \A i \in 1..Len(gone) : gone[i] \in Flows
        /\ gone' = gone
    BY DEF PushBack, TypeOK
  <2>2. \A g \in Flows : pc[g] = "Accepted" => pc'[g] = "Accepted"
    BY <1>1, <1>2, <1>3
  <2>3. \A i \in 1..Len(queue') : pc'[queue'[i]] = "Accepted"
    BY <1>1, <1>2, <2>1, <2>2 DEF BufferInv, AdmittedReturned
  <2>4. \A i \in 1..Len(gone') : pc'[gone'[i]] = "Accepted"
    BY <2>1, <2>2 DEF BufferInv, AdmittedReturned
  <2>5. QED BY <2>3, <2>4 DEF AdmittedReturned
<1>5. ASSUME Policy # "Block", waiters # <<>>
      PROVE  Head(waiters) = Consumer
  BY <1>3, <1>5 DEF Tasks, BufferInv, OnlyBlockParks
<1>6. OnlyBlockParks' /\ OnlyDropOldestEvicts'
  <2>1. \A g \in Flows : pc'[g] \in {"Accepted", "top", pc[g]}
    BY <1>1, <1>2
  <2>2. Policy # "Block" => \A g \in Flows : pc'[g] \in {"Accepted", pc[g]}
    BY <1>1, <1>2, <1>5, BufferAssumption
  <2>3. QED BY <2>1, <2>2 DEF BufferInv, OnlyBlockParks, OnlyDropOldestEvicts
<1>7. ConsumerNeverSleepsOnWork'
  <2> SUFFICES ASSUME Policy # "Block"
               PROVE  /\ pc'[Consumer] # "waiting"
                      /\ pc'[Consumer] = "notified" => permit'
    BY DEF ConsumerNeverSleepsOnWork
  <2>1. CASE waiters = <<>>
    <3>1. pc[Consumer] # "waiting"
      BY <1>1, <2>1 DEF BufferInv, SleepersListed
    <3>2. QED BY <1>1, <1>2, <2>1, <3>1
  <2>2. CASE waiters # <<>>
    BY <1>1, <1>2, <1>5, <2>2
  <2>3. QED BY <2>1, <2>2
<1>8. QED BY <1>2, <1>4, <1>6, <1>7 DEF BufferInv

LEMMA PushKeepsInv ==
  ASSUME TypeOK, BufferInv, NEW f \in Flows, BeginPush(f) \/ PushStep(f)
  PROVE  BufferInv'
<1> USE DEF queueVars, dedupVars, closeVars, notifyVars
<1>1. CASE BeginPush(f) \/ RetryPush(f)
  <2>1. PICK step \in {"Overflow", "dedup", "enqueue"} : Goto(f, step)
    BY <1>1 DEF BeginPush, RetryPush, CheckClosed
  <2>2. pc[f] \in {"idle", "top"} /\ UNCHANGED <<waiters, permit, queue, gone>>
    BY <1>1 DEF BeginPush, RetryPush, CheckClosed
  <2>3. QED BY <2>1, <2>2, GotoKeepsInv
<1>2. CASE RecordFingerprint(f)
  <2>1. pc[f] = "dedup" /\ Goto(f, "enqueue") /\ UNCHANGED <<waiters, permit, queue, gone>>
    BY <1>2 DEF RecordFingerprint
  <2>2. QED BY <2>1, GotoKeepsInv
<1>3. CASE ReportDuplicate(f)
  <2>1. pc[f] = "dedup" /\ Goto(f, "Duplicate") /\ UNCHANGED <<waiters, permit, queue, gone>>
    BY <1>3 DEF ReportDuplicate
  <2>2. QED BY <2>1, GotoKeepsInv
<1>4. CASE EnqueueFits(f) \/ EnqueueEvicted(f)
  BY <1>4, PushBackKeepsInv DEF EnqueueFits, EnqueueEvicted
<1>5. CASE EnqueueFull(f)
  <2>1. PICK step \in {"evict", "Overflow", "full"} :
          /\ Goto(f, step)
          /\ step = "full" => Policy = "Block"
          /\ step = "evict" => Policy = "DropOldest"
    BY <1>5, WhenFullTable DEF EnqueueFull
  <2>2. pc[f] = "enqueue" /\ UNCHANGED <<waiters, permit, queue, gone>>
    BY <1>5 DEF EnqueueFull
  <2>3. QED BY <2>1, <2>2, GotoKeepsInv
<1>6. CASE EvictOldest(f)
  <2>1. AdmittedReturned'
    BY <1>6, HeadLeavesReturned DEF EvictOldest, BufferInv
  <2>2. /\ SleepersListed' /\ OnlyBlockParks' /\ OnlyDropOldestEvicts'
        /\ ConsumerNeverSleepsOnWork'
    BY <1>6 DEF EvictOldest, BufferInv, SleepersListed, OnlyBlockParks,
                OnlyDropOldestEvicts, ConsumerNeverSleepsOnWork
  <2>3. QED BY <2>1, <2>2 DEF BufferInv
<1>7. CASE CreateNotified(f)
  <2>1. pc[f] = "full" /\ Goto(f, "notified") /\ UNCHANGED <<waiters, permit, queue, gone>>
    BY <1>7 DEF CreateNotified
  <2>2. Policy = "Block"
    BY <2>1 DEF BufferInv, OnlyBlockParks
  <2>3. QED BY <2>1, <2>2, GotoKeepsInv
<1>8. CASE PollNotified(f)
  <2>1. pc[f] = "notified" /\ queue' = queue /\ gone' = gone /\ f \in Tasks
    BY <1>8 DEF PollNotified, Tasks
  <2>2. Policy = "Block"
    BY <2>1 DEF BufferInv, OnlyBlockParks
  <2>3. SleepersListed'
    BY <1>8, <2>1, PollKeepsSleepers DEF BufferInv
  <2>4. PICK step \in {"top", "waiting"} : pc' = [pc EXCEPT ![f] = step]
    BY <1>8 DEF PollNotified
  <2>5. AdmittedReturned'
    <3>1. /\ \A i \in 1..Len(queue) : queue[i] \in Tasks
          /\ \A i \in 1..Len(gone) : gone[i] \in Tasks
      BY DEF TypeOK, Tasks
    <3>2. QED BY <2>1, <2>4, <3>1 DEF BufferInv, AdmittedReturned, TypeOK
  <2>6. OnlyDropOldestEvicts'
    BY <2>1, <2>4 DEF BufferInv, OnlyDropOldestEvicts, TypeOK
  <2>7. QED
    BY <2>2, <2>3, <2>5, <2>6 DEF BufferInv, OnlyBlockParks, ConsumerNeverSleepsOnWork
<1>9. QED BY <1>1, <1>2, <1>3, <1>4, <1>5, <1>6, <1>7, <1>8 DEF PushStep
\* The consumer's own moves: its pc, and the head of the queue when it pops.
LEMMA RecvKeepsInv ==
  ASSUME TypeOK, BufferInv, RecvStep
  PROVE  BufferInv'
<1> USE DEF queueVars, dedupVars, closeVars, notifyVars
<1>0. Consumer \in Tasks /\ Flows \subseteq Tasks /\ Consumer \notin Flows
  BY BufferAssumption DEF Tasks
<1>a. ASSUME NEW step, Goto(Consumer, step), step # "waiting", pc[Consumer] # "waiting",
             UNCHANGED <<waiters, permit>>
      PROVE  /\ SleepersListed' /\ OnlyBlockParks' /\ OnlyDropOldestEvicts'
             /\ \A f \in Flows : pc'[f] = pc[f]
             /\ pc'[Consumer] = step
  <2>1. SleepersListed'
    BY <1>0, <1>a, MoveKeepsSleepers DEF BufferInv
  <2>2. /\ \A f \in Flows : pc'[f] = pc[f]
        /\ pc'[Consumer] = step
    BY <1>0, <1>a DEF Goto, TypeOK
  <2>3. OnlyBlockParks' /\ OnlyDropOldestEvicts'
    BY <2>2 DEF BufferInv, OnlyBlockParks, OnlyDropOldestEvicts
  <2>4. QED BY <2>1, <2>2, <2>3
<1>b. ASSUME UNCHANGED <<queue, gone>>, \A f \in Flows : pc'[f] = pc[f]
      PROVE  AdmittedReturned'
  <2>1. /\ \A i \in 1..Len(queue) : queue[i] \in Flows
        /\ \A i \in 1..Len(gone) : gone[i] \in Flows
    BY DEF TypeOK
  <2>2. QED BY <1>b, <2>1 DEF BufferInv, AdmittedReturned
<1>1. CASE BeginRecv
  <2>1. /\ Goto(Consumer, "created") /\ pc[Consumer] = "top"
        /\ UNCHANGED <<waiters, permit, queue, gone>>
    BY <1>1 DEF BeginRecv
  <2>2. QED BY <1>a, <1>b, <2>1 DEF BufferInv, ConsumerNeverSleepsOnWork
<1>2. CASE PopFront
  <2>1. /\ Goto(Consumer, "popped") /\ pc[Consumer] = "created"
        /\ UNCHANGED <<waiters, permit>>
    BY <1>2 DEF PopFront
  <2>2. AdmittedReturned'
    BY <1>2, <1>a, <2>1, HeadLeavesReturned DEF PopFront, BufferInv
  <2>3. QED BY <1>a, <2>1, <2>2 DEF BufferInv, ConsumerNeverSleepsOnWork
<1>3. CASE FindEmpty
  <2>1. PICK step \in {"ended", "notified"} : Goto(Consumer, step)
    BY <1>3 DEF FindEmpty
  <2>2. /\ pc[Consumer] = "created" /\ queue = <<>>
        /\ UNCHANGED <<waiters, permit, queue, gone>>
    BY <1>3 DEF FindEmpty
  <2>3. QED BY <1>a, <1>b, <2>1, <2>2 DEF BufferInv, ConsumerNeverSleepsOnWork
<1>4. CASE NotifyAfterPop
  <2>1. NotifyOne([pc EXCEPT ![Consumer] = "top"]) /\ pc[Consumer] = "popped"
        /\ UNCHANGED <<queue, gone>>
    BY <1>4 DEF NotifyAfterPop
  <2>2. /\ SleepersListed'
        /\ \A u \in Tasks : pc'[u] = IF u = Consumer THEN "top"
                                    ELSE IF waiters # <<>> /\ u = Head(waiters)
                                      THEN "top" ELSE pc[u]
    BY <1>0, <2>1, NotifyOneEffect DEF BufferInv
  <2>3. waiters # <<>> => Head(waiters) \in Tasks /\ pc[Head(waiters)] = "waiting"
    BY DEF TypeOK, BufferInv, SleepersListed
  <2>4. AdmittedReturned'
    <3>1. /\ \A i \in 1..Len(queue) : queue[i] \in Flows
          /\ \A i \in 1..Len(gone) : gone[i] \in Flows
      BY DEF TypeOK
    <3>2. \A f \in Flows : pc[f] = "Accepted" => pc'[f] = "Accepted"
      BY <1>0, <2>2, <2>3
    <3>3. QED BY <2>1, <3>1, <3>2 DEF BufferInv, AdmittedReturned
  <2>5. OnlyBlockParks' /\ OnlyDropOldestEvicts'
    BY <1>0, <2>2, <2>3 DEF BufferInv, OnlyBlockParks, OnlyDropOldestEvicts
  <2>6. ConsumerNeverSleepsOnWork'
    BY <1>0, <2>2 DEF ConsumerNeverSleepsOnWork
  <2>7. QED BY <2>2, <2>4, <2>5, <2>6 DEF BufferInv
<1>5. CASE PollNotified(Consumer)
  <2>1. SleepersListed'
    BY <1>0, <1>5, PollKeepsSleepers DEF BufferInv
  <2>2. PICK step \in {"top", "waiting"} :
          Goto(Consumer, step) /\ (step = "waiting" => ~permit)
    BY <1>5 DEF PollNotified, Goto
  <2>3. pc[Consumer] = "notified" /\ UNCHANGED <<queue, gone>>
    BY <1>5 DEF PollNotified
  <2>4. /\ \A f \in Flows : pc'[f] = pc[f]
        /\ pc'[Consumer] = step
    BY <1>0, <2>2 DEF Goto, TypeOK
  <2>5. OnlyBlockParks' /\ OnlyDropOldestEvicts'
    BY <2>4 DEF BufferInv, OnlyBlockParks, OnlyDropOldestEvicts
  <2>6. ConsumerNeverSleepsOnWork'
    BY <2>2, <2>3, <2>4 DEF BufferInv, ConsumerNeverSleepsOnWork
  <2>7. QED BY <1>b, <2>1, <2>3, <2>4, <2>5, <2>6 DEF BufferInv
<1>6. QED BY <1>1, <1>2, <1>3, <1>4, <1>5 DEF RecvStep

\* notify_waiters empties the list of sleepers and wakes each of them.
LEMMA WakeAllKeepsInv ==
  ASSUME TypeOK, BufferInv, WakeAll
  PROVE  BufferInv'
<1>1. waiters' = <<>> /\ UNCHANGED <<queue, gone, permit>>
  BY DEF WakeAll, NotifyWaiters, queueVars
<1>2. \A t \in Tasks : pc'[t] = IF pc[t] = "waiting" THEN "top" ELSE pc[t]
  BY DEF WakeAll, NotifyWaiters
<1>3. Consumer \in Tasks /\ Flows \subseteq Tasks
  BY DEF Tasks
<1>4. SleepersListed'
  BY <1>1, <1>2 DEF SleepersListed
<1>5. AdmittedReturned'
  <2>1. /\ \A i \in 1..Len(queue) : queue[i] \in Tasks
        /\ \A i \in 1..Len(gone) : gone[i] \in Tasks
    BY DEF TypeOK, Tasks
  <2>2. QED BY <1>1, <1>2, <2>1 DEF BufferInv, AdmittedReturned
<1>6. OnlyBlockParks' /\ OnlyDropOldestEvicts'
  BY <1>2, <1>3 DEF BufferInv, OnlyBlockParks, OnlyDropOldestEvicts
<1>7. ConsumerNeverSleepsOnWork'
  BY <1>1, <1>2, <1>3 DEF BufferInv, ConsumerNeverSleepsOnWork
<1>8. QED BY <1>4, <1>5, <1>6, <1>7 DEF BufferInv

LEMMA InvInductive == TypeOK /\ BufferInv /\ [Next]_vars => BufferInv'
<1> SUFFICES ASSUME TypeOK, BufferInv, [Next]_vars PROVE BufferInv'
  OBVIOUS
<1> USE DEF queueVars, dedupVars, closeVars, notifyVars
<1>1. CASE \E f \in Flows : BeginPush(f) \/ PushStep(f)
  BY <1>1, PushKeepsInv
<1>2. CASE RecvStep
  BY <1>2, RecvKeepsInv
<1>3. CASE WakeAll
  BY <1>3, WakeAllKeepsInv
<1>4. CASE StoreClosed \/ ResetDedup \/ UNCHANGED vars
  <2>1. UNCHANGED <<queue, gone, permit, waiters, pc>>
    BY <1>4 DEF StoreClosed, ResetDedup, vars
  <2>2. QED
    BY <2>1 DEF BufferInv, SleepersListed, AdmittedReturned, OnlyBlockParks,
                OnlyDropOldestEvicts, ConsumerNeverSleepsOnWork
<1>5. QED BY <1>1, <1>2, <1>3, <1>4 DEF Next

\* The list of sleepers, the flows inside the buffer and the pushes agree in
\* every reachable state (buffer.rs:109-212).
THEOREM BufferInvariant == Spec => []BufferInv
<1>1. Init => BufferInv
  <2> SUFFICES ASSUME Init PROVE BufferInv
    OBVIOUS
  <2>1. \A t \in Tasks : pc[t] # "waiting"
    BY DEF Init
  <2>2. \A f \in Flows : pc[f] = "idle"
    BY BufferAssumption DEF Init, Tasks
  <2>3. queue = <<>> /\ gone = <<>> /\ waiters = <<>>
    BY DEF Init
  <2>4. QED BY <2>1, <2>2, <2>3 DEF BufferInv, SleepersListed, AdmittedReturned,
                                   OnlyBlockParks, OnlyDropOldestEvicts,
                                   ConsumerNeverSleepsOnWork
<1>2. QED BY <1>1, InvInductive, TypeCorrect, PTL DEF Spec

\* Under DropOldest and FailFast the consumer is never left asleep while flows
\* wait for it (buffer.rs:164, 188-205).
THEOREM NoLostWakeup == Spec => []ConsumerNeverSleepsOnWork
BY BufferInvariant, PTL DEF BufferInv

-------------------------------------------------------------------------------
(* The buffer implements the channel *)

\* Every step of the buffer is a step of the channel or leaves it alone.
LEMMA StepRefines ==
  TypeOK /\ BufferInv /\ [Next]_vars => [Channel!ChannelNext]_(Channel!chanVars)
<1> SUFFICES ASSUME TypeOK, BufferInv, [Next]_vars
             PROVE  [Channel!ChannelNext]_(Channel!chanVars)
  OBVIOUS
<1> USE DEF queueVars, dedupVars, closeVars, notifyVars, Channel!chanVars
<1>1. ASSUME NEW f \in Flows, EnqueueFits(f) \/ EnqueueEvicted(f)
      PROVE  Channel!Admit(f)
  <2>1. pc[f] # "Accepted" /\ PushBack(f)
    BY <1>1 DEF EnqueueFits, EnqueueEvicted
  <2>2. Channel!Fresh(f)
    BY <2>1 DEF Channel!Fresh, BufferInv, AdmittedReturned
  <2>3. Len(queue) < Capacity
    BY <1>1, BufferAssumption DEF EnqueueFits, EnqueueEvicted, Fits
  <2>4. QED BY <2>1, <2>2, <2>3 DEF Channel!Admit, PushBack
<1>2. ASSUME NEW f \in Flows, EvictOldest(f)
      PROVE  Channel!Lose
  <2>1. pc[f] = "evict"
    BY <1>2 DEF EvictOldest
  <2>2. Policy = "DropOldest"
    BY <2>1 DEF BufferInv, OnlyDropOldestEvicts
  <2>3. QED BY <1>2, <2>2 DEF EvictOldest, Channel!Lose, Channel!Depart
<1>3. ASSUME PopFront
      PROVE  Channel!Take
  BY <1>3 DEF PopFront, Channel!Take, Channel!Depart
<1>4. ASSUME NEW f \in Flows, BeginPush(f) \/ PushStep(f)
      PROVE  Channel!ChannelNext \/ UNCHANGED <<queue, gone, evicted>>
  BY <1>1, <1>2, <1>4 DEF PushStep, BeginPush, RetryPush, CheckClosed, RecordFingerprint,
     ReportDuplicate, EnqueueFull, CreateNotified, PollNotified, Channel!ChannelNext
<1>5. ASSUME RecvStep
      PROVE  Channel!ChannelNext \/ UNCHANGED <<queue, gone, evicted>>
  BY <1>3, <1>5 DEF RecvStep, BeginRecv, FindEmpty, NotifyAfterPop, PollNotified,
     Channel!ChannelNext
<1>6. QED
  BY <1>4, <1>5 DEF Next, StoreClosed, WakeAll, ResetDedup, vars

\* FlowBuffer is a bounded first-in first-out channel that carries each flow at
\* most once, and loses none unless its policy is DropOldest.
THEOREM BufferImplementsChannel == Spec => ImplementsChannel
<1>1. Init => Channel!ChannelInit
  BY DEF Init, Channel!ChannelInit
<1>2. QED
  BY <1>1, StepRefines, TypeCorrect, BufferInvariant, PTL
     DEF Spec, ImplementsChannel, Channel!ChannelSpec

-------------------------------------------------------------------------------
(* The bytes of the queue *)

\* Every nonempty set of numbers has a least one.
LEMMA LeastElement == ASSUME NEW T, T \subseteq Nat, T # {} PROVE \E x \in T : \A y \in T : x <= y
<1>1. IsWellFoundedOn(OpToRel(<, Nat), Nat)
  BY NatLessThanWellFounded
<1>2. PICK x \in T : \A y \in T : ~(<<y, x>> \in OpToRel(<, Nat))
  BY <1>1, WFMin
<1>3. \A y \in T : ~ (y < x)
  BY <1>2 DEF OpToRel
<1> QED
  BY <1>3

\* So a set that has 0, and with each number below n the next, has all of them up to n.
LEMMA CountingUp ==
  ASSUME NEW n \in Nat, NEW T, 0 \in T, \A i \in 0..n : i < n /\ i \in T => i + 1 \in T
  PROVE  \A i \in 0..n : i \in T
<1> SUFFICES ASSUME NEW i \in 0..n, i \notin T PROVE FALSE
  OBVIOUS
<1> DEFINE rest == {k \in 0..n : k \notin T}
<1>1. rest \subseteq Nat /\ rest # {}
  OBVIOUS
<1>2. PICK x \in rest : \A y \in rest : x <= y
  BY <1>1, LeastElement
<1>3. x # 0 /\ x - 1 \in 0..n /\ x - 1 < n /\ ~ (x <= x - 1)
  BY <1>2
<1>4. x - 1 \in T /\ (x - 1) + 1 = x
  BY <1>2, <1>3
<1> QED
  BY <1>2, <1>3, <1>4

\* The running total of the sizes of some flows, as TotalSize computes it.
Running(total, flows) ==
  total = [i \in 0..Len(flows) |-> IF i = 0 THEN 0 ELSE total[i - 1] + Size[flows[i]]]

\* There is one.
LEMMA RunningExists == ASSUME NEW flows \in Seq(Flows) PROVE \E total : Running(total, flows)
<1> DEFINE Upto(k, g) == g = [i \in 0..k |-> IF i = 0 THEN 0 ELSE g[i - 1] + Size[flows[i]]]
           T == {k \in 0..Len(flows) : \E g : Upto(k, g)}
<1>1. 0 \in T
  <2>1. \E g : Upto(0, g)
    <3>1. Upto(0, [i \in 0..0 |-> 0])
      OBVIOUS
    <3> QED
      BY <3>1
  <2> HIDE DEF Upto
  <2> QED
    BY <2>1
<1>2. ASSUME NEW k \in 0..Len(flows), k < Len(flows), k \in T PROVE k + 1 \in T
  <2>1. PICK g : Upto(k, g)
    BY <1>2
  <2> DEFINE h == [i \in 0..(k + 1) |-> IF i = k + 1 THEN g[k] + Size[flows[k + 1]] ELSE g[i]]
  <2>2. \A i \in 0..k : g[i] = IF i = 0 THEN 0 ELSE g[i - 1] + Size[flows[i]]
    BY <2>1
  <2>3. \A i \in 0..(k + 1) : h[i] = IF i = 0 THEN 0 ELSE h[i - 1] + Size[flows[i]]
    <3> TAKE i \in 0..(k + 1)
    <3>1. CASE i = k + 1
      BY <3>1
    <3>2. CASE i # k + 1
      <4>1. i \in 0..k /\ (i # 0 => i - 1 \in 0..k /\ i - 1 # k + 1)
        BY <3>2
      <4> QED
        BY <2>2, <3>2, <4>1
    <3> QED
      BY <3>1, <3>2
  <2>4. Upto(k + 1, h)
    <3> HIDE DEF h
    <3>1. h = [i \in 0..(k + 1) |-> h[i]]
      BY DEF h
    <3> QED
      BY <2>3, <3>1
  <2>5. \E e : Upto(k + 1, e)
    BY <2>4
  <2> HIDE DEF Upto
  <2> QED
    BY <1>2, <2>5
<1>3. Len(flows) \in T
  <2> HIDE DEF T
  <2>1. Len(flows) \in Nat
    OBVIOUS
  <2>2. \A k \in 0..Len(flows) : k \in T
    BY <1>1, <1>2, <2>1, CountingUp
  <2> QED
    BY <2>1, <2>2
<1>4. \E g : Upto(Len(flows), g)
  <2> HIDE DEF Upto
  <2> QED
    BY <1>3
<1> QED
  BY <1>4 DEF Running

\* TotalSize is the last of it, and the totals are numbers.
LEMMA TotalIsRunning ==
  ASSUME NEW flows \in Seq(Flows)
  PROVE  \E total : /\ Running(total, flows) /\ TotalSize(flows) = total[Len(flows)]
                    /\ \A i \in 0..Len(flows) : total[i] \in Nat
<1> DEFINE total == CHOOSE g : Running(g, flows)
<1>1. Running(total, flows) /\ TotalSize(flows) = total[Len(flows)]
  <2>1. Running(total, flows)
    BY RunningExists
  <2>2. TotalSize(flows) = (CHOOSE g : Running(g, flows))[Len(flows)]
    BY DEF TotalSize, Running
  <2> QED
    BY <2>1, <2>2
<1> HIDE DEF total
<1> DEFINE T == {i \in 0..Len(flows) : total[i] \in Nat}
<1>2. 0 \in T
  BY <1>1 DEF Running
<1>3. ASSUME NEW i \in 0..Len(flows), i < Len(flows), i \in T PROVE i + 1 \in T
  <2>1. total[i + 1] = total[i] + Size[flows[i + 1]] /\ i + 1 \in 0..Len(flows)
    BY <1>1, <1>3 DEF Running
  <2>2. Size[flows[i + 1]] \in Nat
    BY <1>3, BufferAssumption
  <2> QED
    BY <1>3, <2>1, <2>2
<1>4. \A i \in 0..Len(flows) : i \in T
  <2> HIDE DEF T
  <2> QED
    BY <1>2, <1>3, CountingUp
<1> QED
  BY <1>1, <1>4

\* Nothing in the queue is no bytes.
LEMMA TotalOfNone == TotalSize(<<>>) = 0
<1>1. PICK total : Running(total, <<>>) /\ TotalSize(<<>>) = total[Len(<<>>)]
  <2>1. <<>> \in Seq(Flows)
    OBVIOUS
  <2> QED
    BY <2>1, TotalIsRunning
<1> QED
  BY <1>1 DEF Running

\* A flow at the back adds its size.
LEMMA TotalOfAppend ==
  ASSUME NEW flows \in Seq(Flows), NEW f \in Flows
  PROVE  TotalSize(Append(flows, f)) = TotalSize(flows) + Size[f] /\ TotalSize(flows) \in Nat
<1> DEFINE n == Len(flows)
           longer == Append(flows, f)
<1>1. /\ longer \in Seq(Flows) /\ n \in Nat /\ Len(longer) = n + 1 /\ longer[n + 1] = f
      /\ \A i \in 1..n : longer[i] = flows[i]
  OBVIOUS
<1>2. PICK total : /\ Running(total, flows) /\ TotalSize(flows) = total[n]
                   /\ \A i \in 0..n : total[i] \in Nat
  BY TotalIsRunning
<1> HIDE DEF longer
<1>3. PICK more : Running(more, longer) /\ TotalSize(longer) = more[n + 1]
  BY <1>1, TotalIsRunning
<1> DEFINE T == {i \in 0..n : more[i] = total[i]}
<1>4. 0 \in T
  BY <1>1, <1>2, <1>3 DEF Running
<1>5. ASSUME NEW i \in 0..n, i < n, i \in T PROVE i + 1 \in T
  <2>1. i + 1 \in 1..n /\ i + 1 \in 0..n /\ i + 1 \in 0..(n + 1) /\ i + 1 # 0 /\ (i + 1) - 1 = i
    BY <1>1, <1>5
  <2>2. more[i + 1] = more[i] + Size[longer[i + 1]]
    BY <1>1, <1>3, <2>1 DEF Running
  <2>3. total[i + 1] = total[i] + Size[flows[i + 1]]
    BY <1>2, <2>1 DEF Running
  <2> QED
    BY <1>1, <1>5, <2>1, <2>2, <2>3
<1>6. n \in T
  <2>1. \A i \in 0..n : i \in T
    <3> HIDE DEF T
    <3> QED
      BY <1>1, <1>4, <1>5, CountingUp
  <2> QED
    BY <1>1, <2>1
<1>7. more[n + 1] = more[n] + Size[f]
  BY <1>1, <1>3 DEF Running
<1>8. n \in 0..n
  BY <1>1
<1> QED
  BY <1>2, <1>3, <1>6, <1>7, <1>8 DEF longer

\* The flow at the front takes its size away.
LEMMA TotalOfTail ==
  ASSUME NEW flows \in Seq(Flows), flows # <<>>
  PROVE  TotalSize(Tail(flows)) = TotalSize(flows) - Size[Head(flows)]
<1> DEFINE n == Len(Tail(flows))
           rest == Tail(flows)
<1>1. /\ rest \in Seq(Flows) /\ n \in Nat /\ Len(rest) = n /\ Len(flows) = n + 1 /\ Head(flows) = flows[1]
      /\ \A i \in 1..n : rest[i] = flows[i + 1]
      /\ Size[Head(flows)] \in Nat
  BY HeadTailProperties, BufferAssumption
<1>2. PICK total : /\ Running(total, flows) /\ TotalSize(flows) = total[n + 1]
                   /\ \A i \in 0..(n + 1) : total[i] \in Nat
  BY <1>1, TotalIsRunning
<1> HIDE DEF rest, n
<1>3. PICK less : /\ Running(less, rest) /\ TotalSize(rest) = less[n]
                  /\ \A i \in 0..n : less[i] \in Nat
  BY <1>1, TotalIsRunning
<1> DEFINE T == {i \in 0..n : total[i + 1] = less[i] + Size[Head(flows)]}
<1>4. 0 \in T
  <2>1. total[1] = total[0] + Size[flows[1]] /\ total[0] = 0 /\ less[0] = 0
    BY <1>1, <1>2, <1>3 DEF Running
  <2> QED
    BY <1>1, <2>1
<1>5. ASSUME NEW i \in 0..n, i < n, i \in T PROVE i + 1 \in T
  <2>1. /\ i + 1 \in 1..n /\ i + 1 \in 0..n /\ (i + 1) + 1 \in 0..(n + 1) /\ i + 1 # 0 /\ (i + 1) + 1 # 0
        /\ (i + 1) - 1 = i /\ ((i + 1) + 1) - 1 = i + 1
    BY <1>1, <1>5
  <2>2. less[i + 1] = less[i] + Size[rest[i + 1]]
    BY <1>1, <1>3, <2>1 DEF Running
  <2>3. total[(i + 1) + 1] = total[i + 1] + Size[flows[(i + 1) + 1]]
    BY <1>1, <1>2, <2>1 DEF Running
  <2>4. rest[i + 1] = flows[(i + 1) + 1] /\ rest[i + 1] \in Flows
    BY <1>1, <2>1
  <2>5. Size[rest[i + 1]] \in Nat /\ less[i] \in Nat
    BY <1>3, <2>4, BufferAssumption
  <2>6. total[(i + 1) + 1] = less[i + 1] + Size[Head(flows)]
    BY <1>1, <1>5, <2>2, <2>3, <2>4, <2>5
  <2> QED
    BY <2>1, <2>6
<1>6. n \in T
  <2>1. \A i \in 0..n : i \in T
    <3> HIDE DEF T
    <3> QED
      BY <1>1, <1>4, <1>5, CountingUp
  <2> QED
    BY <1>1, <2>1
<1>7. total[n + 1] = less[n] + Size[Head(flows)] /\ less[n] \in Nat
  BY <1>1, <1>3, <1>6
<1> QED
  BY <1>1, <1>2, <1>3, <1>7 DEF rest

\* Every step of the queue keeps the count of its bytes.
LEMMA BytesStep ==
  ASSUME TypeOK, ByteAccounting, [Next]_vars PROVE ByteAccounting'
<1>1. /\ queue \in Seq(Flows) /\ queued_bytes = TotalSize(queue) /\ queued_bytes \in Int
      /\ MaxBytes \in Nat /\ Size \in [Flows -> Nat]
      /\ MaxBytes > 0 /\ queued_bytes > MaxBytes => Len(queue) = 1
  BY BufferAssumption DEF TypeOK, ByteAccounting, BytesBounded
<1>2. CASE UNCHANGED <<queue, queued_bytes>>
  BY <1>1, <1>2 DEF ByteAccounting, BytesBounded
<1>3. ASSUME NEW f \in Flows, PushBack(f), queue = <<>> \/ Fits(f) PROVE ByteAccounting'
  <2>1. queue' = Append(queue, f) /\ queued_bytes' = queued_bytes + Size[f]
    BY <1>3 DEF PushBack
  <2>2. queued_bytes' = TotalSize(queue')
    BY <1>1, <2>1, TotalOfAppend
  <2>3. MaxBytes > 0 /\ queued_bytes' > MaxBytes => Len(queue') = 1
    <3>1. CASE queue = <<>>
      BY <2>1, <3>1
    <3>2. CASE Fits(f)
      BY <1>1, <2>1, <3>2 DEF Fits
    <3> QED
      BY <1>3, <3>1, <3>2
  <2> QED
    BY <2>2, <2>3 DEF ByteAccounting, BytesBounded
<1>4. ASSUME queue # <<>>, queue' = Tail(queue), queued_bytes' = queued_bytes - Size[Head(queue)]
      PROVE  ByteAccounting'
  <2>1. Head(queue) \in Flows /\ Size[Head(queue)] \in Nat /\ Len(queue) \in Nat /\ Tail(queue) \in Seq(Flows)
    BY <1>1, <1>4, HeadTailProperties
  <2>2. queued_bytes' = TotalSize(queue')
    BY <1>1, <1>4, TotalOfTail
  <2>3. MaxBytes > 0 /\ queued_bytes' > MaxBytes => Len(queue') = 1
    <3>1. CASE Len(queue) = 1
      <4>1. queue' = <<>>
        BY <1>1, <1>4, <3>1
      <4>2. queued_bytes' = 0
        BY <2>2, <4>1, TotalOfNone
      <4> QED
        BY <1>1, <4>2
    <3>2. CASE Len(queue) # 1
      BY <1>1, <1>4, <2>1, <3>2
    <3> QED
      BY <3>1, <3>2
  <2> QED
    BY <2>2, <2>3 DEF ByteAccounting, BytesBounded
<1> USE DEF queueVars
<1>5. ASSUME NEW f \in Flows, BeginPush(f) \/ PushStep(f) PROVE ByteAccounting'
  <2>1. CASE EnqueueFits(f) \/ EnqueueEvicted(f)
    BY <1>3, <2>1 DEF EnqueueFits, EnqueueEvicted
  <2>2. CASE EvictOldest(f)
    BY <1>4, <2>2 DEF EvictOldest
  <2>3. CASE ~(EnqueueFits(f) \/ EnqueueEvicted(f) \/ EvictOldest(f))
    <3>1. UNCHANGED <<queue, queued_bytes>>
      BY <1>5, <2>3 DEF PushStep, BeginPush, RetryPush, CheckClosed, RecordFingerprint, ReportDuplicate,
                        EnqueueFull, CreateNotified, PollNotified
    <3> QED
      BY <1>2, <3>1
  <2> QED
    BY <2>1, <2>2, <2>3
<1>6. ASSUME RecvStep PROVE ByteAccounting'
  <2>1. CASE PopFront
    BY <1>4, <2>1 DEF PopFront
  <2>2. CASE ~PopFront
    <3>1. UNCHANGED <<queue, queued_bytes>>
      BY <1>6, <2>2 DEF RecvStep, BeginRecv, FindEmpty, NotifyAfterPop, PollNotified
    <3> QED
      BY <1>2, <3>1
  <2> QED
    BY <2>1, <2>2
<1>7. CASE StoreClosed \/ WakeAll \/ ResetDedup \/ UNCHANGED vars
  BY <1>2, <1>7 DEF StoreClosed, WakeAll, ResetDedup, vars
<1> QED
  BY <1>5, <1>6, <1>7 DEF Next

\* For all sizes of flows, every capacity, cap and policy: the count of bytes is the size of what is queued,
\* and only a single flow larger than the cap exceeds it (buffer.rs:69-72, 141-162, 195-196).
THEOREM BytesAreCounted == Spec => []ByteAccounting
<1>1. Init => ByteAccounting
  <2> SUFFICES ASSUME Init PROVE ByteAccounting
    OBVIOUS
  <2>1. queue = <<>> /\ queued_bytes = 0
    BY DEF Init
  <2> QED
    BY <2>1, TotalOfNone, BufferAssumption DEF ByteAccounting, BytesBounded
<1>2. TypeOK /\ ByteAccounting /\ [Next]_vars => ByteAccounting'
  BY BytesStep
<1> QED
  BY <1>1, <1>2, TypeCorrect, PTL DEF Spec

-------------------------------------------------------------------------------
(* Deduplication *)

\* The flows let in during the present era have their fingerprints in the set; no flow is of a later era.
LetIn(f) == PastDedup(f) /\ pc[f] # "Overflow"
EraInv ==
  DedupEnabled =>
    /\ \A f \in Flows : bornIn[f] <= era
    /\ \A f \in Flows : LetIn(f) /\ bornIn[f] = era => Fingerprint[f] \in dedup
    /\ OnePerFingerprintAndEra

\* Where a step can take a flow.
Goes(g) ==
  \/ pc'[g] = pc[g]
  \/ pc[g] \in {"idle", "top"} /\ pc'[g] \in {"Overflow", IF DedupEnabled THEN "dedup" ELSE "enqueue"}
  \/ RecordFingerprint(g) /\ pc'[g] = "enqueue"
  \/ ReportDuplicate(g) /\ pc'[g] = "Duplicate"
  \/ pc[g] = "enqueue" /\ pc'[g] \in {"Accepted", WhenFull[Policy]}
  \/ pc[g] = "evict" /\ pc'[g] = "Accepted"
  \/ pc[g] \in {"full", "notified", "waiting"} /\ pc'[g] \in {"notified", "waiting", "top"}

\* It is one of these for every flow.
LEMMA FlowGoes == ASSUME TypeOK, BufferInv, [Next]_vars, NEW g \in Flows PROVE Goes(g)
<1>0. g \in Tasks /\ g # Consumer /\ Consumer \in Tasks /\ Flows \subseteq Tasks
  BY BufferAssumption DEF Tasks
<1>1. CASE pc' = pc
  BY <1>1 DEF Goes
<1>2. ASSUME NEW t \in Tasks, t # g, NEW step, Goto(t, step) PROVE Goes(g)
  BY <1>0, <1>2 DEF Goto, TypeOK, Goes
<1>3. ASSUME NEW step, Goto(g, step) PROVE pc'[g] = step
  BY <1>0, <1>3 DEF Goto, TypeOK
<1>4. ASSUME NEW t \in Tasks, NEW step, NotifyOne([pc EXCEPT ![t] = step]), pc[t] # "waiting", step # "waiting"
      PROVE  IF t = g THEN pc'[g] = step ELSE Goes(g)
  <2>1. pc'[g] = IF g = t THEN step ELSE IF waiters # <<>> /\ g = Head(waiters) THEN "top" ELSE pc[g]
    BY <1>0, <1>4, NotifyOneEffect DEF BufferInv
  <2>2. waiters # <<>> => pc[Head(waiters)] = "waiting"
    BY DEF TypeOK, BufferInv, SleepersListed
  <2> QED
    BY <2>1, <2>2 DEF Goes
<1>5. ASSUME NEW f \in Flows, BeginPush(f) \/ PushStep(f) PROVE Goes(g)
  <2>1. CASE BeginPush(f) \/ RetryPush(f)
    <3>1. /\ pc[f] \in {"idle", "top"} /\ f \in Tasks
          /\ Goto(f, IF closed THEN "Overflow" ELSE IF DedupEnabled THEN "dedup" ELSE "enqueue")
      BY <1>0, <2>1 DEF BeginPush, RetryPush, CheckClosed
    <3>2. CASE f = g
      <4>1. pc'[g] = IF closed THEN "Overflow" ELSE IF DedupEnabled THEN "dedup" ELSE "enqueue"
        BY <1>3, <3>1, <3>2
      <4> QED
        BY <3>1, <3>2, <4>1 DEF Goes
    <3> QED
      BY <1>2, <3>1, <3>2
  <2>2. CASE RecordFingerprint(f)
    <3>1. Goto(f, "enqueue") /\ f \in Tasks
      BY <1>0, <2>2 DEF RecordFingerprint
    <3>2. CASE f = g
      <4>1. pc'[g] = "enqueue"
        BY <1>3, <3>1, <3>2
      <4> QED
        BY <2>2, <3>2, <4>1 DEF Goes
    <3> QED
      BY <1>2, <3>1, <3>2
  <2>3. CASE ReportDuplicate(f)
    <3>1. Goto(f, "Duplicate") /\ f \in Tasks
      BY <1>0, <2>3 DEF ReportDuplicate
    <3>2. CASE f = g
      <4>1. pc'[g] = "Duplicate"
        BY <1>3, <3>1, <3>2
      <4> QED
        BY <2>3, <3>2, <4>1 DEF Goes
    <3> QED
      BY <1>2, <3>1, <3>2
  <2>4. CASE EnqueueFits(f) \/ EnqueueEvicted(f)
    <3>1. pc[f] \in {"enqueue", "evict"} /\ NotifyOne([pc EXCEPT ![f] = "Accepted"]) /\ f \in Tasks
      BY <1>0, <2>4 DEF EnqueueFits, EnqueueEvicted, PushBack
    <3>2. IF f = g THEN pc'[g] = "Accepted" ELSE Goes(g)
      BY <1>4, <3>1
    <3> QED
      BY <3>1, <3>2 DEF Goes
  <2>5. CASE EnqueueFull(f)
    <3>1. pc[f] = "enqueue" /\ Goto(f, WhenFull[Policy]) /\ f \in Tasks
      BY <1>0, <2>5 DEF EnqueueFull
    <3>2. CASE f = g
      <4>1. pc'[g] = WhenFull[Policy]
        BY <1>3, <3>1, <3>2
      <4> QED
        BY <3>1, <3>2, <4>1 DEF Goes
    <3> QED
      BY <1>2, <3>1, <3>2
  <2>6. CASE EvictOldest(f)
    BY <1>1, <2>6 DEF EvictOldest
  <2>7. CASE CreateNotified(f) \/ PollNotified(f)
    <3>1. /\ pc[f] \in {"full", "notified"} /\ f \in Tasks
          /\ Goto(f, "notified") \/ Goto(f, "top") \/ Goto(f, "waiting")
      BY <1>0, <2>7 DEF CreateNotified, PollNotified, Goto
    <3>2. CASE f = g
      <4>1. pc'[g] \in {"notified", "top", "waiting"}
        BY <1>3, <3>1, <3>2
      <4> QED
        BY <3>1, <3>2, <4>1 DEF Goes
    <3> QED
      BY <1>2, <3>1, <3>2
  <2> QED
    BY <1>5, <2>1, <2>2, <2>3, <2>4, <2>5, <2>6, <2>7 DEF PushStep
<1>6. ASSUME RecvStep PROVE Goes(g)
  <2>1. CASE NotifyAfterPop
    <3>1. pc[Consumer] # "waiting" /\ NotifyOne([pc EXCEPT ![Consumer] = "top"])
      BY <2>1 DEF NotifyAfterPop
    <3> QED
      BY <1>0, <1>4, <3>1
  <2>2. CASE ~NotifyAfterPop
    <3>1. \E step : Goto(Consumer, step)
      BY <1>6, <2>2 DEF RecvStep, BeginRecv, PopFront, FindEmpty, PollNotified, Goto
    <3> QED
      BY <1>0, <1>2, <3>1
  <2> QED
    BY <2>1, <2>2
<1>7. ASSUME WakeAll PROVE Goes(g)
  <2>1. pc'[g] = IF pc[g] = "waiting" THEN "top" ELSE pc[g]
    BY <1>0, <1>7 DEF WakeAll, NotifyWaiters
  <2> QED
    BY <2>1 DEF Goes
<1> QED
  BY <1>1, <1>5, <1>6, <1>7 DEF Next, StoreClosed, ResetDedup, vars

\* Only two kinds of steps touch the set of fingerprints.
LEMMA DedupFrame ==
  ASSUME [Next]_vars
  PROVE  (\E f \in Flows : RecordFingerprint(f)) \/ ResetDedup \/ UNCHANGED <<dedup, era, bornIn>>
BY DEF Next, BeginPush, PushStep, RetryPush, CheckClosed, ReportDuplicate, EnqueueFits, EnqueueEvicted, PushBack,
       EnqueueFull, EvictOldest, CreateNotified, PollNotified, RecvStep, BeginRecv, PopFront, FindEmpty,
       NotifyAfterPop, StoreClosed, WakeAll, vars, dedupVars

\* What is let in, in terms of the steps of a flow.
LEMMA LetInGoes ==
  ASSUME NEW g \in Flows, Goes(g), DedupEnabled
  PROVE  LetIn(g)' => LetIn(g) \/ RecordFingerprint(g)
BY DEF Goes, LetIn, PastDedup

\* No step lets two flows of one fingerprint in during one era.
LEMMA EraStep == ASSUME TypeOK, BufferInv, EraInv, [Next]_vars PROVE EraInv'
<1> SUFFICES ASSUME DedupEnabled
             PROVE  /\ \A g \in Flows : bornIn'[g] <= era'
                    /\ \A g \in Flows : LetIn(g)' /\ bornIn'[g] = era' => Fingerprint[g] \in dedup'
                    /\ OnePerFingerprintAndEra'
  BY DEF EraInv
<1>1. /\ \A g \in Flows : bornIn[g] <= era
      /\ \A g \in Flows : LetIn(g) /\ bornIn[g] = era => Fingerprint[g] \in dedup
      /\ \A f, g \in Flows : f # g /\ Fingerprint[f] = Fingerprint[g] /\ LetIn(f) /\ LetIn(g) => bornIn[f] # bornIn[g]
      /\ era \in Nat /\ bornIn \in [Flows -> Nat]
  BY DEF EraInv, TypeOK, OnePerFingerprintAndEra, LetIn
<1>2. \A g \in Flows : LetIn(g)' => LetIn(g) \/ RecordFingerprint(g)
  BY FlowGoes, LetInGoes
<1>3. SUFFICES /\ \A g \in Flows : bornIn'[g] <= era'
               /\ \A g \in Flows : LetIn(g)' /\ bornIn'[g] = era' => Fingerprint[g] \in dedup'
               /\ \A f, g \in Flows : f # g /\ Fingerprint[f] = Fingerprint[g] /\ LetIn(f)' /\ LetIn(g)'
                                      => bornIn'[f] # bornIn'[g]
  BY DEF OnePerFingerprintAndEra, LetIn
<1>4. ASSUME NEW f \in Flows, RecordFingerprint(f)
      PROVE  /\ \A g \in Flows : bornIn'[g] <= era'
             /\ \A g \in Flows : LetIn(g)' /\ bornIn'[g] = era' => Fingerprint[g] \in dedup'
             /\ \A e, g \in Flows : e # g /\ Fingerprint[e] = Fingerprint[g] /\ LetIn(e)' /\ LetIn(g)'
                                      => bornIn'[e] # bornIn'[g]
  <2>1. /\ Fingerprint[f] \notin dedup /\ bornIn' = [bornIn EXCEPT ![f] = era]
        /\ \/ dedup' = dedup \cup {Fingerprint[f]} /\ era' = era
           \/ era' = era + 1
    BY <1>4 DEF RecordFingerprint
  <2>2. \A g \in Flows : bornIn'[g] = IF g = f THEN era ELSE bornIn[g]
    BY <1>1, <2>1
  <2>3. \A g \in Flows : g # f /\ LetIn(g)' => LetIn(g)
    <3>1. \A g \in Flows : g # f => ~RecordFingerprint(g) \/ LetIn(g)' = LetIn(g)
      <4>1. \A g \in Flows : g # f => pc'[g] = pc[g]
        BY <1>4 DEF RecordFingerprint, Goto, TypeOK, Tasks
      <4> QED
        BY <4>1 DEF LetIn, PastDedup
    <3> QED
      BY <1>2, <3>1
  <2>4. \A g \in Flows : bornIn'[g] <= era'
    BY <1>1, <2>1, <2>2
  <2>5. ASSUME NEW g \in Flows, LetIn(g)', bornIn'[g] = era' PROVE Fingerprint[g] \in dedup'
    <3>1. era' = era /\ dedup' = dedup \cup {Fingerprint[f]}
      BY <1>1, <2>1, <2>2, <2>5
    <3> QED
      BY <1>1, <2>2, <2>3, <2>5, <3>1
  <2>6. ASSUME NEW g \in Flows, g # f, Fingerprint[f] = Fingerprint[g], LetIn(g)' PROVE bornIn'[g] # era
    BY <1>1, <2>1, <2>2, <2>3, <2>6
  <2>7. ASSUME NEW e \in Flows, NEW g \in Flows, e # g, Fingerprint[e] = Fingerprint[g], LetIn(e)', LetIn(g)'
        PROVE  bornIn'[e] # bornIn'[g]
    <3>1. CASE e = f
      BY <2>2, <2>6, <2>7, <3>1
    <3>2. CASE g = f
      BY <2>2, <2>6, <2>7, <3>2
    <3>3. CASE e # f /\ g # f
      BY <1>1, <2>2, <2>3, <2>7, <3>3
    <3> QED
      BY <3>1, <3>2, <3>3
  <2> QED
    BY <2>4, <2>5, <2>7
<1>5. ASSUME \A f \in Flows : ~RecordFingerprint(f), ResetDedup \/ UNCHANGED <<dedup, era, bornIn>>
      PROVE  /\ \A g \in Flows : bornIn'[g] <= era'
             /\ \A g \in Flows : LetIn(g)' /\ bornIn'[g] = era' => Fingerprint[g] \in dedup'
             /\ \A e, g \in Flows : e # g /\ Fingerprint[e] = Fingerprint[g] /\ LetIn(e)' /\ LetIn(g)'
                                      => bornIn'[e] # bornIn'[g]
  <2>1. bornIn' = bornIn /\ ((dedup' = dedup /\ era' = era) \/ era' = era + 1)
    BY <1>5 DEF ResetDedup
  <2>2. \A g \in Flows : LetIn(g)' => LetIn(g)
    BY <1>2, <1>5
  <2>3. \A g \in Flows : bornIn'[g] <= era'
    BY <1>1, <2>1
  <2>4. ASSUME NEW g \in Flows, LetIn(g)', bornIn'[g] = era' PROVE Fingerprint[g] \in dedup'
    BY <1>1, <2>1, <2>2, <2>4
  <2> QED
    BY <1>1, <2>1, <2>2, <2>3, <2>4
<1> QED
  BY <1>4, <1>5, DedupFrame

\* For every number of flows, all fingerprints, every limit and policy, and however pushes, resets and clears
\* interleave: between two clears of the set at most one flow of a fingerprint gets past it (buffer.rs:115-128).
THEOREM OnePerFingerprint == Spec => []OnePerFingerprintAndEra
<1>1. Init => EraInv
  <2> SUFFICES ASSUME Init PROVE EraInv
    OBVIOUS
  <2>1. \A f \in Flows : pc[f] = "idle" /\ bornIn[f] = 0
    BY BufferAssumption DEF Init, Tasks
  <2>2. era = 0
    BY DEF Init
  <2> QED
    BY <2>1, <2>2 DEF EraInv, OnePerFingerprintAndEra, LetIn, PastDedup
<1>2. TypeOK /\ BufferInv /\ EraInv /\ [Next]_vars => EraInv'
  BY EraStep
<1>3. EraInv => OnePerFingerprintAndEra
  BY DEF EraInv, OnePerFingerprintAndEra
<1> QED
  BY <1>1, <1>2, <1>3, TypeCorrect, BufferInvariant, PTL DEF Spec
===============================================================================
