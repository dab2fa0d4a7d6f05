---------------------------- MODULE InterceptProofs ----------------------------
(***************************************************************************)
(* Theorems about what is paused and captured: InterceptController, for    *)
(* every set of items, and ProxyExchange, for bodies and caps of every     *)
(* size and whatever the user changes meanwhile.                           *)
(***************************************************************************)
EXTENDS InterceptController, ProxyExchange, FiniteSetTheorems, WellFoundedInduction, TLAPS

\* Where the oneshot senders are, and of which items: the inductive invariant.
\* It leaves out the list, which no decision depends on.
SenderInv ==
  /\ pending \subseteq Items /\ draining \subseteq Items
  /\ task \in [Items -> TaskStates]
  /\ decision \in [Items -> Decisions \cup {"none"}]
  /\ pending \cap draining = {}
  /\ \A i \in Items : task[i] = "new" => decision[i] = "none"
  /\ NoOrphanWait

\* The steps of a proxy task move no sender but its own.
LEMMA TaskKeeps ==
  ASSUME SenderInv, NEW i \in Items, TaskStep(i) \/ Abandon(i)
  PROVE  SenderInv'
<1> USE DEF SenderInv, NoOrphanWait, TaskStates, Decisions
<1>1. CASE Register(i)
  <2>1. task' \in [Items -> TaskStates] /\ pending' \subseteq Items
    BY <1>1 DEF Register
  <2>2. i \notin draining /\ task[i] = "new"
    BY <1>1 DEF Register
  <2>3. \A j \in Items : task'[j] \in {"registered", "waiting"} /\ decision'[j] = "none"
                         => j \in pending' \cup draining'
    BY <1>1 DEF Register
  <2>4. decision[i] = "none"
    BY <2>2
  <2>5. QED BY <1>1, <2>1, <2>2, <2>3, <2>4 DEF Register
<1>2. CASE Enlist(i)
  BY <1>2 DEF Enlist
<1>3. CASE Resume(i)
  BY <1>3 DEF Resume
<1>4. CASE Abandon(i)
  BY <1>4 DEF Abandon
<1>5. QED BY <1>1, <1>2, <1>3, <1>4 DEF TaskStep

\* A sender is used by the call that took it out of the map, and by no other.
LEMMA DecisionKeeps ==
  ASSUME SenderInv, NEW i \in Items, NEW d \in Decisions,
         Decide(i, d) \/ ClearSend(i)
  PROVE  SenderInv'
<1> USE DEF SenderInv, NoOrphanWait, Decisions
<1>1. CASE Decide(i, d)
  BY <1>1 DEF Decide, SendDecision
<1>2. CASE ClearSend(i)
  <2>1. i \in draining /\ draining' = draining \ {i} /\ UNCHANGED <<pending, task, clearing>>
    BY <1>2 DEF ClearSend
  <2>2. decision' = IF task[i] \in {"registered", "waiting"}
                      THEN [decision EXCEPT ![i] = "drop"] ELSE decision
    BY <1>2 DEF ClearSend, SendDecision
  <2>3. QED BY <2>1, <2>2
<1>3. QED BY <1>1, <1>2

\* Unlisting moves no sender, and clear_all moves all of the map at once.
LEMMA ClearKeeps ==
  ASSUME SenderInv, Unlist \/ ClearDrain \/ ClearQueue
  PROVE  SenderInv'
<1> USE DEF SenderInv, NoOrphanWait
<1>1. CASE Unlist
  BY <1>1 DEF Unlist
<1>2. CASE ClearDrain
  <2>1. draining = {} /\ draining' = pending /\ pending' = {} /\ clearing'
    BY <1>2 DEF ClearDrain
  <2>2. UNCHANGED <<task, decision>>
    BY <1>2 DEF ClearDrain
  <2>3. QED BY <2>1, <2>2
<1>3. CASE ClearQueue
  <2>1. draining = {} /\ UNCHANGED <<pending, task, decision, draining>>
    BY <1>3 DEF ClearQueue
  <2>2. QED BY <2>1
<1>4. QED BY <1>1, <1>2, <1>3

\* Every step keeps the invariant.
LEMMA SenderInductive == SenderInv /\ [ICNext]_icVars => SenderInv'
<1> SUFFICES ASSUME SenderInv, [ICNext]_icVars
             PROVE  SenderInv'
  OBVIOUS
<1>1. CASE UNCHANGED icVars
  BY <1>1 DEF icVars, SenderInv, NoOrphanWait
<1>2. ASSUME NEW i \in Items, TaskStep(i) \/ Abandon(i)
      PROVE  SenderInv'
  BY <1>2, TaskKeeps
<1>3. ASSUME NEW i \in Items, NEW d \in Decisions, Decide(i, d) \/ ClearSend(i)
      PROVE  SenderInv'
  BY <1>3, DecisionKeeps
<1>4. CASE Unlist \/ ClearDrain \/ ClearQueue
  BY <1>4, ClearKeeps
<1>5. QED BY <1>1, <1>2, <1>3, <1>4 DEF ICNext, ClearStep, Decisions

\* The invariant holds in every reachable state.
LEMMA SenderInvariant == ICSpec => []SenderInv
<1>1. ICInit => SenderInv
  BY DEF ICInit, SenderInv, NoOrphanWait, TaskStates, Decisions
<1>2. QED BY <1>1, SenderInductive, PTL DEF ICSpec

\* Whatever forward, drop_item, clear_all, clients that hang up and new items do
\* at the same time, a paused task without a decision can still be given one.
THEOREM PausedCanBeReleased == ICSpec => []NoOrphanWait
BY SenderInvariant, PTL DEF SenderInv

\* A step of a proxy task is one of the gate's, or the list's own business.
LEMMA TaskImplements ==
  ASSUME SenderInv, NEW i \in Items, TaskStep(i) \/ Abandon(i)
  PROVE  Gate!Pause(i) \/ Gate!Leave(i) \/ Gate!Desert(i) \/ UNCHANGED Gate!gateVars
<1> DEFINE paused == {j \in Items : task[j] \in {"registered", "waiting"}}
<1> USE DEF SenderInv, NoOrphanWait, TaskStates
<1>1. CASE Register(i)
  <2>1. task[i] = "new" /\ task' = [task EXCEPT ![i] = "registered"]
        /\ pending' = pending \cup {i} /\ draining' = draining
    BY <1>1 DEF Register
  <2>2. i \notin (pending \cup draining) \cup paused
    BY <2>1
  <2>3. paused' = paused \cup {i}
    BY <2>1
  <2>4. (pending \cup draining)' = (pending \cup draining) \cup {i}
    BY <2>1
  <2>5. QED BY <2>2, <2>3, <2>4 DEF Gate!Pause
<1>2. CASE Enlist(i)
  <2>1. paused' = paused /\ UNCHANGED <<pending, draining>>
    BY <1>2 DEF Enlist
  <2>2. QED BY <2>1 DEF Gate!gateVars
<1>3. CASE Resume(i)
  <2>1. task[i] = "waiting" /\ decision[i] # "none" /\ UNCHANGED <<pending, draining>>
        /\ task' = [task EXCEPT ![i] = "resumed"]
    BY <1>3 DEF Resume
  <2>2. i \in paused \ (pending \cup draining) /\ paused' = paused \ {i}
    BY <2>1
  <2>3. QED BY <2>1, <2>2 DEF Gate!Leave
<1>4. CASE Abandon(i)
  <2>1. task[i] = "waiting" /\ UNCHANGED <<pending, draining>>
        /\ task' = [task EXCEPT ![i] = "gone"]
    BY <1>4 DEF Abandon
  <2>2. i \in paused /\ paused' = paused \ {i}
    BY <2>1
  <2>3. QED BY <2>1, <2>2 DEF Gate!Desert
<1>5. QED BY <1>1, <1>2, <1>3, <1>4 DEF TaskStep

\* Using a sender settles its item; the rest of forward, drop_item and clear_all
\* is invisible at the gate.
LEMMA DecisionImplements ==
  ASSUME SenderInv
  PROVE  /\ \A i \in Items, d \in Decisions : Decide(i, d) \/ ClearSend(i) => Gate!Settle({i})
         /\ Unlist \/ ClearDrain \/ ClearQueue => UNCHANGED Gate!gateVars
<1> USE DEF SenderInv
<1>1. ASSUME NEW i \in Items, NEW d \in Decisions, Decide(i, d) \/ ClearSend(i)
      PROVE  Gate!Settle({i})
  <2>1. UNCHANGED task /\ (pending \cup draining)' = (pending \cup draining) \ {i}
        /\ i \in pending \cup draining
    BY <1>1 DEF Decide, ClearSend
  <2>2. QED BY <2>1 DEF Gate!Settle
<1>2. ASSUME Unlist \/ ClearDrain \/ ClearQueue
      PROVE  UNCHANGED Gate!gateVars
  <2>1. UNCHANGED task /\ (pending \cup draining)' = pending \cup draining
    BY <1>2 DEF Unlist, ClearDrain, ClearQueue, NoOrphanWait
  <2>2. QED BY <2>1 DEF Gate!gateVars
<1>3. QED BY <1>1, <1>2

\* The controller, with its locks, its list and its oneshots, implements the gate
\* the proxy server is modelled on.
THEOREM GateImplemented == ICSpec => Gate!GateSpec
<1>1. ICInit => Gate!GateInit
  BY DEF ICInit, Gate!GateInit
<1>2. SenderInv /\ [ICNext]_icVars => [Gate!GateNext]_(Gate!gateVars)
  <2> SUFFICES ASSUME SenderInv, [ICNext]_icVars
               PROVE  [Gate!GateNext]_(Gate!gateVars)
    OBVIOUS
  <2>1. ASSUME NEW i \in Items, TaskStep(i) \/ Abandon(i)
        PROVE  [Gate!GateNext]_(Gate!gateVars)
    BY <2>1, TaskImplements DEF Gate!GateNext
  <2>2. ASSUME NEW i \in Items, NEW d \in Decisions, Decide(i, d) \/ ClearSend(i)
        PROVE  [Gate!GateNext]_(Gate!gateVars)
    BY <2>2, DecisionImplements DEF Gate!GateNext
  <2>3. CASE Unlist \/ ClearDrain \/ ClearQueue
    BY <2>3, DecisionImplements
  <2>4. CASE UNCHANGED icVars
    BY <2>4 DEF icVars, Gate!gateVars
  <2>5. QED BY <2>1, <2>2, <2>3, <2>4 DEF ICNext, ClearStep, Decisions
<1>3. QED BY <1>1, <1>2, SenderInvariant, PTL DEF ICSpec, Gate!GateSpec

\* Every nonempty set of numbers has a least one.
LEMMA LeastElement == ASSUME NEW T, T \subseteq Nat, T # {} PROVE \E x \in T : \A y \in T : x <= y
<1>1. IsWellFoundedOn(OpToRel(<, Nat), Nat)
  BY NatLessThanWellFounded
<1>2. PICK x \in T : \A y \in T : ~(<<y, x>> \in OpToRel(<, Nat))
  BY <1>1, WFMin
<1>3. \A y \in T : ~ (y < x)
  BY <1>2 DEF OpToRel
<1> QED
  BY <1>3

\* So a set that has 0, and with each number below n the next, has all of them up to n.
LEMMA CountingUp ==
  ASSUME NEW n \in Nat, NEW T, 0 \in T, \A i \in 0..n : i < n /\ i \in T => i + 1 \in T
  PROVE  \A i \in 0..n : i \in T
<1> SUFFICES ASSUME NEW i \in 0..n, i \notin T PROVE FALSE
  OBVIOUS
<1> DEFINE rest == {k \in 0..n : k \notin T}
<1>1. rest \subseteq Nat /\ rest # {}
  OBVIOUS
<1>2. PICK x \in rest : \A y \in rest : x <= y
  BY <1>1, LeastElement
<1>3. x # 0 /\ x - 1 \in 0..n /\ x - 1 < n /\ ~ (x <= x - 1)
  BY <1>2
<1>4. x - 1 \in T /\ (x - 1) + 1 = x
  BY <1>2, <1>3
<1> QED
  BY <1>2, <1>3, <1>4

\* What retain has kept of the first k entries, as Without computes it.
Kept(kept, entries, i) ==
  kept = [k \in 0..Len(entries) |->
            IF k = 0 THEN <<>>
            ELSE IF entries[k] = i THEN kept[k - 1] ELSE Append(kept[k - 1], entries[k])]

\* There is such a thing.
LEMMA KeptExists == ASSUME NEW entries \in Seq(Items), NEW i PROVE \E kept : Kept(kept, entries, i)
<1> DEFINE Extended(k, s) == IF entries[k] = i THEN s ELSE Append(s, entries[k])
           Upto(n, g) == g = [k \in 0..n |-> IF k = 0 THEN <<>> ELSE Extended(k, g[k - 1])]
           T == {n \in 0..Len(entries) : \E g : Upto(n, g)}
<1> HIDE DEF Extended
<1>1. 0 \in T
  <2>1. \E g : Upto(0, g)
    <3>1. Upto(0, [k \in 0..0 |-> <<>>])
      OBVIOUS
    <3> QED
      BY <3>1
  <2> HIDE DEF Upto
  <2> QED
    BY <2>1
<1>2. ASSUME NEW n \in 0..Len(entries), n < Len(entries), n \in T PROVE n + 1 \in T
  <2>1. PICK g : Upto(n, g)
    BY <1>2
  <2> DEFINE h == [k \in 0..(n + 1) |-> IF k = n + 1 THEN Extended(n + 1, g[n]) ELSE g[k]]
  <2>2. \A k \in 0..n : g[k] = IF k = 0 THEN <<>> ELSE Extended(k, g[k - 1])
    BY <2>1
  <2>3. \A k \in 0..(n + 1) : h[k] = IF k = 0 THEN <<>> ELSE Extended(k, h[k - 1])
    <3> TAKE k \in 0..(n + 1)
    <3>1. CASE k = n + 1
      BY <3>1
    <3>2. CASE k # n + 1
      <4>1. k \in 0..n /\ (k # 0 => k - 1 \in 0..n /\ k - 1 # n + 1)
        BY <3>2
      <4> QED
        BY <2>2, <3>2, <4>1
    <3> QED
      BY <3>1, <3>2
  <2>4. Upto(n + 1, h)
    <3> HIDE DEF h
    <3>1. h = [k \in 0..(n + 1) |-> h[k]]
      BY DEF h
    <3> QED
      BY <2>3, <3>1
  <2>5. \E e : Upto(n + 1, e)
    BY <2>4
  <2> HIDE DEF Upto
  <2> QED
    BY <1>2, <2>5
<1>3. Len(entries) \in T
  <2> HIDE DEF T
  <2>1. Len(entries) \in Nat
    OBVIOUS
  <2>2. \A k \in 0..Len(entries) : k \in T
    BY <1>1, <1>2, <2>1, CountingUp
  <2> QED
    BY <2>1, <2>2
<1>4. \E g : Upto(Len(entries), g)
  <2> HIDE DEF Upto
  <2> QED
    BY <1>3
<1> QED
  BY <1>4 DEF Kept, Extended

\* retain keeps entries of the list only, and none of the item.
LEMMA WithoutKeeps ==
  ASSUME NEW entries \in Seq(Items), NEW i
  PROVE  /\ Without(entries, i) \in Seq(Items)
         /\ \A m \in 1..Len(Without(entries, i)) :
              Without(entries, i)[m] # i /\ \E n \in 1..Len(entries) : entries[n] = Without(entries, i)[m]
<1> DEFINE kept == CHOOSE g : Kept(g, entries, i)
           Good(s) == /\ s \in Seq(Items)
                      /\ \A m \in 1..Len(s) : s[m] # i /\ \E n \in 1..Len(entries) : entries[n] = s[m]
           T == {k \in 0..Len(entries) : Good(kept[k])}
<1>1. Kept(kept, entries, i) /\ Without(entries, i) = kept[Len(entries)]
  <2>1. Kept(kept, entries, i)
    BY KeptExists
  <2>2. Without(entries, i) = (CHOOSE g : Kept(g, entries, i))[Len(entries)]
    BY DEF Without, Kept
  <2> QED
    BY <2>1, <2>2
<1> HIDE DEF kept
<1>2. kept[0] = <<>> /\ \A k \in 1..Len(entries) :
        kept[k] = IF entries[k] = i THEN kept[k - 1] ELSE Append(kept[k - 1], entries[k])
  <2>1. Len(entries) \in Nat
    OBVIOUS
  <2>2. \A k \in 0..Len(entries) :
          kept[k] = IF k = 0 THEN <<>> ELSE IF entries[k] = i THEN kept[k - 1] ELSE Append(kept[k - 1], entries[k])
    BY <1>1, Zenon DEF Kept
  <2> QED
    BY <2>1, <2>2
<1>3. 0 \in T
  <2>1. Good(<<>>) /\ 0 \in 0..Len(entries)
    OBVIOUS
  <2> HIDE DEF Good
  <2> QED
    BY <1>2, <2>1
<1>4. ASSUME NEW k \in 0..Len(entries), k < Len(entries), k \in T PROVE k + 1 \in T
  <2>1. k + 1 \in 1..Len(entries) /\ (k + 1) - 1 = k
    BY <1>4
  <2>2. kept[k + 1] = IF entries[k + 1] = i THEN kept[k] ELSE Append(kept[k], entries[k + 1])
    BY <1>2, <2>1
  <2>3. Good(kept[k]) /\ entries[k + 1] \in Items
    BY <1>4, <2>1
  <2>4. ASSUME entries[k + 1] # i PROVE Good(kept[k + 1])
    <3>1. kept[k + 1] = Append(kept[k], entries[k + 1])
      BY <2>2, <2>4
    <3>2. \A m \in 1..Len(kept[k + 1]) : (m \in 1..Len(kept[k]) /\ kept[k + 1][m] = kept[k][m]) \/ kept[k + 1][m] = entries[k + 1]
      BY <2>3, <3>1
    <3>3. kept[k + 1] \in Seq(Items)
      BY <2>3, <3>1
    <3>4. \A m \in 1..Len(kept[k + 1]) : kept[k + 1][m] # i /\ \E n \in 1..Len(entries) : entries[n] = kept[k + 1][m]
      BY <2>1, <2>3, <2>4, <3>2
    <3> QED
      BY <3>3, <3>4
  <2>5. Good(kept[k + 1])
    <3> HIDE DEF Good
    <3> QED
      BY <2>2, <2>3, <2>4
  <2> HIDE DEF Good
  <2> QED
    BY <2>1, <2>5
<1>5. Good(kept[Len(entries)])
  <2>1. Len(entries) \in Nat
    OBVIOUS
  <2>2. \A k \in 0..Len(entries) : k \in T
    <3> HIDE DEF T
    <3> QED
      BY <1>3, <1>4, <2>1, CountingUp
  <2> QED
    BY <2>1, <2>2
<1> QED
  BY <1>1, <1>5

\* What is listed: only items that were enlisted, and none that was forwarded once forward is through.
ListInv ==
  /\ queue \in Seq(Items) /\ deciding \in Items \cup {NoItem} /\ clearing \in BOOLEAN /\ clears \in Nat
  /\ \A i \in Items : task[i] \in {"new", "registered"} => ~Listed(i) /\ decision[i] # "forward"
  /\ ForwardedUnlisted

\* Every step keeps the list so.
LEMMA ListStep == SenderInv /\ ListInv /\ [ICNext]_icVars => ListInv'
<1> SUFFICES ASSUME SenderInv, ListInv, [ICNext]_icVars PROVE ListInv'
  OBVIOUS
<1>1. /\ task \in [Items -> TaskStates] /\ decision \in [Items -> Decisions \cup {"none"}]
      /\ draining \subseteq Items /\ NoItem \notin Items
      /\ \A i \in Items : task[i] = "new" => decision[i] = "none"
  BY InterceptAssumption DEF SenderInv
<1>2. /\ queue \in Seq(Items) /\ deciding \in Items \cup {NoItem} /\ clearing \in BOOLEAN /\ clears \in Nat
      /\ \A i \in Items : task[i] \in {"new", "registered"} => ~Listed(i) /\ decision[i] # "forward"
      /\ \A i \in Items : decision[i] = "forward" /\ deciding # i => ~Listed(i)
  BY DEF ListInv, ForwardedUnlisted
<1>4. ASSUME NEW i \in Items, Register(i) \/ Resume(i) \/ Abandon(i) PROVE ListInv'
  <2>1. /\ UNCHANGED <<queue, decision, deciding, clearing, clears>>
        /\ \A j \in Items : task'[j] \in {"new", "registered"} => task[j] \in {"new", "registered"}
    BY <1>1, <1>4 DEF Register, Resume, Abandon
  <2> QED
    BY <1>2, <2>1 DEF ListInv, ForwardedUnlisted, Listed
<1>5. ASSUME NEW i \in Items, Enlist(i) PROVE ListInv'
  <2>1. /\ task[i] = "registered" /\ queue' = Append(queue, i) /\ task' = [task EXCEPT ![i] = "waiting"]
        /\ UNCHANGED <<decision, deciding, clearing, clears>>
    BY <1>5 DEF Enlist
  <2>2. \A j \in Items : Listed(j)' => Listed(j) \/ j = i
    <3>1. \A k \in 1..Len(queue') : (k \in 1..Len(queue) /\ queue'[k] = queue[k]) \/ queue'[k] = i
      BY <1>2, <2>1
    <3> QED
      BY <3>1 DEF Listed
  <2>3. queue' \in Seq(Items)
    BY <1>2, <2>1
  <2>4. \A j \in Items : task'[j] \in {"new", "registered"} => j # i /\ task[j] \in {"new", "registered"}
    BY <1>1, <2>1
  <2>5. \A j \in Items : task'[j] \in {"new", "registered"} => ~Listed(j)' /\ decision'[j] # "forward"
    BY <1>2, <2>1, <2>2, <2>4
  <2>6. \A j \in Items : decision'[j] = "forward" /\ deciding' # j => ~Listed(j)'
    BY <1>2, <2>1, <2>2
  <2> QED
    BY <1>2, <2>1, <2>3, <2>5, <2>6 DEF ListInv, ForwardedUnlisted
<1>6. ASSUME NEW i \in Items, NEW d \in Decisions, Decide(i, d) \/ ClearSend(i) PROVE ListInv'
  <2>1. UNCHANGED <<queue, task, clearing, clears>>
    BY <1>6 DEF Decide, ClearSend
  <2>2. /\ deciding' \in Items \cup {NoItem}
        /\ \A j \in Items : j # i => decision'[j] = decision[j]
        /\ \/ deciding = NoItem /\ deciding' = i /\ task[i] \notin {"new", "registered"}
           \/ deciding' = deciding /\ (decision'[i] = decision[i] \/ decision'[i] = "drop")
    BY <1>1, <1>2, <1>6 DEF Decide, ClearSend, SendDecision, PendingUnlocked
  <2> QED
    BY <1>1, <1>2, <2>1, <2>2 DEF ListInv, ForwardedUnlisted, Listed
<1>7. ASSUME Unlist PROVE ListInv'
  <2>1. /\ deciding # NoItem /\ queue' = Without(queue, deciding) /\ deciding' = NoItem
        /\ UNCHANGED <<task, decision, clearing, clears>>
    BY <1>7 DEF Unlist
  <2>2. queue' \in Seq(Items) /\ \A j \in Items : Listed(j)' => Listed(j) /\ j # deciding
    BY <1>2, <2>1, WithoutKeeps DEF Listed
  <2> QED
    BY <1>2, <2>1, <2>2 DEF ListInv, ForwardedUnlisted
<1>8. ASSUME ClearDrain PROVE ListInv'
  <2>1. UNCHANGED <<queue, task, decision, deciding>> /\ clearing' \in BOOLEAN /\ clears' \in Nat
    BY <1>2, <1>8 DEF ClearDrain
  <2> QED
    BY <1>2, <2>1 DEF ListInv, ForwardedUnlisted, Listed
<1>9. ASSUME ClearQueue PROVE ListInv'
  <2>1. queue' = <<>> /\ clearing' = FALSE /\ UNCHANGED <<task, decision, deciding, clears>>
    BY <1>9 DEF ClearQueue
  <2>2. \A j \in Items : ~Listed(j)'
    BY <2>1 DEF Listed
  <2>3. \A j \in Items : task'[j] \in {"new", "registered"} => decision'[j] # "forward"
    BY <1>2, <2>1
  <2>4. queue' \in Seq(Items)
    BY <2>1
  <2>5. clearing' \in BOOLEAN
    BY <2>1
  <2>6. deciding' \in Items \cup {NoItem} /\ clears' \in Nat
    BY <1>2, <2>1
  <2> QED
    BY <2>2, <2>3, <2>4, <2>5, <2>6 DEF ListInv, ForwardedUnlisted
<1>10. ASSUME UNCHANGED icVars PROVE ListInv'
  <2>1. UNCHANGED <<queue, task, decision, deciding, clearing, clears>>
    BY <1>10 DEF icVars
  <2> QED
    BY <1>2, <2>1 DEF ListInv, ForwardedUnlisted, Listed
<1>11. CASE ICNext
  <2>1. "forward" \in Decisions
    BY DEF Decisions
  <2>2. ASSUME NEW i \in Items, ClearSend(i) PROVE ListInv'
    BY <1>6, <2>1, <2>2
  <2>3. ASSUME NEW i \in Items, TaskStep(i) PROVE ListInv'
    BY <1>4, <1>5, <2>3 DEF TaskStep
  <2>4. ASSUME NEW i \in Items, NEW d \in Decisions, Decide(i, d) PROVE ListInv'
    BY <1>6, <2>4
  <2>5. ASSUME NEW i \in Items, Abandon(i) PROVE ListInv'
    BY <1>4, <2>5
  <2>6. CASE \E i \in Items : TaskStep(i) \/ Abandon(i) \/ \E d \in Decisions : Decide(i, d)
    BY <2>3, <2>4, <2>5, <2>6
  <2>7. CASE ClearStep
    BY <1>9, <2>2, <2>7 DEF ClearStep
  <2> QED
    BY <1>7, <1>8, <1>11, <2>6, <2>7 DEF ICNext
<1> QED
  BY <1>10, <1>11

\* The list holds in every reachable state.
LEMMA ListInvariant == ICSpec => []ListInv
<1>1. ICInit => ListInv
  <2> SUFFICES ASSUME ICInit PROVE ListInv
    OBVIOUS
  <2>1. queue = <<>> /\ deciding = NoItem /\ clearing = FALSE /\ clears = 0 /\ \A i \in Items : decision[i] = "none"
    BY DEF ICInit
  <2>2. queue \in Seq(Items)
    BY <2>1
  <2>3. clearing \in BOOLEAN
    BY <2>1
  <2>4. \A i \in Items : ~Listed(i)
    BY <2>1 DEF Listed
  <2> QED
    BY <2>1, <2>2, <2>3, <2>4 DEF ListInv, ForwardedUnlisted
<1> QED
  BY <1>1, ListStep, SenderInvariant, PTL DEF ICSpec

\* The types, with one owner for every sender (intercept.rs).
THEOREM ControllerTyped == ICSpec => []TypeOK
<1>1. SenderInv /\ ListInv => TypeOK
  BY DEF SenderInv, ListInv, TypeOK
<1> QED
  BY <1>1, SenderInvariant, ListInvariant, PTL

\* For every number of items, and however users, tasks and clear_all interleave: an item that was forwarded is
\* off the list when forward returns and never comes back to it, though map and list have a lock each
\* (intercept.rs:179-191).
THEOREM ForwardedIsUnlisted == ICSpec => []ForwardedUnlisted
BY ListInvariant, PTL DEF ListInv
-------------------------------------------------------------------------------
(* clear_all comes to its end                                                *)

\* Senders are put into the map one by one, so there are finitely many of them.
FewSenders == IsFiniteSet(pending) /\ IsFiniteSet(draining)

\* The steps that a clear_all under way has before it, and those of a task that is not decided before its end.
ClearLeft   == IF clearing THEN 1 + Cardinality(draining) ELSE 0
TaskLeft(i) == CASE task[i] = "new" -> 3 [] task[i] = "registered" -> 2 [] task[i] = "waiting" -> 1 [] OTHER -> 0

\* Each step of clear_all takes it on, however many items come, go or are decided meanwhile, and what it has taken
\* out of the map it uses; a task goes on too.
ClearDescends ==
  /\ ClearStep => ClearLeft' < ClearLeft
  /\ ClearLeft' > ClearLeft => ClearDrain
  /\ \A i \in Items : /\ TaskStep(i) \/ Abandon(i) => TaskLeft(i)' < TaskLeft(i)
                      /\ TaskLeft(i)' <= TaskLeft(i)
                      /\ i \in draining /\ i \notin draining' => task[i] \in {"resumed", "gone"} \/ decision'[i] # "none"

\* There are never more than were put there.
LEMMA FewStay == SenderInv /\ FewSenders /\ [ICNext]_icVars => FewSenders'
<1> SUFFICES ASSUME SenderInv, FewSenders, [ICNext]_icVars PROVE FewSenders'
  OBVIOUS
<1> USE DEF FewSenders
<1>1. ASSUME NEW i \in Items, Register(i) PROVE FewSenders'
  BY <1>1, FS_AddElement DEF Register
<1>2. ASSUME NEW i \in Items, Enlist(i) \/ Resume(i) \/ Abandon(i) PROVE FewSenders'
  BY <1>2 DEF Enlist, Resume, Abandon
<1>3. ASSUME NEW i \in Items, NEW d, Decide(i, d) PROVE FewSenders'
  BY <1>3, FS_RemoveElement DEF Decide
<1>4. CASE ClearDrain
  BY <1>4, FS_EmptySet DEF ClearDrain
<1>5. ASSUME NEW i \in Items, ClearSend(i) PROVE FewSenders'
  BY <1>5, FS_RemoveElement DEF ClearSend
<1>6. CASE Unlist \/ ClearQueue \/ UNCHANGED icVars
  BY <1>6 DEF Unlist, ClearQueue, icVars
<1> QED
  BY <1>1, <1>2, <1>3, <1>4, <1>5, <1>6 DEF ICNext, TaskStep, ClearStep

\* clear_all ends and releases what it found (ClearReleases): it has a step for each sender it took out of the map
\* and one for the list, items that arrive meanwhile give it none, and a sender leaves its hands with a decision.
THEOREM ClearsRunOut ==
  ICSpec => [](ClearLeft \in Nat /\ \A i \in Items : TaskLeft(i) \in 0..3) /\ [][ClearDescends]_icVars
<1>1. ICInit => FewSenders
  BY FS_EmptySet DEF ICInit, FewSenders
<1>2. FewSenders => ClearLeft \in Nat /\ \A i \in Items : TaskLeft(i) \in 0..3
  BY FS_CardinalityType DEF FewSenders, ClearLeft, TaskLeft
<1>3. SenderInv /\ FewSenders /\ [ICNext]_icVars => [ClearDescends]_icVars
  <2> SUFFICES ASSUME SenderInv, FewSenders, ICNext PROVE ClearDescends
    OBVIOUS
  <2>1. /\ task \in [Items -> TaskStates] /\ decision \in [Items -> Decisions \cup {"none"}] /\ draining \subseteq Items
        /\ (draining # {} => clearing) /\ IsFiniteSet(draining) /\ Cardinality(draining) \in Nat
    BY FS_CardinalityType DEF SenderInv, FewSenders, NoOrphanWait
  <2>2. ClearLeft = IF clearing THEN 1 + Cardinality(draining) ELSE 0
    BY DEF ClearLeft
  <2> DEFINE Falls(i) == /\ TaskLeft(i)' <= TaskLeft(i)
                         /\ i \in draining /\ i \notin draining' => task[i] \in {"resumed", "gone"} \/ decision'[i] # "none"
  <2>3. ASSUME NEW i \in Items, TaskStep(i) \/ Abandon(i)
        PROVE  /\ TaskLeft(i)' < TaskLeft(i) /\ (\A j \in Items : Falls(j)) /\ ClearLeft' = ClearLeft
               /\ UNCHANGED <<draining, clearing>>
    <3>1. UNCHANGED <<draining, clearing>>
      BY <2>3 DEF TaskStep, Register, Enlist, Resume, Abandon
    <3>2. \E a : /\ task' = [task EXCEPT ![i] = a]
                 /\ \/ task[i] = "new" /\ a = "registered"
                    \/ task[i] = "registered" /\ a = "waiting"
                    \/ task[i] = "waiting" /\ a \in {"resumed", "gone"}
      BY <2>3 DEF TaskStep, Register, Enlist, Resume, Abandon
    <3>3. \A j \in Items \ {i} : task'[j] = task[j]
      BY <2>1, <3>2
    <3>4. TaskLeft(i)' < TaskLeft(i)
      BY <2>1, <3>2 DEF TaskLeft
    <3>5. \A j \in Items : TaskLeft(j)' <= TaskLeft(j)
      BY <3>3, <3>4 DEF TaskLeft
    <3> QED
      BY <3>1, <3>4, <3>5 DEF ClearLeft
  <2>9. ASSUME NEW i \in Items, TaskStep(i) \/ Abandon(i) PROVE TaskLeft(i)' < TaskLeft(i)
    BY <2>3, <2>9
  <2>4. ASSUME NEW i \in Items, ClearSend(i)
        PROVE  (\A j \in Items : Falls(j)) /\ ClearLeft' < ClearLeft /\ ~(ClearLeft' > ClearLeft)
    <3>1. i \in draining /\ draining' = draining \ {i} /\ UNCHANGED <<task, clearing>>
      BY <2>4 DEF ClearSend
    <3>2. Cardinality(draining') = Cardinality(draining) - 1
      BY <2>1, <3>1, FS_RemoveElement
    <3>3. ClearLeft' < ClearLeft /\ ~(ClearLeft' > ClearLeft)
      BY <2>1, <3>1, <3>2 DEF ClearLeft
    <3>4. task[i] \in {"registered", "waiting"} => decision'[i] = "drop"
      BY <2>1, <2>4 DEF ClearSend, SendDecision
    <3>5. task[i] # "new"
      BY <3>1 DEF SenderInv, NoOrphanWait
    <3>6. task[i] \in {"resumed", "gone"} \/ decision'[i] # "none"
      BY <2>1, <3>4, <3>5 DEF TaskStates
    <3>7. \A j \in Items : TaskLeft(j)' <= TaskLeft(j)
      BY <3>1 DEF TaskLeft
    <3> QED
      BY <3>1, <3>3, <3>6, <3>7
  <2>5. CASE ClearQueue
    <3>1. clearing /\ draining = {} /\ clearing' = FALSE /\ UNCHANGED <<task, draining>>
      BY <2>5 DEF ClearQueue
    <3>2. ClearLeft' < ClearLeft
      BY <2>1, <3>1 DEF ClearLeft
    <3>3. \A j \in Items : Falls(j)
      BY <3>1 DEF TaskLeft
    <3>4. ~(ClearLeft' > ClearLeft)
      BY <2>1, <3>1 DEF ClearLeft
    <3> QED
      BY <2>9, <3>2, <3>3, <3>4 DEF ClearDescends
  <2>6. CASE ClearDrain
    <3>1. ~clearing /\ draining = {} /\ UNCHANGED task
      BY <2>1, <2>6 DEF ClearDrain
    <3>2. ~ClearStep
      BY <3>1 DEF ClearStep, ClearSend, ClearQueue
    <3>3. \A j \in Items : Falls(j)
      BY <3>1 DEF TaskLeft
    <3> QED
      BY <2>9, <2>6, <3>2, <3>3 DEF ClearDescends
  <2>7. ASSUME Unlist \/ \E i \in Items : \E d \in Decisions : Decide(i, d)
        PROVE  (\A j \in Items : Falls(j)) /\ ClearLeft' = ClearLeft /\ UNCHANGED <<task, draining, clearing>>
    BY <2>7 DEF Unlist, Decide, ClearLeft, TaskLeft
  <2>8. CASE \E i \in Items : TaskStep(i) \/ Abandon(i)
    <3>1. (\A j \in Items : Falls(j)) /\ ClearLeft' = ClearLeft /\ UNCHANGED <<draining, clearing>>
      BY <2>3, <2>8
    <3>2. ClearLeft \in Nat
      BY <2>1 DEF ClearLeft
    <3>3. ~ClearStep
      BY <3>1, <3>2, <2>4, <2>8 DEF ClearStep, ClearQueue, TaskStep, Register, Enlist, Resume, Abandon
    <3> QED
      BY <2>9, <3>1, <3>2, <3>3 DEF ClearDescends
  <2>10. CASE \E i \in Items : ClearSend(i)
    <3>1. (\A j \in Items : Falls(j)) /\ ClearLeft' < ClearLeft /\ ~(ClearLeft' > ClearLeft)
      BY <2>4, <2>10
    <3> QED
      BY <2>9, <3>1 DEF ClearDescends
  <2>11. CASE Unlist \/ \E i \in Items : \E d \in Decisions : Decide(i, d)
    <3>1. (\A j \in Items : Falls(j)) /\ ClearLeft' = ClearLeft /\ UNCHANGED <<draining, clearing>>
      BY <2>7, <2>11
    <3>2. ClearLeft \in Nat
      BY <2>1 DEF ClearLeft
    <3>3. ~ClearStep
      BY <3>1, <3>2, <2>4 DEF ClearStep, ClearQueue
    <3> QED
      BY <2>9, <3>1, <3>2, <3>3 DEF ClearDescends
  <2> QED
    BY <2>5, <2>6, <2>8, <2>10, <2>11 DEF ICNext, ClearStep
<1> QED
  BY <1>1, <1>2, <1>3, FewStay, SenderInvariant, PTL DEF ICSpec

-------------------------------------------------------------------------------
(* ProxyExchange                                                             *)

Early == {"start", "request", "held", "send", "upstream", "collect", "held_response"}
Late  == {"reply", "ended", "relayed", "cut"}

Uncaptured  == spawned = <<>> /\ flows = <<>>
Captured(n) == \/ spawned = <<n>> /\ flows = <<>>
               \/ spawned = <<>> /\ \E s \in Sessions : flows = <<[len |-> n, session |-> s]>>

\* What a flow of this exchange must carry.
Whole == Least(MaxCapture, IF verdict.response = "none" THEN body.total ELSE out)

Types ==
  /\ step \in Early \cup Late \cup {"relay"}
  /\ inScope \in BOOLEAN /\ capture \in BOOLEAN /\ done \in BOOLEAN
  /\ active \in Sessions \cup {NoSession} /\ lapsed \in BOOLEAN /\ (active = NoSession => lapsed)
  /\ verdict \in [request : {"none", "forward", "drop"},
                  response : {"none", "forward", "edit", "drop"}]
  /\ body \in [total : Nat, sized : BOOLEAN, left : Nat]
  /\ out \in Nat /\ got \in Nat /\ copy \in Nat

\* Before its response is relayed or decided an exchange has left nothing.
EarlyInv ==
  /\ step \in Early => Uncaptured /\ ~done /\ copy = 0 /\ got = 0 /\ verdict.response = "none"
  /\ step \in {"start", "request", "held", "send"} => ~contacted
  /\ step \notin {"held_response", "cut"} /\ verdict.response \in {"none", "drop"} => out = 0

\* While a response is relayed the copy keeps up with it, until it is finalized.
RelayInv ==
  step = "relay" =>
    /\ verdict.response = "none"
    /\ got + body.left = body.total
    /\ ~done => Uncaptured /\ copy = got /\ copy <= MaxCapture
    /\ done /\ capture /\ ~lapsed => ~Uncaptured
    /\ body.sized /\ body.left = 0 /\ body.total > 0 => done

\* What was relayed to its end, or sent after a decision, has been captured, unless a moment without a session
\* let its capture task discard it.
EndInv ==
  /\ step = "reply" => got = 0
  /\ step \in {"reply", "ended"} /\ capture /\ ~lapsed /\ verdict.response \in {"forward", "edit"}
       => ~Uncaptured
  /\ step = "relayed" /\ capture /\ ~lapsed /\ (body.total > 0 \/ ~body.sized) => ~Uncaptured

DropInv ==
  /\ verdict.request = "drop" => ~contacted /\ step \in Late /\ verdict.response = "none"
  /\ "drop" \in {verdict.request, verdict.response} => Uncaptured /\ got = 0 /\ step \in Late

\* The inductive invariant.
ExInv == /\ Types /\ EarlyInv /\ RelayInv /\ EndInv /\ DropInv
         /\ Uncaptured \/ Captured(Whole)

\* A flow is in one pair of hands.
LEMMA WhereCopiesAre ==
  ASSUME NEW n \in Nat
  PROVE  /\ Uncaptured => Copies = {} /\ CaptureCount = 0
         /\ Captured(n) => Copies = {n} /\ CaptureCount = 1 /\ ~Uncaptured
<1>1. ASSUME Uncaptured PROVE Copies = {} /\ CaptureCount = 0
  BY <1>1 DEF Uncaptured, Copies, CaptureCount
<1>2. ASSUME spawned = <<n>>, flows = <<>>
      PROVE  Copies = {n} /\ CaptureCount = 1 /\ ~Uncaptured
  BY <1>2 DEF Uncaptured, Copies, CaptureCount
<1>3. ASSUME spawned = <<>>, NEW s, flows = <<[len |-> n, session |-> s]>>
      PROVE  Copies = {n} /\ CaptureCount = 1 /\ ~Uncaptured
  BY <1>3 DEF Uncaptured, Copies, CaptureCount
<1>4. QED BY <1>1, <1>2, <1>3 DEF Captured

\* A capture task takes its copy from one hand to the other, or discards it where there is no session.
LEMMA TaskKeepsCopy ==
  ASSUME NEW n \in Nat, Captured(n), CaptureTask, active \in Sessions \cup {NoSession}
  PROVE  /\ active # NoSession => Captured(n)' /\ ~Uncaptured'
         /\ active = NoSession => Uncaptured'
<1>1. spawned = <<n>> /\ flows = <<>>
  BY DEF Captured, CaptureTask
<1>2. spawned' = <<>> /\ flows' = IF active = NoSession THEN <<>> ELSE <<[len |-> n, session |-> active]>>
  BY <1>1 DEF CaptureTask
<1>3. CASE active # NoSession
  <2>1. flows' = <<[len |-> n, session |-> active]>> /\ active \in Sessions
    BY <1>2, <1>3
  <2>2. flows' # <<>>
    BY <2>1
  <2>3. QED BY <1>2, <1>3, <2>1, <2>2 DEF Captured, Uncaptured
<1>4. CASE active = NoSession
  BY <1>2, <1>4 DEF Uncaptured
<1>5. QED BY <1>3, <1>4

\* Spawning from nothing leaves one copy, in the task's hands.
LEMMA FirstCopy ==
  ASSUME NEW n \in Nat, Uncaptured, spawned' = Append(spawned, n), flows' = flows
  PROVE  Captured(n)' /\ ~Uncaptured'
BY DEF Uncaptured, Captured

\* Least stays among the numbers.
LEMMA WholeIsNat == Types => Whole \in Nat
BY ExchangeAssumption DEF Types, Whole, Least

\* The steps up to the response keep the invariant: they copy nothing.
LEMMA EarlyKeeps ==
  ASSUME ExInv,
         \/ ReadScope \/ CheckRequest \/ Send \/ Collect \/ Fail \/ Others
         \/ \E d \in {"forward", "drop"} : DecideRequest(d)
         \/ \E n \in Bytes, sized \in BOOLEAN : Answer(n, sized)
  PROVE  ExInv'
<1> USE ExchangeAssumption
    DEF ExInv, Types, EarlyInv, RelayInv, EndInv, DropInv, Early, Late, frame, path, tee, env, Bytes
<1>1. ASSUME spawned' = spawned, flows' = flows
      PROVE  /\ Uncaptured' <=> Uncaptured
             /\ Whole' = Whole /\ (Uncaptured \/ Captured(Whole)) => (Uncaptured \/ Captured(Whole))'
  BY <1>1 DEF Uncaptured, Captured
<1>2. CASE ReadScope
  BY <1>1, <1>2 DEF ReadScope
<1>3. CASE CheckRequest
  BY <1>1, <1>3 DEF CheckRequest
<1>4. CASE Send
  BY <1>1, <1>4 DEF Send
<1>5. CASE Collect
  BY <1>1, <1>5 DEF Collect, Least
<1>6. CASE Fail
  BY <1>1, <1>6 DEF Fail
<1>7. CASE Others
  <2>1. Whole' = Whole
    BY <1>7 DEF Others, Whole
  <2>2. /\ active' \in Sessions \cup {NoSession} /\ inScope' \in BOOLEAN /\ lapsed' \in BOOLEAN
        /\ (active' = NoSession => lapsed') /\ (lapsed => lapsed')
    BY <1>7 DEF Others
  <2>3. UNCHANGED <<step, path, got, tee, flows>>
    BY <1>7 DEF Others
  <2>4. Types'
    BY <2>2, <2>3
  <2>5. EarlyInv' /\ RelayInv' /\ EndInv' /\ DropInv'
    BY <1>1, <2>2, <2>3
  <2>6. QED BY <1>1, <2>1, <2>3, <2>4, <2>5
<1>8. ASSUME NEW d \in {"forward", "drop"}, DecideRequest(d)
      PROVE  ExInv'
  BY <1>1, <1>8 DEF DecideRequest
<1>9. ASSUME NEW n \in Bytes, NEW sized \in BOOLEAN, Answer(n, sized)
      PROVE  ExInv'
  BY <1>1, <1>9 DEF Answer
<1>10. QED BY <1>2, <1>3, <1>4, <1>5, <1>6, <1>7, <1>8, <1>9

\* The decision on a held response is the only one that captures.
LEMMA DecidedKeeps ==
  ASSUME ExInv, NEW d \in {"forward", "edit", "drop"}, NEW n \in Bytes, DecideResponse(d, n)
  PROVE  ExInv'
<1> USE ExchangeAssumption DEF ExInv, Types, EarlyInv, Early, Late, Bytes
<1>1. /\ Uncaptured /\ ~done /\ copy = 0 /\ got = 0 /\ step = "held_response" /\ step' = "reply"
      /\ UNCHANGED <<frame, capture, contacted, body, got, copy, done>>
      /\ verdict' = [verdict EXCEPT !.response = d]
  BY DEF DecideResponse
<1>2. /\ out' \in Nat /\ (d = "drop" => out' = 0)
      /\ verdict.request # "drop"
  BY DEF DecideResponse, DropInv
<1>3. Types' /\ EarlyInv' /\ RelayInv'
  BY <1>1, <1>2 DEF RelayInv, frame, env
<1>4. CASE capture /\ d # "drop"
  <2>1. spawned' = Append(spawned, Least(out', MaxCapture)) /\ flows' = flows
    BY <1>1, <1>4 DEF DecideResponse, frame
  <2>2. Least(out', MaxCapture) \in Nat /\ Whole' = Least(out', MaxCapture)
    BY <1>1, <1>2 DEF Whole, Least
  <2>3. Captured(Whole)' /\ ~Uncaptured'
    BY <1>1, <2>1, <2>2, FirstCopy DEF Captured
  <2>4. EndInv' /\ DropInv'
    BY <1>1, <1>2, <1>4, <2>3 DEF EndInv, DropInv
  <2>5. QED BY <1>3, <2>3, <2>4
<1>5. CASE ~(capture /\ d # "drop")
  <2>1. Uncaptured'
    BY <1>1, <1>5 DEF DecideResponse, Uncaptured, frame
  <2>2. EndInv' /\ DropInv'
    BY <1>1, <1>2, <1>5, <2>1 DEF EndInv, DropInv
  <2>3. QED BY <1>3, <2>1, <2>2
<1>6. QED BY <1>4, <1>5

\* A frame is copied as far as there is room, and the copy is handed over when
\* it is full or complete.
LEMMA FrameKeeps ==
  ASSUME ExInv, NEW n \in Bytes \ {0}, Frame(n)
  PROVE  ExInv'
<1> USE ExchangeAssumption DEF ExInv, Types, RelayInv, Early, Late, Bytes
<1>1. /\ step = "relay" /\ step' = "relay" /\ n \in Nat /\ n > 0 /\ n <= body.left
      /\ body' = [body EXCEPT !.left = body.left - n] /\ got' = got + n
      /\ UNCHANGED <<frame, step, capture, contacted, verdict, out>>
  BY DEF Frame
<1>2. /\ body'.total = body.total /\ body'.sized = body.sized /\ body'.left = body.left - n
      /\ body' \in [total : Nat, sized : BOOLEAN, left : Nat] /\ got' \in Nat
      /\ got' + body'.left = body'.total
  BY <1>1
<1>3. Whole' = Whole /\ Whole = Least(MaxCapture, body.total)
  BY <1>1, <1>2 DEF Whole
<1>4. EarlyInv' /\ EndInv' /\ DropInv'
  BY <1>1, <1>2 DEF EarlyInv, EndInv, DropInv
<1>5. CASE done
  <2>1. UNCHANGED <<copy, done, spawned, flows>>
    BY <1>1, <1>5 DEF Frame, CaptureFrame, tee, frame
  <2>2. (Uncaptured \/ Captured(Whole))' /\ (Uncaptured' <=> Uncaptured)
    BY <1>3, <2>1 DEF Uncaptured, Captured
  <2>3. Types' /\ RelayInv'
    BY <1>1, <1>2, <1>5, <2>1, <2>2 DEF frame, env
  <2>4. QED BY <1>4, <2>2, <2>3
<1>6. CASE ~done /\ (n > MaxCapture - copy \/ (body.sized /\ copy + n >= body.total))
  <2>1. done' /\ copy' = 0 /\ flows' = flows
        /\ spawned' = IF capture THEN Append(spawned, Whole) ELSE spawned
    <3>1. CASE n > MaxCapture - copy
      <4>1. Whole = MaxCapture
        BY <1>1, <1>3, <1>6, <3>1 DEF Least
      <4>2. QED BY <1>1, <1>6, <3>1, <4>1 DEF Frame, CaptureFrame, Finalize, frame
    <3>2. CASE ~(n > MaxCapture - copy)
      <4>1. copy + n = body.total /\ Whole = copy + n
        BY <1>1, <1>3, <1>6, <3>2 DEF Least
      <4>2. QED BY <1>1, <1>6, <3>2, <4>1 DEF Frame, CaptureFrame, Finalize, frame
    <3>3. QED BY <3>1, <3>2
  <2>2. Uncaptured /\ Whole \in Nat
    BY <1>1, <1>6, WholeIsNat
  <2>3. capture => Captured(Whole)' /\ ~Uncaptured'
    BY <1>3, <2>1, <2>2, FirstCopy DEF Captured
  <2>4. ~capture => Uncaptured'
    BY <2>1, <2>2 DEF Uncaptured
  <2>5. Types' /\ RelayInv'
    BY <1>1, <1>2, <2>1, <2>3 DEF frame, env
  <2>6. QED BY <1>4, <2>3, <2>4, <2>5
<1>7. CASE ~done /\ ~(n > MaxCapture - copy) /\ ~(body.sized /\ copy + n >= body.total)
  <2>1. copy' = copy + n /\ UNCHANGED <<done, spawned, flows>>
    BY <1>1, <1>7 DEF Frame, CaptureFrame, frame
  <2>2. Uncaptured'
    BY <1>1, <1>7, <2>1 DEF Uncaptured
  <2>3. copy \in Nat /\ copy = got /\ copy + n <= MaxCapture /\ copy' \in Nat /\ copy' = got'
        /\ copy' <= MaxCapture
    BY <1>1, <1>7, <2>1
  <2>4. ~(body'.sized /\ body'.left = 0)
    BY <1>1, <1>2, <1>7, <2>3
  <2>5. Types'
    BY <1>1, <1>2, <2>1, <2>3 DEF frame, env
  <2>6. RelayInv'
    BY <1>1, <1>2, <1>7, <2>1, <2>2, <2>3, <2>4
  <2>7. QED BY <1>4, <2>2, <2>5, <2>6
<1>8. QED BY <1>5, <1>6, <1>7

\* The end of a chunked body hands over what is not captured yet.
LEMMA EndKeeps ==
  ASSUME ExInv, BodyEnds
  PROVE  ExInv'
<1> USE ExchangeAssumption DEF ExInv, Types, RelayInv, Early, Late
<1>1. /\ step = "relay" /\ step' = "relayed" /\ body.left = 0 /\ got = body.total
      /\ UNCHANGED <<frame, path, got>>
  BY DEF BodyEnds
<1>2. Whole' = Whole /\ Whole = Least(MaxCapture, body.total) /\ verdict.response = "none"
  BY <1>1 DEF Whole, path
<1>3. CASE body.sized \/ done
  <2>1. UNCHANGED <<copy, done, spawned, flows>>
    BY <1>1, <1>3 DEF BodyEnds, Finalize, tee, frame
  <2>2. (Uncaptured \/ Captured(Whole))' /\ (Uncaptured' <=> Uncaptured)
    BY <1>2, <2>1 DEF Uncaptured, Captured
  <2>3. EndInv'
    BY <1>1, <1>2, <1>3, <2>2 DEF EndInv, path, frame, env
  <2>4. QED BY <1>1, <1>2, <2>1, <2>2, <2>3 DEF EarlyInv, DropInv, path, frame, env
<1>4. CASE ~body.sized /\ ~done
  <2>1. done' /\ copy' = 0 /\ flows' = flows
        /\ spawned' = IF capture THEN Append(spawned, copy) ELSE spawned
    BY <1>1, <1>4 DEF BodyEnds, Finalize, frame
  <2>2. Uncaptured /\ Whole = copy
    BY <1>1, <1>2, <1>4 DEF Least
  <2>3. capture => Captured(Whole)' /\ ~Uncaptured'
    BY <1>2, <2>1, <2>2, FirstCopy DEF Captured
  <2>4. ~capture => Uncaptured'
    BY <2>1, <2>2 DEF Uncaptured
  <2>5. EndInv' /\ DropInv'
    BY <1>1, <1>2, <2>3 DEF EndInv, DropInv, path, frame, env
  <2>6. Types' /\ EarlyInv' /\ RelayInv'
    BY <1>1, <2>1 DEF EarlyInv, path, frame, env
  <2>7. QED BY <2>3, <2>4, <2>5, <2>6
<1>5. QED BY <1>3, <1>4

\* Replies, cuts and capture tasks make no copy.
LEMMA LateKeeps ==
  ASSUME ExInv, Reply \/ BodyBreaks \/ HangUp \/ CaptureTask
  PROVE  ExInv'
<1> USE ExchangeAssumption DEF ExInv, Types, EarlyInv, EndInv, DropInv, RelayInv, Early, Late,
        path, tee, frame, env
<1>1. ASSUME UNCHANGED <<path, spawned, flows>>
      PROVE  Whole' = Whole /\ (Uncaptured \/ Captured(Whole))' /\ (Uncaptured' <=> Uncaptured)
  BY <1>1 DEF Whole, Uncaptured, Captured
<1>2. CASE Reply
  BY <1>1, <1>2 DEF Reply
<1>3. CASE BodyBreaks
  BY <1>1, <1>3 DEF BodyBreaks
<1>4. CASE HangUp
  BY <1>1, <1>4 DEF HangUp
<1>5. CASE CaptureTask
  <2>1. Whole' = Whole /\ Whole \in Nat
    BY <1>5, WholeIsNat DEF CaptureTask, Whole
  <2>2. ~Uncaptured /\ Captured(Whole)
    BY <1>5 DEF CaptureTask, Uncaptured
  <2>3. /\ active # NoSession => Captured(Whole)' /\ ~Uncaptured'
        /\ active = NoSession => Uncaptured' /\ lapsed
    BY <1>5, <2>1, <2>2, TaskKeepsCopy DEF Captured
  <2>4. UNCHANGED <<env, step, path, got, copy, done>>
    BY <1>5 DEF CaptureTask
  <2>5. ~(step \in Early) /\ ~("drop" \in {verdict.request, verdict.response})
    BY <2>2
  <2>6. step = "relay" => done
    BY <2>2
  <2>7. Types' /\ EarlyInv' /\ DropInv'
    BY <2>4, <2>5
  <2>8. RelayInv' /\ EndInv'
    BY <2>3, <2>4, <2>6
  <2>9. QED BY <2>3, <2>7, <2>8
<1>6. QED BY <1>2, <1>3, <1>4, <1>5

\* The invariant holds in every reachable state.
LEMMA ExInvariant == Spec => []ExInv
<1>1. Init => ExInv
  <2> SUFFICES ASSUME Init PROVE ExInv
    OBVIOUS
  <2>1. Types
    BY DEF Init, Types, Early, Late, NoBody
  <2>2. Uncaptured /\ EarlyInv /\ RelayInv /\ EndInv /\ DropInv
    BY DEF Init, Uncaptured, EarlyInv, RelayInv, EndInv, DropInv, Early, Late
  <2>3. QED BY <2>1, <2>2 DEF ExInv
<1>2. ExInv /\ [Next]_vars => ExInv'
  <2> SUFFICES ASSUME ExInv, [Next]_vars PROVE ExInv'
    OBVIOUS
  <2>1. CASE Reply \/ BodyBreaks \/ HangUp \/ CaptureTask
    BY <2>1, LateKeeps
  <2>2. CASE UNCHANGED vars
    BY <2>2 DEF vars, env, path, tee, ExInv, Types, EarlyInv, RelayInv, EndInv, DropInv, Uncaptured,
                Captured, Whole
  <2>3. QED BY <2>1, <2>2, EarlyKeeps, DecidedKeeps, FrameKeeps, EndKeeps DEF Next
<1>3. QED BY <1>1, <1>2, PTL DEF Spec

\* An exchange is captured at most once, however its body ends.
THEOREM AtMostOnce == Spec => []CapturedOnce
<1>1. ExInv => CapturedOnce
  BY WholeIsNat, WhereCopiesAre DEF ExInv, CapturedOnce
<1>2. QED BY <1>1, ExInvariant, PTL

\* A captured body is the whole of what went to the client, up to the cap.
THEOREM CapturedWhole == Spec => []CaptureWhole
<1>1. ExInv => CaptureWhole
  BY WholeIsNat, WhereCopiesAre DEF ExInv, CaptureWhole, Whole
<1>2. QED BY <1>1, ExInvariant, PTL

\* A dropped item is not captured, and a dropped request is not sent.
THEOREM DropsAreFinal == Spec => []DroppedLeavesNoTrace
<1>1. ExInv => DroppedLeavesNoTrace
  BY WhereCopiesAre DEF ExInv, DropInv, DroppedLeavesNoTrace
<1>2. QED BY <1>1, ExInvariant, PTL

\* For bodies of every length, in every framing and split, and however scope, switches and session change: while
\* a session is active nothing that was relayed to its end or sent after a decision goes without its flow, but a
\* sized empty body.
THEOREM NoneMissed == Spec => []RelayedIsCaptured
<1>1. ExInv => RelayedIsCaptured
  <2> SUFFICES ASSUME ExInv, capture, ~lapsed,
                      \/ step = "relayed" /\ (body.total > 0 \/ ~body.sized)
                      \/ step = "ended" /\ verdict.response \in {"forward", "edit"}
               PROVE  CaptureCount = 1
    BY DEF RelayedIsCaptured
  <2>1. ~Uncaptured
    BY DEF ExInv, EndInv
  <2>2. QED BY <2>1, WholeIsNat, WhereCopiesAre DEF ExInv
<1>2. QED BY <1>1, ExInvariant, PTL
=============================================================================
