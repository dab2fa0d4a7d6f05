------------------------- MODULE InterceptController -------------------------
(***************************************************************************)
(* crates/proxy/src/intercept.rs: requests and responses held until the    *)
(* user forwards or drops them.  Every item is registered by the proxy     *)
(* task that then awaits its oneshot; the user decides items through the   *)
(* list; stopping the proxy calls clear_all.  `pending` and `queue` have a *)
(* mutex each and a step is a critical section of one of them; forward and *)
(* drop_item hold the pending lock over both.                              *)
(***************************************************************************)
EXTENDS Naturals, Sequences, FiniteSets

CONSTANTS Items,      \* the items that may be held, each enqueued once
          NoItem,     \* not an item
          MaxClears   \* bound: calls of clear_all

ASSUME InterceptAssumption == NoItem \notin Items /\ MaxClears \in Nat

VARIABLES pending,   \* items whose oneshot sender is in the map
          queue,     \* the listed entries, oldest first
          task,      \* per item: the proxy task that enqueues and awaits it
          decision,  \* per item: what its oneshot carries
          deciding,  \* the item of the forward or drop_item holding the pending lock
          clearing,  \* a clear_all is under way
          draining,  \* the senders it took out of the map and has not used yet
          clears     \* calls of clear_all so far

icVars == <<pending, queue, task, decision, deciding, clearing, draining, clears>>

TaskStates == {"new", "registered", "waiting", "resumed", "gone"}
Decisions  == {"forward", "drop"}
Listed(i)  == \E k \in 1..Len(queue) : queue[k] = i

ICInit == /\ pending = {} /\ queue = <<>>
          /\ task = [i \in Items |-> "new"]
          /\ decision = [i \in Items |-> "none"]
          /\ deciding = NoItem /\ clearing = FALSE /\ draining = {} /\ clears = 0

-------------------------------------------------------------------------------
(* enqueue and wait_for_decision.  Operators named ...Bug are the           *)
(* definition after them with a plausible slip; no step uses them.          *)

PendingUnlocked == deciding = NoItem

Register(i) ==
  /\ task[i] = "new" /\ PendingUnlocked
  /\ pending' = pending \cup {i}
  /\ task' = [task EXCEPT ![i] = "registered"]
  /\ UNCHANGED <<queue, decision, deciding, clearing, draining, clears>>

Enlist(i) ==
  /\ task[i] = "registered"
  /\ queue' = Append(queue, i)
  /\ task' = [task EXCEPT ![i] = "waiting"]
  /\ UNCHANGED <<pending, decision, deciding, clearing, draining, clears>>

Resume(i) ==
  /\ task[i] = "waiting" /\ decision[i] # "none"
  /\ task' = [task EXCEPT ![i] = "resumed"]
  /\ UNCHANGED <<pending, queue, decision, deciding, clearing, draining, clears>>

\* The client hangs up or the connection is aborted: the future that awaits
\* the decision is dropped, and nothing takes the item out of map or list.
Abandon(i) ==
  /\ task[i] = "waiting"
  /\ task' = [task EXCEPT ![i] = "gone"]
  /\ UNCHANGED <<pending, queue, decision, deciding, clearing, draining, clears>>

\* oneshot::Sender::send: lost when the receiver is gone.
SendDecision(i, d) == decision' = IF task[i] \in {"registered", "waiting"}
                            THEN [decision EXCEPT ![i] = d] ELSE decision

-------------------------------------------------------------------------------
(* forward and drop_item *)

\* The user knows an item once it has been listed.  For an item that is not
\* pending any more the call returns false and changes nothing.
Decide(i, d) ==
  /\ PendingUnlocked /\ i \in pending
  /\ task[i] \notin {"new", "registered"}
  /\ pending' = pending \ {i}
  /\ SendDecision(i, d)
  /\ deciding' = i
  /\ UNCHANGED <<queue, task, clearing, draining, clears>>

\* bug: the list is left as it is
UnlistBug ==
  /\ deciding # NoItem
  /\ deciding' = NoItem
  /\ UNCHANGED <<pending, queue, task, decision, clearing, draining, clears>>


\* retain: the entries that are not of item i, in their order.
Without(entries, i) ==
  LET kept[k \in 0..Len(entries)] ==
        IF k = 0 THEN <<>>
        ELSE IF entries[k] = i THEN kept[k - 1] ELSE Append(kept[k - 1], entries[k])
  IN kept[Len(entries)]

Unlist ==
  /\ deciding # NoItem
  /\ queue' = Without(queue, deciding)
  /\ deciding' = NoItem
  /\ UNCHANGED <<pending, task, decision, clearing, draining, clears>>

-------------------------------------------------------------------------------
(* clear_all *)

\* bug: the map is cleared after the senders were copied from the list
ClearDrainBug ==
  /\ ~clearing /\ PendingUnlocked /\ clears < MaxClears
  /\ draining' = {i \in pending : Listed(i)} /\ pending' = {}
  /\ clearing' = TRUE /\ clears' = clears + 1
  /\ UNCHANGED <<queue, task, decision, deciding>>

ClearDrain ==
  /\ ~clearing /\ PendingUnlocked /\ clears < MaxClears
  /\ draining' = pending /\ pending' = {}
  /\ clearing' = TRUE /\ clears' = clears + 1
  /\ UNCHANGED <<queue, task, decision, deciding>>

\* bug: only one sender is used
ClearSendBug(i) ==
  /\ i \in draining
  /\ draining' = {}
  /\ SendDecision(i, "drop")
  /\ UNCHANGED <<pending, queue, task, deciding, clearing, clears>>

ClearSend(i) ==
  /\ i \in draining
  /\ draining' = draining \ {i}
  /\ SendDecision(i, "drop")
  /\ UNCHANGED <<pending, queue, task, deciding, clearing, clears>>

ClearQueue ==
  /\ clearing /\ draining = {}
  /\ queue' = <<>>
  /\ clearing' = FALSE
  /\ UNCHANGED <<pending, task, decision, deciding, draining, clears>>

-------------------------------------------------------------------------------
TaskStep(i) == Register(i) \/ Enlist(i) \/ Resume(i)
ClearStep   == (\E i \in Items : ClearSend(i)) \/ ClearQueue

ICNext == \/ \E i \in Items : \/ TaskStep(i) \/ Abandon(i)
                              \/ \E d \in Decisions : Decide(i, d)
          \/ Unlist \/ ClearDrain \/ ClearStep

ICSpec == ICInit /\ [][ICNext]_icVars

\* A running task reaches its await, a decided one is woken, and the calls of
\* the user and of stop run to their end; nobody has to decide an item.
ICFairSpec == /\ ICSpec
              /\ \A i \in Items : WF_icVars(Enlist(i) \/ Resume(i))
              /\ WF_icVars(Unlist) /\ WF_icVars(ClearStep)
-------------------------------------------------------------------------------
(* Properties *)

TypeOK ==
  /\ pending \subseteq Items /\ draining \subseteq Items
  /\ queue \in Seq(Items)
  /\ task \in [Items -> TaskStates]
  /\ decision \in [Items -> Decisions \cup {"none"}]
  /\ deciding \in Items \cup {NoItem}
  /\ clearing \in BOOLEAN /\ clears \in Nat
  /\ pending \cap draining = {}   \* a sender has one owner

\* A paused task can always be released: as long as no decision was sent the
\* sender is in the map, or in the hands of a clear_all under way, and it is
\* in neither once used.
NoOrphanWait ==
  /\ \A i \in Items : task[i] \in {"registered", "waiting"} /\ decision[i] = "none"
                      => i \in pending \cup draining
  /\ \A i \in pending \cup draining : decision[i] = "none" /\ task[i] # "new"
  /\ draining # {} => clearing


\* An entry the user has forwarded is gone from the list when forward returns,
\* although the list has a lock of its own.
ForwardedUnlisted ==
  \A i \in Items : decision[i] = "forward" /\ deciding # i => ~Listed(i)

\* clear_all releases every task whose item it found (intercept.rs:63-64,
\* "paused tasks are released instead of hanging"): in the end who still waits has a sender in the map.
ClearReleases == <>[](\A i \in Items : task[i] \in {"registered", "waiting"} => i \in pending)

\* What the proxy's tasks rely on: a task is paused while its item is pending or
\* a clear_all is about to drop it, and goes on once it is decided.
Gate == INSTANCE InterceptGate WITH
          pending <- pending \cup draining,
          paused  <- {i \in Items : task[i] \in {"registered", "waiting"}}

GateKept == Gate!GateFairSpec
=============================================================================
