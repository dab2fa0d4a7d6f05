---------------------------- MODULE InterceptGate ----------------------------
(***************************************************************************)
(* What the intercept controller promises to the tasks it pauses: a task   *)
(* waits while its item is pending, and goes on once it is settled.  The   *)
(* list shown to the user, the oneshots and the locks are                  *)
(* InterceptController's, which implements this module.                    *)
(***************************************************************************)
CONSTANT Items

VARIABLES pending,  \* items nobody has decided
          paused    \* items a task awaits

gateVars == <<pending, paused>>

GateInit == pending = {} /\ paused = {}

Pause(i) == /\ i \notin pending \cup paused
            /\ pending' = pending \cup {i} /\ paused' = paused \cup {i}

\* The user decides one item, clear_all all there are.
Settle(S) == S \subseteq pending /\ pending' = pending \ S /\ paused' = paused

Leave(i) == i \in paused \ pending /\ paused' = paused \ {i} /\ pending' = pending

\* The task is dropped while it waits: its item stays pending.
Desert(i) == i \in paused /\ paused' = paused \ {i} /\ pending' = pending

GateNext == \/ \E i \in Items : Pause(i) \/ Leave(i) \/ Desert(i) \/ Settle({i})

GateSpec == GateInit /\ [][GateNext]_gateVars

\* A settled task goes on.
GateFairSpec == GateSpec /\ \A i \in Items : WF_gateVars(Leave(i))
=============================================================================
