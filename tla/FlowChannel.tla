----------------------------- MODULE FlowChannel -----------------------------
(***************************************************************************)
(* What crates/capture promises the code around FlowBuffer: a bounded      *)
(* first-in first-out channel from the tasks that capture flows to the one *)
(* task that persists them.  A flow is admitted at most once and leaves    *)
(* through the front; a lossy channel may throw its front away.            *)
(* FlowBuffer implements this module, PersistenceWriter is built on it.    *)
(***************************************************************************)
EXTENDS Naturals, Sequences

CONSTANTS Flows,      \* the flows that may be offered
          Capacity,   \* the largest number of flows held at a time
          Lossy       \* TRUE when a full channel may drop its oldest flow

VARIABLES held,       \* the flows held, oldest first
          gone,       \* the flows that left through the front, in order
          lost        \* those of them that no receiver got

chanVars == <<held, gone, lost>>

Fresh(f) == /\ \A i \in 1..Len(held) : held[i] # f
            /\ \A i \in 1..Len(gone)    : gone[i] # f

ChannelInit == held = <<>> /\ gone = <<>> /\ lost = {}

Admit(f) == /\ Fresh(f)
            /\ Len(held) < Capacity
            /\ held' = Append(held, f)
            /\ UNCHANGED <<gone, lost>>

\* The front leaves; Take hands it to the receiver, Lose throws it away.
Depart == /\ held # <<>>
          /\ held' = Tail(held)
          /\ gone' = Append(gone, Head(held))

Take == Depart /\ UNCHANGED lost
Lose == Lossy /\ Depart /\ lost' = lost \cup {Head(held)}

ChannelNext == (\E f \in Flows : Admit(f)) \/ Take \/ Lose

ChannelSpec == ChannelInit /\ [][ChannelNext]_chanVars
=============================================================================
