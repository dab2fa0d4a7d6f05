-------------------------------- MODULE Descent --------------------------------
(***************************************************************************)
(* The order in which the measures of the proof modules fall: that of      *)
(* tuples of numbers of one length, the first of them weighing most.  It   *)
(* has no infinite descent, so an action that lowers such a measure, which *)
(* no other action raises, is taken only so many times.                    *)
(***************************************************************************)
EXTENDS Naturals

\* x comes before y: they agree up to a place where x is less.
Below(x, y) ==
  \E i \in DOMAIN y : x[i] < y[i] /\ \A k \in DOMAIN y : k < i => x[k] = y[k]

NotAbove(x, y) == x = y \/ Below(x, y)
===============================================================================
