----------------------------- MODULE MCFlowBuffer -----------------------------
(***************************************************************************)
(* Small instances of FlowBuffer.  f1 and f2 have the same fingerprint,    *)
(* f3 and f4 have their own; f2 is larger than the byte cap used here.     *)
(***************************************************************************)
EXTENDS FlowBuffer

CONSTANTS f1, f2, f3, f4

MCFlows       == {f1, f2, f3, f4}
ThreeFlows    == {f1, f2, f3}
MCSize        == [f \in MCFlows |-> CASE f = f1 -> 1 [] f = f2 -> 4 [] f = f3 -> 3 [] f = f4 -> 1]
MCFingerprint == [f \in MCFlows |-> IF f \in {f1, f2} THEN "same" ELSE IF f = f3 THEN "third" ELSE "fourth"]
Distinct      == [f \in ThreeFlows |-> f]
UnitSize      == [f \in ThreeFlows |-> 1]
===============================================================================
