---------------------------- MODULE SessionsProofs ----------------------------
(***************************************************************************)
(* Theorems about CaptureSessions, for every set of flows, every number of *)
(* API calls and every capacity of the ring.                               *)
(***************************************************************************)
EXTENDS CaptureSessions, FiniteSetTheorems, TLAPS

\* The types that counting depends on.
Types ==
  /\ active \in Sessions \cup {NoSession} /\ rows \in [Sessions -> Row]
  /\ open \in BOOLEAN /\ lock \in BOOLEAN
  /\ capture \in [Captured -> {"spawned", "discarded", "push", "save", "show", "shown"}]
  /\ session \in [Captured -> Sessions \cup {NoSession}]
  /\ bump \in [Captured -> {"none", "queued", "write", "done"}] /\ seen \in [Captured -> Row]
  /\ call \in [Calls -> {"idle", "insert", "activate", "stop", "get", "end",
                         "delete", "opening", "clear", "done"}]
  /\ about \in [Calls -> Sessions \cup {NoSession}] /\ read \in [Calls -> Row]
  /\ counted \subseteq Captured /\ spoilt \subseteq Sessions /\ IsFiniteSet(counted)

\* A task that counts has a session, one that has not begun has none, and a call
\* that edits a row has the session it edits.
Attributed ==
  /\ \A f \in Captured : capture[f] = "spawned" => bump[f] = "none"
  /\ \A f \in Captured : capture[f] \in {"push", "save"} => bump[f] = "none" /\ session[f] \in Sessions
  /\ \A f \in Captured : bump[f] # "none" => session[f] \in Sessions
  /\ \A f \in Captured : bump[f] # "done" => f \notin counted
  /\ \A c \in Calls : call[c] \in {"stop", "get", "end"} => about[c] \in Sessions

\* Nothing is captured under a session before the call that starts it is done.
NotEarly ==
  \A c \in Calls : /\ call[c] \in {"insert", "activate"} => about[c] = c
                   /\ call[c] \in {"idle", "insert", "activate"} =>
                        active # c /\ \A f \in Captured : session[f] # c

\* The count a task is about to raise is the right one.
SeenExact ==
  \A f \in Captured : bump[f] = "write" /\ session[f] \notin spoilt =>
                     seen[f].count = Cardinality(CountedFor(session[f]))

\* The inductive invariant.
CountInv == Types /\ LockOwned /\ Attributed /\ NotEarly /\ SeenExact /\ CountExact

LEMMA CountFinite ==
  ASSUME IsFiniteSet(counted), NEW s
  PROVE  IsFiniteSet(CountedFor(s)) /\ Cardinality(CountedFor(s)) \in Nat
BY FS_Subset, FS_CardinalityType DEF CountedFor

\* Attributing a flow or taking the mutex counts nothing.
LEMMA AttributeKeeps ==
  ASSUME SessionsAssumption, CountInv, NEW f \in Captured, Attribute(f)
  PROVE  CountInv'
<1> USE DEF CountInv, Attribute, captureFrame, callVars, history, tables, Captures
<1>1. f \notin counted /\ bump[f] = "none" /\ capture[f] = "spawned"
  BY DEF Attributed
<1>2. \A s \in Sessions : CountedFor(s)' = CountedFor(s)
  BY <1>1 DEF Types, CountedFor
<1>3. Types'
  BY DEF Types
<1>4. LockOwned'
  BY DEF LockOwned, Types
<1>5. active = NoSession => capture'[f] = "discarded"
  BY DEF Types
<1>6. Attributed'
  BY <1>1, <1>5 DEF Attributed, Types
<1>7. NotEarly'
  BY DEF NotEarly, Types
<1>8. SeenExact'
  BY <1>1, <1>2 DEF SeenExact, Types, Attributed
<1>9. CountExact'
  BY <1>2 DEF CountExact
<1> QED BY <1>3, <1>4, <1>6, <1>7, <1>8, <1>9

LEMMA PushKeeps ==
  ASSUME SessionsAssumption, CountInv, NEW f \in Captured, TakeStore(f) \/ SaveFlow(f) \/ Show(f)
  PROVE  CountInv'
<1> USE DEF CountInv, TakeStore, SaveFlow, Show, captureFrame, callVars, history, tables, Captures
<1>1. UNCHANGED <<counted, session, rows, spoilt, call, about, active, seen>>
  OBVIOUS
<1>2. Types'
  BY DEF Types
<1>3. LockOwned'
  BY DEF LockOwned, Types
<1>4. Attributed'
  BY DEF Attributed, Types
<1>5. NotEarly'
  BY <1>1 DEF NotEarly, Types
<1>6. \A s : CountedFor(s)' = CountedFor(s)
  BY <1>1 DEF CountedFor
<1>7. SeenExact'
  BY <1>1, <1>6 DEF SeenExact, Types
<1>8. CountExact'
  BY <1>1, <1>6 DEF CountExact
<1> QED BY <1>2, <1>3, <1>4, <1>5, <1>7, <1>8

\* The mutex keeps other tasks from counting between a read and its write.
LEMMA ReadKeeps ==
  ASSUME SessionsAssumption, CountInv, NEW f \in Captured, ReadRow(f)
  PROVE  CountInv'
<1> USE DEF CountInv, ReadRow, captureFrame, callVars, history, tables
<1>1. UNCHANGED <<counted, session, rows, spoilt, call, about, active, capture>>
  OBVIOUS
<1>2. session[f] \in Sessions /\ bump[f] = "queued" /\ ~lock
  BY DEF Attributed
<1>3. Types'
  BY <1>2 DEF Types, NoRow, Row
<1>4. LockOwned'
  BY <1>2 DEF LockOwned, Types
<1>5. Attributed'
  BY <1>2 DEF Attributed, Types
<1>6. NotEarly'
  BY <1>1 DEF NotEarly
<1>7. \A s : CountedFor(s)' = CountedFor(s)
  BY <1>1 DEF CountedFor
<1>8. SeenExact'
  <2> SUFFICES ASSUME NEW g \in Captured, bump'[g] = "write", session[g] \notin spoilt
               PROVE  seen'[g].count = Cardinality(CountedFor(session[g]))
    BY <1>1, <1>7 DEF SeenExact
  <2>1. CASE g = f
    BY <1>2, <2>1 DEF CountExact, Types
  <2>2. CASE g # f
    BY <2>2 DEF SeenExact, Types
  <2> QED BY <2>1, <2>2
<1>9. CountExact'
  BY <1>1, <1>7 DEF CountExact
<1> QED BY <1>3, <1>4, <1>5, <1>6, <1>8, <1>9

LEMMA WriteKeeps ==
  ASSUME SessionsAssumption, CountInv, NEW f \in Captured, WriteCount(f)
  PROVE  CountInv'
<1> USE DEF CountInv, WriteCount, callVars
<1> DEFINE s == session[f]
<1>1. UNCHANGED <<session, spoilt, call, about, active, capture>>
  OBVIOUS
<1>2. /\ s \in Sessions /\ bump[f] = "write" /\ f \notin counted
      /\ seen[f] \in Row /\ counted' \in {counted, counted \cup {f}}
  BY DEF Attributed, Types
<1>3. IsFiniteSet(counted')
  BY <1>2, FS_AddElement DEF Types
<1>4. [seen[f] EXCEPT !.count = @ + 1] \in Row
  BY <1>2 DEF Row
<1>5. Types'
  <2>1. NoRow \in Row /\ rows' \in [Sessions -> Row]
    BY <1>2, <1>4 DEF Types, NoRow, Row
  <2>2. seen' \in [Captured -> Row] /\ bump' \in [Captured -> {"none", "queued", "write", "done"}]
    BY <2>1 DEF Types
  <2> QED BY <1>1, <1>2, <1>3, <2>1, <2>2 DEF Types
<1>6. LockOwned'
  BY <1>2 DEF LockOwned, Types
<1>7. Attributed'
  BY <1>2 DEF Attributed, Types
<1>8. NotEarly'
  BY <1>1 DEF NotEarly
<1>9. \A g \in Captured : bump'[g] # "write"
  BY <1>2 DEF LockOwned, Types
<1>10. SeenExact'
  BY <1>9 DEF SeenExact
<1>11. \A r \in Sessions : r # s => CountedFor(r)' = CountedFor(r)
  BY <1>1, <1>2 DEF CountedFor
<1>12. CountExact'
  <2>1. CASE UNCHANGED <<rows, counted>>
    BY <1>1, <2>1 DEF CountExact, CountedFor
  <2>2. CASE rows' = [rows EXCEPT ![s] = [seen[f] EXCEPT !.count = @ + 1]] /\ counted' = counted \cup {f}
    <3>1. CountedFor(s)' = CountedFor(s) \cup {f} /\ f \notin CountedFor(s)
      BY <1>1, <1>2, <2>2 DEF CountedFor
    <3>2. Cardinality(CountedFor(s)') = Cardinality(CountedFor(s)) + 1
      BY <3>1, CountFinite, FS_AddElement DEF Types
    <3>3. s \notin spoilt => rows'[s].count = Cardinality(CountedFor(s)) + 1
      BY <1>2, <2>2 DEF SeenExact, Types, Row
    <3>4. \A r \in Sessions : r # s => rows'[r] = rows[r]
      BY <2>2 DEF Types
    <3> QED BY <1>1, <1>11, <3>2, <3>3, <3>4 DEF CountExact
  <2> QED BY <2>1, <2>2
<1> QED BY <1>5, <1>6, <1>7, <1>8, <1>10, <1>12

\* What an API call may do to a row that it does not spoil: nothing, remove it, or
\* write it with the count it had, or with 0 before anything was captured.
RowsKept ==
  /\ spoilt \subseteq spoilt'
  /\ \A s \in Sessions \ spoilt' :
       rows'[s].stored => \/ rows[s].stored /\ rows'[s].count = rows[s].count
                          \/ CountedFor(s) = {} /\ rows'[s].count = 0

\* An API call counts nothing and holds no mutex.
LEMMA CallFrame ==
  ASSUME NEW c \in Calls, CallStep(c)
  PROVE  UNCHANGED <<capture, session, bump, seen, lock, counted>>
BY DEF CallStep, StartCalled, StopCalled, DeleteCalled, ClearCalled, Insert, Activate,
       StopOpens, StopReads, StopSaves, Delete, ClearOpens, ClearFlows, callFrame, flowVars, history

LEMMA CallTypes ==
  ASSUME SessionsAssumption, Types, Attributed, NEW c \in Calls, CallStep(c)
  PROVE  Types'
<1> USE DEF Types, callFrame, flowVars, tables, history, Goes, OpenStore, SaveRow, NoSession
<1>1. NoRow \in Row /\ FreshRow \in Row
  BY DEF NoRow, FreshRow, Row
<1>2. \A row \in Row : [row EXCEPT !.ended = TRUE] \in Row
  BY DEF Row
<1>3. c \in Sessions
  BY DEF Calls, Sessions
<1>4. CASE StartCalled(c) \/ StopCalled(c) \/ DeleteCalled(c) \/ ClearCalled(c)
  <2>1. CASE StartCalled(c)
    BY <1>3, <2>1 DEF StartCalled
  <2>2. CASE StopCalled(c)
    BY <1>3, <2>2 DEF StopCalled
  <2>3. CASE DeleteCalled(c)
    BY <1>3, <2>3 DEF DeleteCalled
  <2>4. CASE ClearCalled(c)
    BY <1>3, <2>4 DEF ClearCalled
  <2> QED
    BY <1>4, <2>1, <2>2, <2>3, <2>4
<1>5. CASE Insert(c)
  BY <1>1, <1>5 DEF Insert
<1>6. CASE Activate(c) \/ StopOpens(c)
  BY <1>6 DEF Activate, StopOpens
<1>7. CASE StopReads(c)
  BY <1>7 DEF StopReads, Attributed
<1>8. CASE StopSaves(c)
  BY <1>1, <1>2, <1>8 DEF StopSaves, Attributed
<1>9. CASE Delete(c)
  BY <1>1, <1>9 DEF Delete
<1>10. CASE ClearOpens(c) \/ ClearFlows(c)
  BY <1>10 DEF ClearOpens, ClearFlows
<1> QED BY <1>4, <1>5, <1>6, <1>7, <1>8, <1>9, <1>10 DEF CallStep

LEMMA CallAttributes ==
  ASSUME SessionsAssumption, Types, Attributed, NotEarly, NEW c \in Calls, CallStep(c)
  PROVE  Attributed' /\ NotEarly'
<1> USE DEF Types, Attributed, NotEarly, callFrame, flowVars, tables, history, Goes, OpenStore, NoSession
<1>1. c \in Sessions /\ \A d \in Calls : d # 0
  BY DEF Calls, Sessions
<1>2. CASE StartCalled(c)
  BY <1>1, <1>2 DEF StartCalled, Called
<1>3. CASE StopCalled(c)
  BY <1>1, <1>3 DEF StopCalled, Called
<1>4. CASE DeleteCalled(c) \/ ClearCalled(c)
  BY <1>4 DEF DeleteCalled, ClearCalled, Called
<1>5. CASE Insert(c)
  BY <1>5 DEF Insert
<1>6. CASE Activate(c)
  BY <1>6 DEF Activate
<1>7. CASE StopOpens(c) \/ StopReads(c) \/ StopSaves(c)
  BY <1>7 DEF StopOpens, StopReads, StopSaves
<1>8. CASE Delete(c) \/ ClearOpens(c) \/ ClearFlows(c)
  BY <1>8 DEF Delete, ClearOpens, ClearFlows
<1> QED BY <1>2, <1>3, <1>4, <1>5, <1>6, <1>7, <1>8 DEF CallStep

LEMMA CallRows ==
  ASSUME SessionsAssumption, Types, Attributed, NotEarly, NEW c \in Calls, CallStep(c)
  PROVE  RowsKept
<1> USE DEF RowsKept, callFrame, flowVars, tables, history
<1>1. CASE \/ StartCalled(c) \/ StopCalled(c) \/ DeleteCalled(c) \/ ClearCalled(c)
           \/ Activate(c) \/ StopOpens(c) \/ StopReads(c) \/ ClearOpens(c) \/ ClearFlows(c)
  <2>1. UNCHANGED <<rows, spoilt>>
    BY <1>1 DEF StartCalled, StopCalled, DeleteCalled, ClearCalled, Activate, StopOpens,
                StopReads, ClearOpens, ClearFlows
  <2> QED BY <2>1
<1>2. CASE Insert(c)
  <2>1. about[c] = c /\ CountedFor(c) = {}
    BY <1>2 DEF Insert, NotEarly, CountedFor, Types
  <2>2. rows' \in {[rows EXCEPT ![c] = FreshRow], rows} /\ spoilt' = spoilt
    BY <1>2, <2>1 DEF Insert, SaveRow
  <2> QED BY <2>1, <2>2 DEF Types, FreshRow, NoRow
<1>3. CASE StopSaves(c)
  <2>1. CASE UNCHANGED <<rows, spoilt>>
    BY <2>1
  <2>2. CASE /\ rows' = [rows EXCEPT ![about[c]] = [read[c] EXCEPT !.ended = TRUE]]
             /\ spoilt' = IF rows[about[c]] = read[c] THEN spoilt ELSE spoilt \cup {about[c]}
    <3>1. read[c] \in Row /\ about[c] \in Sessions
      BY <1>3 DEF Types, StopSaves, Attributed
    <3>2. \A s \in Sessions : s # about[c] => rows'[s] = rows[s]
      BY <2>2 DEF Types
    <3>3. rows'[about[c]].stored = read[c].stored /\ rows'[about[c]].count = read[c].count
      BY <2>2, <3>1 DEF Types, Row
    <3>4. about[c] \notin spoilt' => rows[about[c]] = read[c]
      BY <2>2
    <3> QED BY <2>2, <3>2, <3>3, <3>4
  <2> QED BY <1>3, <2>1, <2>2 DEF StopSaves
<1>4. CASE Delete(c)
  BY <1>4 DEF Delete, NoRow, Types
<1> QED BY <1>1, <1>2, <1>3, <1>4 DEF CallStep

LEMMA CallKeeps ==
  ASSUME SessionsAssumption, CountInv, NEW c \in Calls, CallStep(c)
  PROVE  CountInv'
<1>1. Types' /\ Attributed' /\ NotEarly' /\ RowsKept
  BY CallTypes, CallAttributes, CallRows DEF CountInv
<1>2. UNCHANGED <<capture, session, bump, seen, lock, counted>>
  BY CallFrame
<1>3. \A s : CountedFor(s)' = CountedFor(s)
  BY <1>2 DEF CountedFor
<1>4. LockOwned'
  BY <1>2 DEF CountInv, LockOwned
<1>5. SeenExact'
  BY <1>1, <1>2, <1>3 DEF CountInv, SeenExact, RowsKept
<1>6. CountExact'
  BY <1>1, <1>3, FS_EmptySet DEF CountInv, CountExact, RowsKept
<1> QED BY <1>1, <1>4, <1>5, <1>6 DEF CountInv

LEMMA CountInvariant == SessSpec => []CountInv
<1>1. SessInit => CountInv
  <2> SUFFICES ASSUME SessInit PROVE CountInv
    OBVIOUS
  <2> USE DEF SessInit
  <2>1. NoRow \in Row
    BY DEF NoRow, Row
  <2>2. Types
    BY <2>1, FS_EmptySet DEF Types
  <2>3. LockOwned /\ SeenExact
    BY DEF LockOwned, SeenExact
  <2>4. Attributed
    BY DEF Attributed
  <2>5. NotEarly
    BY DEF NotEarly, Calls, NoSession
  <2>6. CountExact
    BY DEF CountExact, NoRow
  <2> QED BY <2>2, <2>3, <2>4, <2>5, <2>6 DEF CountInv
<1>2. CountInv /\ [SessNext]_sessVars => CountInv'
  <2> SUFFICES ASSUME CountInv, [SessNext]_sessVars PROVE CountInv'
    OBVIOUS
  <2>1. ASSUME NEW f \in Captured, CaptureStep(f) \/ BumpStep(f) PROVE CountInv'
    BY <2>1, SessionsAssumption, AttributeKeeps, PushKeeps, ReadKeeps, WriteKeeps DEF CaptureStep, BumpStep
  <2>2. ASSUME NEW c \in Calls, CallStep(c) PROVE CountInv'
    BY <2>2, SessionsAssumption, CallKeeps
  <2>3. CASE OtherStep \/ UNCHANGED sessVars
    <3>1. UNCHANGED <<active, rows, lock, flowVars, callVars, history>> /\ open' \in BOOLEAN
      BY <2>3 DEF OtherStep, ResetStore, OtherOpens, sessVars, tables, CountInv, Types
    <3> QED BY <3>1 DEF CountInv, Types, LockOwned, Attributed, NotEarly, SeenExact, CountExact,
                         CountedFor, flowVars, callVars, history
  <2> QED BY <2>1, <2>2, <2>3 DEF SessNext
<1> QED BY <1>1, <1>2, PTL DEF SessSpec

\* Counting is serial: until a stop_session saves an outdated row, the row of a
\* session counts exactly the flows whose count was written.
THEOREM CountingIsSerial == SessSpec => []CountExact
BY CountInvariant, PTL DEF CountInv

\* The mutex of the store has one owner, and one that will release it.
THEOREM LockHasOwner == SessSpec => []LockOwned
BY CountInvariant, PTL DEF CountInv
-------------------------------------------------------------------------------
(* How far captures and calls are from their ends                            *)

\* The places the tasks of a flow have before them. The save leaves two more to the task that counts it.
CaptureLeft(step) ==
  CASE step = "spawned" -> 6 [] step = "push" -> 5 [] step = "save" -> 4 [] step = "show" -> 1 [] OTHER -> 0
BumpLeft(step) == CASE step = "queued" -> 2 [] step = "write" -> 1 [] OTHER -> 0
FlowLeft(f)    == CaptureLeft(capture[f]) + BumpLeft(bump[f])

\* And those of an API call.
CallLeft(c) ==
  CASE call[c] = "idle" -> 4 [] call[c] \in {"insert", "stop"} -> 3 [] call[c] \in {"activate", "get", "opening"} -> 2
    [] call[c] \in {"end", "delete", "clear"} -> 1 [] OTHER -> 0

\* The tasks of a flow are taken on by their own steps, a call by its own, and no other step takes them back.
CapturesDescend ==
  /\ \A f \in Captured : FlowLeft(f)' <= FlowLeft(f) /\ (CaptureStep(f) \/ BumpStep(f) => FlowLeft(f)' < FlowLeft(f))
  /\ \A c \in Calls : CallLeft(c)' <= CallLeft(c) /\ (CallStep(c) => CallLeft(c)' < CallLeft(c))

\* A step of the tasks of a flow.
LEMMA FlowDescends ==
  ASSUME CountInv, NEW f \in Captured, CaptureStep(f) \/ BumpStep(f)
  PROVE  FlowLeft(f)' < FlowLeft(f) /\ UNCHANGED call /\ \A g \in Captured \ {f} : FlowLeft(g)' = FlowLeft(g)
<1> DEFINE cs == {"spawned", "discarded", "push", "save", "show", "shown"}
           bs == {"none", "queued", "write", "done"}
<1>1. capture \in [Captured -> cs] /\ bump \in [Captured -> bs]
  BY DEF CountInv, Types
<1>2. capture[f] \in {"spawned", "push", "save"} => bump[f] = "none"
  BY DEF CountInv, Attributed
<1>3. UNCHANGED call
  BY DEF CaptureStep, BumpStep, Attribute, TakeStore, SaveFlow, Show, ReadRow, WriteCount, captureFrame, callVars
<1>4. \E a, b : /\ capture' = [capture EXCEPT ![f] = a] /\ bump' = [bump EXCEPT ![f] = b]
                /\ \/ capture[f] = "spawned" /\ a \in {"discarded", "push"} /\ b = bump[f]
                   \/ capture[f] = "push" /\ a \in {"save", "show"} /\ b = bump[f]
                   \/ capture[f] = "save" /\ a = "show" /\ b = "queued"
                   \/ capture[f] = "show" /\ a = "shown" /\ b = bump[f]
                   \/ a = capture[f] /\ bump[f] = "queued" /\ b \in {"write", "done"}
                   \/ a = capture[f] /\ bump[f] = "write" /\ b = "done"
  <2>1. capture = [capture EXCEPT ![f] = capture[f]] /\ bump = [bump EXCEPT ![f] = bump[f]]
    BY <1>1
  <2>2. CASE Attribute(f)
    BY <2>1, <2>2 DEF Attribute, Captures
  <2>3. CASE TakeStore(f)
    BY <2>1, <2>3 DEF TakeStore, Captures
  <2>4. CASE SaveFlow(f)
    BY <2>1, <2>4 DEF SaveFlow, Captures
  <2>5. CASE Show(f)
    BY <2>1, <2>5 DEF Show, Captures
  <2>6. CASE ReadRow(f)
    BY <2>1, <2>6 DEF ReadRow
  <2>7. CASE WriteCount(f)
    BY <2>1, <2>7 DEF WriteCount
  <2> QED
    BY <2>2, <2>3, <2>4, <2>5, <2>6, <2>7 DEF CaptureStep, BumpStep
<1>5. PICK a, b : /\ capture' = [capture EXCEPT ![f] = a] /\ bump' = [bump EXCEPT ![f] = b]
                  /\ \/ capture[f] = "spawned" /\ a \in {"discarded", "push"} /\ b = bump[f]
                     \/ capture[f] = "push" /\ a \in {"save", "show"} /\ b = bump[f]
                     \/ capture[f] = "save" /\ a = "show" /\ b = "queued"
                     \/ capture[f] = "show" /\ a = "shown" /\ b = bump[f]
                     \/ a = capture[f] /\ bump[f] = "queued" /\ b \in {"write", "done"}
                     \/ a = capture[f] /\ bump[f] = "write" /\ b = "done"
  BY <1>4
<1>6. capture'[f] = a /\ bump'[f] = b /\ \A g \in Captured \ {f} : capture'[g] = capture[g] /\ bump'[g] = bump[g]
  BY <1>1, <1>5
<1>7. CaptureLeft(a) + BumpLeft(b) < CaptureLeft(capture[f]) + BumpLeft(bump[f])
  BY <1>1, <1>2, <1>5 DEF CaptureLeft, BumpLeft
<1> QED
  BY <1>3, <1>6, <1>7 DEF FlowLeft

\* A step of a call.
LEMMA CallDescends ==
  ASSUME CountInv, NEW c \in Calls, CallStep(c)
  PROVE  CallLeft(c)' < CallLeft(c) /\ \A d \in Calls \ {c} : CallLeft(d)' = CallLeft(d)
<1>1. \E b : /\ call' = [call EXCEPT ![c] = b]
             /\ \/ call[c] = "idle" /\ b \in {"insert", "activate", "stop", "delete", "opening", "done"}
                \/ call[c] = "insert" /\ b = "activate"
                \/ call[c] = "stop" /\ b \in {"get", "done"}
                \/ call[c] = "get" /\ b \in {"end", "done"}
                \/ call[c] = "opening" /\ b \in {"clear", "done"}
                \/ call[c] \in {"activate", "end", "delete", "clear"} /\ b = "done"
  <2>1. CASE StartCalled(c)
    BY <2>1 DEF StartCalled, OpenStore, Called, Goes
  <2>2. CASE StopCalled(c)
    BY <2>2 DEF StopCalled, Called, Goes
  <2>3. CASE DeleteCalled(c)
    BY <2>3 DEF DeleteCalled, OpenStore, Called, Goes
  <2>4. CASE ClearCalled(c)
    BY <2>4 DEF ClearCalled, Called, Goes
  <2>5. CASE Insert(c) \/ Activate(c)
    BY <2>5 DEF Insert, Activate, Goes
  <2>6. CASE StopOpens(c)
    BY <2>6 DEF StopOpens, OpenStore, Goes
  <2>7. CASE StopReads(c)
    BY <2>7 DEF StopReads, Goes
  <2>8. CASE StopSaves(c) \/ Delete(c)
    BY <2>8 DEF StopSaves, Delete, Goes
  <2>9. CASE ClearOpens(c)
    BY <2>9 DEF ClearOpens, OpenStore, Goes
  <2>10. CASE ClearFlows(c)
    BY <2>10 DEF ClearFlows, Goes
  <2> QED
    BY <2>1, <2>2, <2>3, <2>4, <2>5, <2>6, <2>7, <2>8, <2>9, <2>10 DEF CallStep
<1>2. PICK b : /\ call' = [call EXCEPT ![c] = b]
               /\ \/ call[c] = "idle" /\ b \in {"insert", "activate", "stop", "delete", "opening", "done"}
                  \/ call[c] = "insert" /\ b = "activate"
                  \/ call[c] = "stop" /\ b \in {"get", "done"}
                  \/ call[c] = "get" /\ b \in {"end", "done"}
                  \/ call[c] = "opening" /\ b \in {"clear", "done"}
                  \/ call[c] \in {"activate", "end", "delete", "clear"} /\ b = "done"
  BY <1>1
<1>3. call'[c] = b /\ \A d \in Calls \ {c} : call'[d] = call[d]
  BY <1>2 DEF CountInv, Types
<1> QED
  BY <1>2, <1>3 DEF CallLeft

\* Every flow is shown or discarded, and counted or given up, by the steps of its own tasks (CapturesEnd): they
\* are few, and no API call, store or other flow sends them back. Nor does anything send an API call back.
THEOREM CapturesRunOut ==
  SessSpec => /\ []((\A f \in Captured : FlowLeft(f) \in 0..6) /\ (\A c \in Calls : CallLeft(c) \in 0..4))
          /\ [][CapturesDescend]_sessVars
<1>1. CountInv => (\A f \in Captured : FlowLeft(f) \in 0..6) /\ (\A c \in Calls : CallLeft(c) \in 0..4)
  <2> SUFFICES ASSUME CountInv, NEW f \in Captured PROVE FlowLeft(f) \in 0..6 /\ \A c \in Calls : CallLeft(c) \in 0..4
    BY DEF CallLeft
  <2>1. capture[f] \in {"spawned", "push", "save"} => bump[f] = "none"
    BY DEF CountInv, Attributed
  <2>2. FlowLeft(f) \in 0..6
    BY <2>1 DEF FlowLeft, CaptureLeft, BumpLeft
  <2>3. \A c \in Calls : CallLeft(c) \in 0..4
    BY DEF CallLeft
  <2> QED
    BY <2>2, <2>3
<1>2. CountInv /\ CountInv' /\ [SessNext]_sessVars => [CapturesDescend]_sessVars
  <2> SUFFICES ASSUME CountInv, CountInv', SessNext PROVE CapturesDescend
    OBVIOUS
  <2>1. /\ \A f \in Captured : FlowLeft(f) \in 0..8 /\ FlowLeft(f)' \in 0..8
        /\ \A c \in Calls : CallLeft(c) \in 0..4 /\ CallLeft(c)' \in 0..4
    BY DEF FlowLeft, CaptureLeft, BumpLeft, CallLeft
  <2>2. ASSUME NEW f \in Captured, CaptureStep(f) \/ BumpStep(f)
        PROVE  FlowLeft(f)' < FlowLeft(f)
    BY <2>2, FlowDescends
  <2>3. ASSUME NEW c \in Calls, CallStep(c)
        PROVE  CallLeft(c)' < CallLeft(c)
    BY <2>3, CallDescends
  <2>4. (\A f \in Captured : FlowLeft(f)' <= FlowLeft(f)) /\ (\A c \in Calls : CallLeft(c)' <= CallLeft(c))
    <3>1. ASSUME NEW f \in Captured, CaptureStep(f) \/ BumpStep(f)
          PROVE  (\A g \in Captured : FlowLeft(g)' <= FlowLeft(g)) /\ (\A c \in Calls : CallLeft(c)' <= CallLeft(c))
      <4>1. FlowLeft(f)' < FlowLeft(f) /\ UNCHANGED call /\ \A g \in Captured \ {f} : FlowLeft(g)' = FlowLeft(g)
        BY <3>1, FlowDescends
      <4>2. \A c \in Calls : CallLeft(c)' = CallLeft(c)
        BY <4>1 DEF CallLeft
      <4> HIDE DEF FlowLeft, CallLeft
      <4> QED
        BY <2>1, <4>1, <4>2
    <3>2. ASSUME NEW c \in Calls, CallStep(c)
          PROVE  (\A g \in Captured : FlowLeft(g)' <= FlowLeft(g)) /\ (\A d \in Calls : CallLeft(d)' <= CallLeft(d))
      <4>1. CallLeft(c)' < CallLeft(c) /\ \A d \in Calls \ {c} : CallLeft(d)' = CallLeft(d)
        BY <3>2, CallDescends
      <4>2. \A g \in Captured : FlowLeft(g)' = FlowLeft(g)
        BY <3>2, CallFrame DEF FlowLeft
      <4> QED
        BY <2>1, <4>1, <4>2
    <3>3. ASSUME OtherStep
          PROVE  (\A g \in Captured : FlowLeft(g)' <= FlowLeft(g)) /\ (\A d \in Calls : CallLeft(d)' <= CallLeft(d))
      <4>1. UNCHANGED <<capture, bump, call>>
        BY <3>3 DEF OtherStep, flowVars, callVars
      <4>2. (\A g \in Captured : FlowLeft(g)' = FlowLeft(g)) /\ (\A d \in Calls : CallLeft(d)' = CallLeft(d))
        BY <4>1 DEF FlowLeft, CallLeft
      <4> QED
        BY <2>1, <4>2
    <3> QED
      BY <3>1, <3>2, <3>3 DEF SessNext
  <2> QED
    BY <2>2, <2>3, <2>4 DEF CapturesDescend
<1> QED
  BY <1>1, <1>2, CountInvariant, PTL DEF SessSpec
=============================================================================
