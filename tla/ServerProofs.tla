----------------------------- MODULE ServerProofs -----------------------------
(***************************************************************************)
(* Theorems about ProxyServer, for every set of connections and every      *)
(* number of permits.                                                      *)
(***************************************************************************)
EXTENDS ProxyServer, FiniteSetTheorems, TLAPS

ConnStates == {"client", "accepted", "head", "tunnel", "serving", "exchange", "reply", "closed"}

\* The flag goes down with stop's first steps, and once stop has taken the
\* handles the accept loop can push one more: it then finds the flag down.
LatePush ==
  /\ running <=> stop \in {"idle", "flag"}
  /\ stop \notin {"drain", "done"} => handles = {}
  /\ stop \in {"drain", "done"} =>
       /\ connections \subseteq {cur}
       /\ accept \in {"accept", "permit", "push"} => connections = {}

\* The connection the accept loop has in hand has no handle anywhere yet.
NewUntracked ==
  /\ accept = "permit" => conn[cur] = "accepted"
  /\ accept = "push" => /\ cur \notin connections \cup handles
                         /\ conn[cur] \notin {"client", "accepted"}
  /\ \A c \in connections \cup handles : conn[c] \notin {"client", "accepted"}

\* The inductive invariant.
ServerInv == /\ ServerTypeOK /\ TasksTracked /\ DrainsExchanges /\ LatePush /\ NewUntracked
             /\ IsFiniteSet(Live) /\ PermitsKept

\* A step of a connection's task, its client or the user.
ConnAction(c) == \/ ConnStep(c) \/ Decide(c) \/ Cut(c) \/ Hold(c)
                 \/ BeginExchange(c) \/ Answer(c) \/ Replied(c)

Frame == UNCHANGED <<acceptVars, stopVars>>

\* Such a step leaves the accept loop and stop alone, and moves one running task
\* to a state that is not an earlier one of the accept loop.
LEMMA ConnMoves ==
  ASSUME ServerTypeOK, NEW c \in Conns, ConnAction(c)
  PROVE  /\ Frame
         /\ conn' = conn \/ \E s \in ConnStates \ {"client", "accepted", "head"} :
                              conn' = [conn EXCEPT ![c] = s] /\ Alive(c)
         /\ watch' \in [Conns -> {"open", "deaf", "heard"}]
         /\ pending' \subseteq Conns /\ paused' \subseteq Conns
<1> USE DEF ServerTypeOK, Frame, ConnStates, Alive, Busy, Move, CloseConn, Conns
<1>1. CASE ReadHead(c)
  BY <1>1 DEF ReadHead, gateVars
<1>2. CASE HeadFails(c)
  BY <1>2 DEF HeadFails, gateVars
<1>3. CASE Release(c)
  BY <1>3 DEF Release, Leave
<1>4. CASE HearSignal(c)
  BY <1>4 DEF HearSignal, gateVars
<1>5. CASE Decide(c)
  BY <1>5 DEF Decide, Settle, connVars
<1>6. CASE Cut(c)
  BY <1>6 DEF Cut, Desert, gateVars
<1>7. CASE Hold(c)
  BY <1>7 DEF Hold, Pause, connVars
<1>8. CASE BeginExchange(c)
  BY <1>8 DEF BeginExchange, gateVars
<1>9. CASE Answer(c)
  BY <1>9 DEF Answer, gateVars
<1>10. CASE Replied(c)
  BY <1>10 DEF Replied, gateVars
<1>11. QED BY <1>1, <1>2, <1>3, <1>4, <1>5, <1>6, <1>7, <1>8, <1>9, <1>10
           DEF ConnAction, ConnStep

\* A set of tasks that only loses members needs no more permits.
LEMMA FewerTasks ==
  ASSUME IsFiniteSet(Live), PermitsKept, Live' \subseteq Live
  PROVE  IsFiniteSet(Live)' /\ PermitsKept'
<1>1. IsFiniteSet(Live') /\ Cardinality(Live') <= Cardinality(Live)
  BY FS_Subset
<1>2. Cardinality(Live) \in Nat /\ Cardinality(Live') \in Nat
  BY <1>1, FS_CardinalityType
<1>3. QED BY <1>1, <1>2, ServerAssumption DEF PermitsKept

\* With a permit to spare there is room for one more.
LEMMA OneMoreTask ==
  ASSUME NEW S, NEW x, IsFiniteSet(S), Cardinality(S) < MaxConnections
  PROVE  IsFiniteSet(S \cup {x}) /\ Cardinality(S \cup {x}) <= MaxConnections
<1>1. Cardinality(S) \in Nat
  BY FS_CardinalityType
<1>2. Cardinality(S \cup {x}) = Cardinality(S) \/ Cardinality(S \cup {x}) = Cardinality(S) + 1
  BY FS_AddElement
<1>3. IsFiniteSet(S \cup {x})
  BY FS_AddElement
<1>4. QED BY <1>1, <1>2, <1>3, ServerAssumption

\* Connections close, are paused and go on without breaking the exchange
\* discipline of the drain.
LEMMA DrainKeeps ==
  ASSUME ServerTypeOK, DrainsExchanges, NEW c \in Conns, ConnAction(c)
  PROVE  DrainsExchanges'
<1> USE DEF ServerTypeOK, DrainsExchanges, Alive, Busy, Move, CloseConn, Conns
<1>1. CASE ReadHead(c)
  BY <1>1 DEF ReadHead, gateVars
<1>2. CASE HeadFails(c)
  BY <1>2 DEF HeadFails, gateVars
<1>3. CASE Release(c)
  BY <1>3 DEF Release, Leave
<1>4. CASE HearSignal(c)
  BY <1>4 DEF HearSignal, gateVars
<1>5. CASE Decide(c)
  BY <1>5 DEF Decide, Settle, connVars
<1>6. CASE Cut(c)
  BY <1>6 DEF Cut, Desert, gateVars
<1>7. CASE Hold(c)
  BY <1>7 DEF Hold, Pause, connVars
<1>8. CASE BeginExchange(c)
  BY <1>8 DEF BeginExchange, gateVars
<1>9. CASE Answer(c)
  BY <1>9 DEF Answer, gateVars
<1>10. CASE Replied(c)
  BY <1>10 DEF Replied, gateVars
<1>11. QED BY <1>1, <1>2, <1>3, <1>4, <1>5, <1>6, <1>7, <1>8, <1>9, <1>10
           DEF ConnAction, ConnStep

\* Connection steps keep the invariant: they add no task.
LEMMA ConnKeeps ==
  ASSUME ServerInv, NEW c \in Conns, ConnAction(c)
  PROVE  ServerInv'
<1>1. /\ Frame /\ ServerTypeOK' /\ Live' \subseteq Live
      /\ \A d \in Conns : conn'[d] \in {"client", "accepted"} <=> conn[d] \in {"client", "accepted"}
      /\ \A d \in Conns : conn'[d] = "accepted" <=> conn[d] = "accepted"
  BY ConnMoves DEF ServerInv, ServerTypeOK, Frame, acceptVars, stopVars, ConnStates, Live,
                   Alive, Busy
<1>2. TasksTracked' /\ LatePush' /\ NewUntracked'
  BY <1>1, ServerAssumption DEF ServerInv, ServerTypeOK, TasksTracked, LatePush, NewUntracked,
     Frame, acceptVars, stopVars, Live
<1>3. DrainsExchanges'
  BY DrainKeeps DEF ServerInv
<1>4. QED BY <1>1, <1>2, <1>3, FewerTasks DEF ServerInv

\* The accept loop adds one task, for which it holds a permit and a handle.
LEMMA AcceptKeeps ==
  ASSUME ServerInv, AcceptStep \/ AcceptFails \/ \E c \in Conns : Accept(c)
  PROVE  ServerInv'
<1> USE DEF ServerInv, ServerTypeOK, DrainsExchanges, TasksTracked, LatePush, NewUntracked,
            acceptFrame, gateVars, stopVars, Live, Alive, Busy, Move
<1>1. CASE CheckRunning
  <2>1. Live' \subseteq Live
    BY <1>1 DEF CheckRunning
  <2>2. QED BY <1>1, <2>1, FewerTasks DEF CheckRunning
<1>2. ASSUME NEW c \in Conns, Accept(c)
      PROVE  ServerInv'
  <2>1. Live' \subseteq Live
    BY <1>2 DEF Accept
  <2>2. ServerTypeOK' /\ DrainsExchanges'
    <3>1. c # NoConn /\ cur' = c /\ accept' = "permit" /\ UNCHANGED acceptFrame
          /\ connections' = connections /\ conn[c] = "client" /\ conn' = [conn EXCEPT ![c] = "accepted"]
      BY <1>2, ServerAssumption DEF Accept, Conns
    <3>2. ServerTypeOK'
      BY <3>1
    <3>3. \A d \in Conns : Busy(d) => Busy(d)'
      BY <3>1
    <3>4. DrainsExchanges'
      BY <3>1, <3>3
    <3>5. QED BY <3>2, <3>4
  <2>3. LatePush'
    BY <1>2 DEF Accept
  <2>4. NewUntracked'
    BY <1>2 DEF Accept
  <2>5. TasksTracked'
    BY <1>2 DEF Accept
  <2>6. QED BY <2>1, <2>2, <2>3, <2>4, <2>5, FewerTasks
<1>3. CASE Spawn
  <2>1. cur \in Conns /\ conn' = [conn EXCEPT ![cur] = "head"]
    BY <1>3, ServerAssumption DEF Spawn
  <2>2. Live' = Live \cup {cur}
    BY <2>1
  <2>3. Cardinality(Live) < MaxConnections
    BY <1>3 DEF Spawn
  <2>4. IsFiniteSet(Live') /\ Cardinality(Live') <= MaxConnections
    <3> HIDE DEF Live
    <3>1. QED BY <2>2, <2>3, OneMoreTask
  <2>5. ServerTypeOK' /\ LatePush' /\ NewUntracked'
    BY <1>3, <2>1 DEF Spawn
  <2>6. DrainsExchanges'
    BY <1>3, <2>1 DEF Spawn
  <2>7. TasksTracked'
    BY <1>3, <2>1 DEF Spawn
  <2>8. QED BY <2>4, <2>5, <2>6, <2>7 DEF PermitsKept
<1>4. CASE PushHandle
  <2>1. Live' \subseteq Live
    BY <1>4 DEF PushHandle
  <2>2. cur \notin handles
    BY <1>4 DEF PushHandle
  <2>3. ServerTypeOK' /\ DrainsExchanges'
    BY <1>4, <2>2, ServerAssumption DEF PushHandle
  <2>4. LatePush'
    BY <1>4 DEF PushHandle
  <2>5. NewUntracked'
    <3>1. conn[cur] \notin {"client", "accepted"}
      BY <1>4, ServerAssumption DEF PushHandle
    <3>2. QED BY <1>4, <3>1 DEF PushHandle
  <2>6. TasksTracked'
    BY <1>4 DEF PushHandle
  <2>7. QED BY <2>1, <2>3, <2>4, <2>5, <2>6, FewerTasks
<1>5. CASE AcceptAborted
  <2>1. Live' \subseteq Live
    BY <1>5 DEF AcceptAborted
  <2>2. ServerTypeOK' /\ DrainsExchanges' /\ LatePush' /\ NewUntracked'
    BY <1>5 DEF AcceptAborted
  <2>3. TasksTracked'
    BY <1>5, ServerAssumption DEF AcceptAborted
  <2>4. QED BY <2>1, <2>2, <2>3, FewerTasks
<1>6. CASE AcceptFails
  <2>1. Live' \subseteq Live
    BY <1>6 DEF AcceptFails
  <2>2. ServerTypeOK' /\ DrainsExchanges' /\ LatePush' /\ NewUntracked'
    BY <1>6 DEF AcceptFails
  <2>3. TasksTracked'
    BY <1>6 DEF AcceptFails
  <2>4. QED BY <2>1, <2>2, <2>3, FewerTasks
<1>7. QED BY <1>1, <1>2, <1>3, <1>4, <1>5, <1>6 DEF AcceptStep

\* stop moves handles and closes no connection.
LEMMA StopKeeps ==
  ASSUME ServerInv, StopClears \/ StopStep
  PROVE  ServerInv'
<1> USE DEF ServerInv, ServerTypeOK, DrainsExchanges, TasksTracked, LatePush, NewUntracked,
            stopFrame, gateVars, connVars, acceptVars, Live, Alive, Busy
<1>1. Live' = Live /\ UNCHANGED conn
  BY DEF StopClears, StopStep, StopAccepting, StopAborts, StopSignals, StopTakes, StopDrained
<1>2. CASE StopClears
  BY <1>1, <1>2, FewerTasks DEF StopClears, Settle
<1>3. CASE StopAccepting \/ StopAborts \/ StopSignals
  <2>1. /\ UNCHANGED <<gateVars, accept, cur, connVars, connections, handles>>
        /\ stop' \in {"abort", "signal", "take"} /\ stop \in {"flag", "abort", "signal"}
        /\ running' = FALSE
    BY <1>3, Zenon DEF StopAccepting, StopAborts, StopSignals
  <2>2. QED BY <1>1, <2>1, FewerTasks
<1>4. CASE StopTakes
  <2>1. ServerTypeOK' /\ DrainsExchanges'
    BY <1>4 DEF StopTakes
  <2>2. LatePush'
    BY <1>4 DEF StopTakes
  <2>3. connections' \cup handles' \subseteq connections \cup handles
    BY <1>4 DEF StopTakes
  <2>4. NewUntracked'
    BY <1>1, <1>4, <2>3 DEF StopTakes
  <2>5. handles = {}
    BY <1>4 DEF StopTakes
  <2>6. TasksTracked'
    BY <1>1, <1>4, <2>5 DEF StopTakes
  <2>7. QED BY <1>1, <2>1, <2>2, <2>4, <2>6, FewerTasks
<1>5. CASE StopDrained
  BY <1>1, <1>5, FewerTasks DEF StopDrained
<1>6. QED BY <1>2, <1>3, <1>4, <1>5 DEF StopStep

\* The invariant holds in every reachable state.
LEMMA ServerInvariant == SrvSpec => []ServerInv
<1>1. SrvInit => ServerInv
  <2> SUFFICES ASSUME SrvInit PROVE ServerInv
    OBVIOUS
  <2>1. Live = {}
    BY DEF SrvInit, Live, Alive, Busy
  <2>2. IsFiniteSet(Live) /\ PermitsKept
    BY <2>1, FS_EmptySet, ServerAssumption DEF PermitsKept
  <2>3. QED BY <2>1, <2>2 DEF SrvInit, GateInit, ServerInv, ServerTypeOK, TasksTracked,
               DrainsExchanges, LatePush, NewUntracked
<1>2. ServerInv /\ [SrvNext]_srvVars => ServerInv'
  <2> SUFFICES ASSUME ServerInv, [SrvNext]_srvVars PROVE ServerInv'
    OBVIOUS
  <2>1. ASSUME NEW c \in Conns, ConnAction(c)
        PROVE  ServerInv'
    BY <2>1, ConnKeeps
  <2>2. CASE AcceptStep \/ AcceptFails \/ \E c \in Conns : Accept(c)
    BY <2>2, AcceptKeeps
  <2>3. CASE StopClears \/ StopStep
    BY <2>3, StopKeeps
  <2>4. CASE UNCHANGED srvVars
    BY <2>4 DEF srvVars, gateVars, acceptVars, connVars, stopVars, ServerInv, ServerTypeOK,
                TasksTracked, DrainsExchanges, LatePush, NewUntracked, PermitsKept, Live, Alive, Busy
  <2>5. QED BY <2>1, <2>2, <2>3, <2>4 DEF SrvNext, ConnAction
<1>3. QED BY <1>1, <1>2, PTL DEF SrvSpec

\* The variables keep their types and a join handle has one owner.
THEOREM ServerTypeCorrect == SrvSpec => []ServerTypeOK
BY ServerInvariant, PTL DEF ServerInv

\* No connection task runs without a handle, save the one being taken in when
\* the accept loop was aborted.
THEOREM TasksAreTracked == SrvSpec => []TasksTracked
BY ServerInvariant, PTL DEF ServerInv

\* The semaphore bounds the connection tasks, whatever is aborted or cut.
THEOREM PermitsBound == SrvSpec => []PermitsKept
BY ServerInvariant, PTL DEF ServerInv

\* At most the connection taken in last escapes stop.
THEOREM OneEscapes == SrvSpec => []OnlyLastEscapes
<1>1. ServerInv => OnlyLastEscapes
  BY DEF ServerInv, TasksTracked, LatePush, OnlyLastEscapes, Live
<1>2. QED BY <1>1, ServerInvariant, PTL

\* What hears the shutdown signal goes on only for the exchange under way.
THEOREM DrainOnlyExchanges == SrvSpec => []DrainsExchanges
BY ServerInvariant, PTL DEF ServerInv

-------------------------------------------------------------------------------
(* stop comes to its end *)

\* The steps of stop still to come, and those of the accept loop until it next finds out whether it runs.
StopLeft   == [idle |-> 6, flag |-> 5, abort |-> 4, signal |-> 3, take |-> 2, drain |-> 1, done |-> 0][stop]
AcceptLeft == [accept |-> 4, permit |-> 3, push |-> 2, check |-> 1, ended |-> 0, aborted |-> 0][accept]

\* Every step of stop takes it on and nothing sets it back. With the flag down the accept loop takes in one connection
\* at most: its steps are used up too. A connection that has ended stays so, and one in the hands of stop leaves them
\* only when it has ended.
StopDescends ==
  /\ StopClears \/ StopStep => StopLeft' < StopLeft
  /\ StopLeft' <= StopLeft
  /\ ~running => /\ ~running'
                 /\ AcceptStep \/ AcceptFails \/ (\E c \in Conns : Accept(c)) => AcceptLeft' < AcceptLeft
                 /\ AcceptLeft' <= AcceptLeft
  /\ \A c \in Conns : /\ conn[c] = "closed" => conn'[c] = "closed"
                      /\ c \in handles => c \in handles' \/ ~Alive(c)'

\* The accept loop goes towards its end but for the look at a flag still up, and opens no connection again.
LEMMA AcceptDescends ==
  ASSUME ServerInv, AcceptStep \/ AcceptFails \/ \E c \in Conns : Accept(c)
  PROVE  /\ UNCHANGED <<stopVars, running>>
         /\ ~running => AcceptLeft' < AcceptLeft
         /\ \A c \in Conns : conn[c] = "closed" => conn'[c] = "closed"
<1>1. UNCHANGED <<stopVars, running>>
  BY DEF AcceptStep, CheckRunning, Spawn, PushHandle, AcceptAborted, AcceptFails, Accept, acceptFrame
<1>2. \/ accept = "check" /\ accept' = IF running THEN "accept" ELSE "ended"
      \/ accept = "accept" /\ accept' = "permit"
      \/ accept = "permit" /\ accept' = "push"
      \/ accept = "push" /\ accept' = "check"
      \/ accept \in {"accept", "permit", "push"} /\ accept' = "aborted"
      \/ accept = "accept" /\ accept' = "ended"
  BY DEF AcceptStep, CheckRunning, Spawn, PushHandle, AcceptAborted, AcceptFails, Accept
<1>3. ~running => AcceptLeft' < AcceptLeft
  BY <1>2 DEF AcceptLeft
<1>4. ASSUME NEW c \in Conns, conn[c] = "closed" PROVE conn'[c] = "closed"
  <2>1. conn \in [Conns -> ConnStates] /\ (accept = "permit" => conn[cur] = "accepted")
    BY DEF ServerInv, ServerTypeOK, NewUntracked, ConnStates
  <2>2. CASE CheckRunning \/ PushHandle \/ AcceptFails
    BY <1>4, <2>2 DEF CheckRunning, PushHandle, AcceptFails
  <2>3. CASE Spawn
    BY <1>4, <2>1, <2>3 DEF Spawn, Move
  <2>4. CASE AcceptAborted
    BY <1>4, <2>1, <2>4 DEF AcceptAborted
  <2>5. CASE \E d \in Conns : Accept(d)
    BY <1>4, <2>1, <2>5 DEF Accept, Move
  <2> QED
    BY <2>2, <2>3, <2>4, <2>5 DEF AcceptStep
<1> QED
  BY <1>1, <1>3, <1>4

\* stop ends whatever its clients and the user do (StopReturns, server.rs:424-446), within six steps of its own; once the
\* flag is down the accept loop has four steps at most, and what stop was handed is ended or still in its hands.
THEOREM StopRunsOut ==
  SrvSpec => [](StopLeft \in 0..6 /\ AcceptLeft \in 0..4) /\ [][StopDescends]_srvVars
<1>1. ServerInv => StopLeft \in 0..6 /\ AcceptLeft \in 0..4
  BY DEF ServerInv, ServerTypeOK, StopLeft, AcceptLeft
<1>2. ServerInv /\ [SrvNext]_srvVars => [StopDescends]_srvVars
  <2> SUFFICES ASSUME ServerInv, SrvNext PROVE StopDescends
    OBVIOUS
  <2>1. StopLeft \in 0..6 /\ AcceptLeft \in 0..4
    BY <1>1
  <2>2. ASSUME NEW c \in Conns, ConnAction(c)
        PROVE  /\ UNCHANGED <<stop, running, accept, handles, connections>>
               /\ \A d \in Conns : conn[d] = "closed" => conn'[d] = "closed"
    <3>1. Frame /\ (conn' = conn \/ \E s \in ConnStates \ {"client", "accepted", "head"} :
                                      conn' = [conn EXCEPT ![c] = s] /\ Alive(c))
      BY <2>2, ConnMoves DEF ServerInv
    <3>2. \A d \in Conns : conn[d] = "closed" => conn'[d] = "closed"
      BY <3>1 DEF ServerInv, ServerTypeOK, Alive, Busy
    <3> QED
      BY <3>1, <3>2 DEF Frame, acceptVars, stopVars
  <2>3. CASE AcceptStep \/ AcceptFails \/ \E c \in Conns : Accept(c)
    <3>1. UNCHANGED <<stopVars, running>>
      BY <2>3, AcceptDescends
    <3>2. ~(StopClears \/ StopStep)
      BY <3>1 DEF stopVars, StopClears, StopStep, StopAccepting, StopAborts, StopSignals, StopTakes, StopDrained
    <3>3. StopLeft' = StopLeft
      BY <3>1 DEF stopVars, StopLeft
    <3>4. ~running => AcceptLeft' < AcceptLeft
      BY <2>3, AcceptDescends
    <3>5. ~running => AcceptLeft' <= AcceptLeft
      BY <2>1, <2>3, <3>4 DEF AcceptLeft, AcceptStep, CheckRunning, Spawn, PushHandle, AcceptAborted, AcceptFails, Accept
    <3>6. \A c \in Conns : conn[c] = "closed" => conn'[c] = "closed"
      BY <2>3, AcceptDescends
    <3> QED
      BY <2>1, <3>1, <3>2, <3>3, <3>4, <3>5, <3>6 DEF StopDescends, stopVars
  <2>4. CASE StopClears \/ StopStep
    <3>1. UNCHANGED <<accept, conn>> /\ (running' = running \/ ~running')
      BY <2>4 DEF StopClears, StopStep, StopAccepting, StopAborts, StopSignals, StopTakes, StopDrained,
         stopFrame, acceptVars, connVars
    <3>2. \/ stop = "idle" /\ stop' = "flag"
          \/ stop = "flag" /\ stop' = "abort"
          \/ stop = "abort" /\ stop' = "signal"
          \/ stop = "signal" /\ stop' = "take"
          \/ stop = "take" /\ stop' = "drain"
          \/ stop = "drain" /\ stop' = "done"
      BY <2>4 DEF StopClears, StopStep, StopAccepting, StopAborts, StopSignals, StopTakes, StopDrained
    <3>3. StopLeft' < StopLeft /\ StopLeft' <= StopLeft
      BY <3>2 DEF StopLeft
    <3>4. ~AcceptStep /\ ~AcceptFails /\ ~\E c \in Conns : Accept(c)
      BY <3>1 DEF AcceptStep, CheckRunning, Spawn, PushHandle, AcceptAborted, AcceptFails, Accept
    <3>5. AcceptLeft' <= AcceptLeft
      BY <2>1, <3>1 DEF AcceptLeft
    <3>6. \A c \in handles : c \in handles' \/ ~Alive(c)'
      <4>1. stop = "take" => handles = {}
        BY DEF ServerInv, LatePush
      <4>2. handles' = handles \/ handles = {} \/ handles' = handles \cap Live
        BY <2>4, <4>1 DEF StopClears, StopStep, StopAccepting, StopAborts, StopSignals, StopTakes, StopDrained
      <4> QED
        BY <3>1, <4>2 DEF ServerInv, ServerTypeOK, Live, Alive, Busy
    <3> QED
      BY <3>1, <3>3, <3>4, <3>5, <3>6 DEF StopDescends
  <2>5. CASE \E c \in Conns : ConnAction(c)
    <3>1. UNCHANGED <<stop, running, accept, handles>>
          /\ \A d \in Conns : conn[d] = "closed" => conn'[d] = "closed"
      BY <2>2, <2>5
    <3>2. ~(StopClears \/ StopStep)
      BY <3>1 DEF StopClears, StopStep, StopAccepting, StopAborts, StopSignals, StopTakes, StopDrained
    <3>3. ~AcceptStep /\ ~AcceptFails /\ ~\E c \in Conns : Accept(c)
      BY <3>1 DEF AcceptStep, CheckRunning, Spawn, PushHandle, AcceptAborted, AcceptFails, Accept
    <3>4. StopLeft' <= StopLeft /\ AcceptLeft' <= AcceptLeft
      BY <2>1, <3>1 DEF StopLeft, AcceptLeft
    <3> QED
      BY <3>1, <3>2, <3>3, <3>4 DEF StopDescends
  <2> QED
    BY <2>3, <2>4, <2>5 DEF SrvNext, ConnAction
<1> QED
  BY <1>1, <1>2, ServerInvariant, PTL DEF SrvSpec
=============================================================================
