------------------------------ MODULE ProxyServer ------------------------------
(***************************************************************************)
(* crates/proxy/src/server.rs: the accept loop, the task of each           *)
(* connection and stop(), over the gate of the intercept controller.  A    *)
(* connection carries exchanges one after the other and has at most one    *)
(* item pending, so connections are the Items of the gate.  What an        *)
(* exchange does with its data is ProxyExchange's subject.                 *)
(***************************************************************************)
EXTENDS InterceptGate, Naturals, FiniteSets

CONSTANTS NoConn,          \* not a connection
          MaxConnections   \* permits of the semaphore

ASSUME ServerAssumption == NoConn \notin Items /\ MaxConnections \in Nat \ {0}

VARIABLES running,     \* the flag accept_loop reads
          accept,      \* the accept loop's next step
          cur,         \* the connection it has taken in last
          connections, \* the join handles kept for stop
          conn,        \* per connection: where its task stands
          watch,       \* per connection: what it knows of the shutdown signal
          handles,     \* what stop took out of connections
          stop         \* stop's next step

acceptVars == <<running, accept, cur, connections>>
connVars   == <<conn, watch>>
stopVars   == <<handles, stop>>
srvVars == <<gateVars, acceptVars, connVars, stopVars>>

Conns    == Items
Busy(c)  == conn[c] \in {"exchange", "reply"}        \* an exchange is under way
Alive(c) == Busy(c) \/ conn[c] \in {"head", "tunnel", "serving"}
Live     == {c \in Conns : Alive(c)}                 \* the tasks that run

aborted   == stop \in {"signal", "take", "drain", "done"}  \* accept task aborted
signalled == stop \in {"take", "drain", "done"}            \* shutdown.send(true) done

SrvInit == /\ GateInit
           /\ running = TRUE /\ accept = "check" /\ cur = NoConn
           /\ connections = {} /\ handles = {} /\ stop = "idle"
           /\ conn = [c \in Conns |-> "client"]
           /\ watch = [c \in Conns |-> "open"]

Move(c, step) == conn' = [conn EXCEPT ![c] = step]

-------------------------------------------------------------------------------
(* accept_loop.  Operators named ...Bug are the definition after them with  *)
(* a plausible slip; SrvNext never uses them.                               *)

acceptFrame == <<gateVars, running, watch, stopVars>>

CheckRunning ==
  /\ accept = "check"
  /\ accept' = IF running THEN "accept" ELSE "ended"
  /\ UNCHANGED <<acceptFrame, cur, connections, conn>>

\* A client connects.
Accept(c) ==
  /\ accept = "accept" /\ conn[c] = "client"
  /\ accept' = "permit" /\ cur' = c
  /\ Move(c, "accepted")
  /\ UNCHANGED <<acceptFrame, connections>>

\* accept() answers an error (no file descriptor left, for one) and the loop is left: the listener is dropped,
\* the flag stays up, and nobody is told.
AcceptFails ==
  /\ accept = "accept"
  /\ accept' = "ended"
  /\ UNCHANGED <<acceptFrame, cur, connections, conn>>

\* acquire_owned, then spawn: the permit is held until the task ends.
Spawn ==
  /\ accept = "permit" /\ Cardinality(Live) < MaxConnections
  /\ accept' = "push"
  /\ Move(cur, "head")
  /\ UNCHANGED <<acceptFrame, cur, connections>>

\* bug: the handles of earlier connections are replaced
PushHandleBug ==
  /\ accept = "push"
  /\ connections' = {cur}
  /\ accept' = "check"
  /\ UNCHANGED <<acceptFrame, cur, conn>>

PushHandle ==
  /\ accept = "push"
  /\ connections' = connections \cup {cur}
  /\ accept' = "check"
  /\ UNCHANGED <<acceptFrame, cur, conn>>

\* The abort takes effect at an await that has to wait: a socket taken in is
\* closed, a handle not yet pushed is dropped and its task runs on.
AcceptAborted ==
  /\ aborted /\ accept \in {"accept", "permit", "push"}
  /\ accept' = "aborted"
  /\ conn' = IF accept = "permit" THEN [conn EXCEPT ![cur] = "closed"] ELSE conn
  /\ UNCHANGED <<acceptFrame, cur, connections>>

AcceptStep == CheckRunning \/ Spawn \/ PushHandle \/ AcceptAborted

-------------------------------------------------------------------------------
(* handle_connection *)

\* The task ends: what it had heard of the signal matters no more.
CloseConn(c) == Move(c, "closed") /\ watch' = [watch EXCEPT ![c] = "open"]

\* The head is read; only then does the task subscribe to the shutdown signal,
\* and a receiver does not see a value sent before it subscribed.
ReadHead(c) ==
  /\ conn[c] = "head"
  /\ Move(c, "serving") \/ Move(c, "tunnel")
  /\ watch' = [watch EXCEPT ![c] = IF signalled THEN "deaf" ELSE "open"]
  /\ UNCHANGED <<gateVars, acceptVars, stopVars>>

\* READ_HEAD_TIMEOUT, or an error on the socket.
HeadFails(c) ==
  /\ conn[c] = "head"
  /\ CloseConn(c)
  /\ UNCHANGED <<gateVars, acceptVars, stopVars>>

BeginExchange(c) ==
  /\ conn[c] = "serving"
  /\ Move(c, "exchange")
  /\ UNCHANGED <<gateVars, acceptVars, watch, stopVars>>

\* Intercept on: the request, and later the response, is held.
Hold(c) == /\ conn[c] = "exchange" /\ Pause(c)
           /\ UNCHANGED <<acceptVars, connVars, stopVars>>

\* The decision reaches the task: the exchange goes on, or ends if dropped.
Release(c) == /\ conn[c] = "exchange" /\ Leave(c)
              /\ Move(c, "exchange") \/ Move(c, "reply")
              /\ UNCHANGED <<acceptVars, watch, stopVars>>

\* The upstream answered, failed or timed out.
Answer(c) ==
  /\ conn[c] = "exchange" /\ c \notin paused
  /\ Move(c, "reply")
  /\ UNCHANGED <<gateVars, acceptVars, watch, stopVars>>

\* The reply is written: the connection is kept alive or closed.
Replied(c) ==
  /\ conn[c] = "reply"
  /\ CloseConn(c) \/ (watch[c] # "heard" /\ Move(c, "serving") /\ UNCHANGED watch)
  /\ UNCHANGED <<gateVars, acceptVars, stopVars>>

\* shutdown.changed(): a tunnel ends, an idle connection closes, an exchange
\* under way is finished first (graceful_shutdown).
HearSignal(c) ==
  /\ signalled /\ watch[c] = "open" /\ Alive(c) /\ conn[c] # "head"
  /\ IF Busy(c) THEN watch' = [watch EXCEPT ![c] = "heard"] /\ UNCHANGED conn ELSE CloseConn(c)
  /\ UNCHANGED <<gateVars, acceptVars, stopVars>>

\* The client goes away, or the task is aborted: either takes effect where the
\* task awaits something.
Cut(c) ==
  /\ Alive(c)
  /\ CloseConn(c)
  /\ IF c \in paused THEN Desert(c) ELSE UNCHANGED gateVars
  /\ UNCHANGED <<acceptVars, stopVars>>

\* stop aborted the task at the end of the drain.
Killed(c) == stop = "done" /\ c \in handles
Die(c)    == Killed(c) /\ Cut(c)

ConnStep(c) == ReadHead(c) \/ HeadFails(c) \/ Release(c) \/ HearSignal(c)

-------------------------------------------------------------------------------
(* The user, and stop *)

Decide(c) == c \in pending /\ Settle({c}) /\ UNCHANGED <<acceptVars, connVars, stopVars>>

StopClears ==
  /\ stop = "idle" /\ stop' = "flag"
  /\ Settle(pending)
  /\ UNCHANGED <<acceptVars, connVars, handles>>

stopFrame == <<gateVars, accept, cur, connVars>>

\* bug: running stays set
StopAcceptingBug ==
  /\ stop = "flag" /\ stop' = "abort"
  /\ UNCHANGED <<stopFrame, running, connections, handles>>

StopAccepting ==
  /\ stop = "flag" /\ stop' = "abort"
  /\ running' = FALSE
  /\ UNCHANGED <<stopFrame, connections, handles>>

StopAborts  == /\ stop = "abort" /\ stop' = "signal"
               /\ UNCHANGED <<stopFrame, running, connections, handles>>

StopSignals == /\ stop = "signal" /\ stop' = "take"
               /\ UNCHANGED <<stopFrame, running, connections, handles>>

StopTakes ==
  /\ stop = "take" /\ stop' = "drain"
  /\ handles' = connections /\ connections' = {}
  /\ UNCHANGED <<stopFrame, running>>

\* bug: the drain has no deadline
StopDrainedBug ==
  /\ stop = "drain" /\ handles \cap Live = {} /\ stop' = "done"
  /\ handles' = {}
  /\ UNCHANGED <<stopFrame, running, connections>>

\* bug: what is left at the deadline is not aborted
StopDrainedLeakBug ==
  /\ stop = "drain" /\ stop' = "done"
  /\ handles' = {}
  /\ UNCHANGED <<stopFrame, running, connections>>

\* The drain ends when every handle is finished or at DRAIN_TIMEOUT; what is
\* left is aborted, not awaited.
StopDrained ==
  /\ stop = "drain" /\ stop' = "done"
  /\ handles' = handles \cap Live
  /\ UNCHANGED <<stopFrame, running, connections>>

StopStep == StopAccepting \/ StopAborts \/ StopSignals \/ StopTakes \/ StopDrained

SrvNext == \/ AcceptStep \/ AcceptFails \/ StopClears \/ StopStep
           \/ \E c \in Conns : \/ Accept(c) \/ ConnStep(c) \/ Decide(c) \/ Cut(c)
                               \/ BeginExchange(c) \/ Hold(c) \/ Answer(c) \/ Replied(c)

SrvSpec == SrvInit /\ [][SrvNext]_srvVars

\* The accept loop and stop go on; the time to read a head is bounded; a task
\* is woken by a decision and by the signal, and ends once aborted.  Clients,
\* upstreams and the user owe nothing.
SrvFairSpec == /\ SrvSpec
               /\ WF_srvVars(AcceptStep) /\ WF_srvVars(StopStep)
               /\ \A c \in Conns : WF_srvVars(ConnStep(c)) /\ WF_srvVars(Die(c))
-------------------------------------------------------------------------------
(* Properties *)

ServerTypeOK ==
  /\ pending \subseteq Conns /\ paused \subseteq Conns
  /\ running \in BOOLEAN
  /\ accept \in {"check", "accept", "permit", "push", "ended", "aborted"}
  /\ cur \in Conns \cup {NoConn}
  /\ accept \in {"permit", "push"} => cur # NoConn
  /\ connections \subseteq Conns /\ handles \subseteq Conns
  /\ connections \cap handles = {}   \* a handle has one owner
  /\ conn \in [Conns -> {"client", "accepted", "head", "tunnel", "serving",
                         "exchange", "reply", "closed"}]
  /\ watch \in [Conns -> {"open", "deaf", "heard"}]
  /\ stop \in {"idle", "flag", "abort", "signal", "take", "drain", "done"}

\* A task that runs has its handle in `connections` or in stop's hands, save
\* the one the accept loop was about to push (server.rs:468-473); a socket
\* taken in and not yet served is the accept loop's own.
TasksTracked ==
  \A c \in Conns : /\ c \in Live \ (connections \cup handles) =>
                        c = cur /\ accept \in {"push", "aborted"}
                   /\ conn[c] = "accepted" => c = cur /\ accept = "permit"

\* A connection task holds a permit from before its spawn to its end
\* (server.rs:464-472).
PermitsKept == Cardinality(Live) <= MaxConnections

\* stop takes the handles after it has taken down the flag, so the accept loop
\* can add no more than the connection it had in hand (server.rs:424-430).
OnlyLastEscapes ==
  stop \in {"drain", "done"} => \A c \in Live \ handles : c = cur

\* A connection that has heard the signal is there only for the exchange that
\* was under way (server.rs:959-960), and a task is paused only within one.
DrainsExchanges ==
  /\ \A c \in Conns : watch[c] = "heard" => Busy(c)
  /\ \A c \in paused : conn[c] = "exchange"

\* stop returns, whatever clients and the user do (server.rs:431-446).
StopReturns == <>[](stop \in {"idle", "done"})

\* Every connection handed to stop ends, also one held, idle or deaf for ever.
HandedOverEnds == \A c \in Conns : c \in handles ~> ~Alive(c)
=============================================================================
