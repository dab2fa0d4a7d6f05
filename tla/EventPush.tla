------------------------------- MODULE EventPush -------------------------------
(***************************************************************************)
(* The push of events to the browsers: every socket has a receiver of the  *)
(* broadcast channel AppState::ws_tx and a task that sends on what it      *)
(* receives (ws.rs, state.rs, events/src/lib.rs).  The channel keeps the   *)
(* last Capacity messages; sending never waits, and a receiver that is     *)
(* further behind is told so by an error.                                  *)
(***************************************************************************)
EXTENDS Naturals, Sequences

CONSTANTS Browsers, Capacity, MaxEvents

ASSUME PushAssumption == Capacity \in Nat \ {0} /\ MaxEvents \in Nat

VARIABLES sent,     \* number of messages broadcast
          socket,   \* per browser: closed, open, broken
          pushing,  \* per browser: its push task runs
          next,     \* per browser: the message its receiver takes next
          received  \* per browser: the messages it got

pushVars == <<sent, socket, pushing, next, received>>

PushInit ==
  /\ sent = 0 /\ socket = [b \in Browsers |-> "closed"] /\ pushing = [b \in Browsers |-> FALSE]
  /\ next = [b \in Browsers |-> 1] /\ received = [b \in Browsers |-> <<>>]

\* ws_send, EventBus::publish
Broadcast ==
  /\ sent < MaxEvents /\ sent' = sent + 1
  /\ UNCHANGED <<socket, pushing, next, received>>

\* handle_socket subscribes and spawns the push.  A browser that comes back begins anew.
Open(b) ==
  /\ socket[b] = "closed" /\ socket' = [socket EXCEPT ![b] = "open"]
  /\ pushing' = [pushing EXCEPT ![b] = TRUE] /\ next' = [next EXCEPT ![b] = sent + 1]
  /\ received' = [received EXCEPT ![b] = <<>>] /\ UNCHANGED sent

lagged(b) == sent + 1 > next[b] + Capacity

\* bug: a receiver that lags goes on with the oldest message kept
PushBug(b) ==
  /\ pushing[b] /\ next[b] <= sent /\ socket[b] = "open"
  /\ LET at == IF lagged(b) THEN sent + 1 - Capacity ELSE next[b] IN
     next' = [next EXCEPT ![b] = at + 1] /\ received' = [received EXCEPT ![b] = Append(@, at)]
  /\ UNCHANGED <<sent, socket, pushing>>

\* The push ends when its receiver lags, and when the socket does not take the message.
Push(b) ==
  /\ pushing[b] /\ next[b] <= sent
  /\ IF lagged(b) \/ socket[b] # "open"
     THEN pushing' = [pushing EXCEPT ![b] = FALSE] /\ UNCHANGED <<next, received>>
     ELSE /\ next' = [next EXCEPT ![b] = @ + 1] /\ received' = [received EXCEPT ![b] = Append(@, next[b])]
          /\ UNCHANGED pushing
  /\ UNCHANGED <<sent, socket>>

Break(b) ==
  /\ socket[b] = "open" /\ socket' = [socket EXCEPT ![b] = "broken"]
  /\ UNCHANGED <<sent, pushing, next, received>>

\* The drain of incoming frames ends, and the push is aborted.
Close(b) ==
  /\ socket[b] # "closed" /\ socket' = [socket EXCEPT ![b] = "closed"]
  /\ pushing' = [pushing EXCEPT ![b] = FALSE] /\ UNCHANGED <<sent, next, received>>

PushNext == Broadcast \/ \E b \in Browsers : Open(b) \/ Push(b) \/ Break(b) \/ Close(b)
PushSpec == PushInit /\ [][PushNext]_pushVars

\* The task of a push is polled, and a socket reports that it is closed.
PushFairness == \A b \in Browsers : WF_pushVars(Push(b))

-------------------------------------------------------------------------------
(* Properties *)

PushTypeOK ==
  /\ sent \in 0..MaxEvents /\ socket \in [Browsers -> {"closed", "open", "broken"}]
  /\ pushing \in [Browsers -> BOOLEAN] /\ next \in [Browsers -> 1..(MaxEvents + 1)]

\* What a browser has got since it connected is without gaps, repetitions or
\* disorder: it may rely on having seen every change up to the last one it got.
NoGaps ==
  \A b \in Browsers : \A k \in DOMAIN received[b] :
    received[b][k] = received[b][1] + k - 1 /\ received[b][k] < next[b]

\* No push outlives its socket.
NoPushUnbound == \A b \in Browsers : pushing[b] => socket[b] # "closed"

\* When no more events come, every browser that still listens has got, or was told to have missed, them all.
EventArrives == <>[](\A b \in Browsers : pushing[b] => next[b] > sent)

\* A browser has seen every change up to the last one it got, and a push ends with its socket.
StreamWhole == PushTypeOK /\ NoGaps /\ NoPushUnbound
===============================================================================
