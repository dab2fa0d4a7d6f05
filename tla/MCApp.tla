--------------------------------- MODULE MCApp ---------------------------------
(***************************************************************************)
(* The rest of the application: its proxy and configuration, the push of   *)
(* events, the items held by the user and the exchange that holds them,    *)
(* and the inputs of the pure algorithms.  They share no state; each       *)
(* behaviour is one of them.                                               *)
(***************************************************************************)
EXTENDS AppProxy, EventPush, InterceptController, ProxyExchange, MCFunctions, TLC

VARIABLE part
mcVars == <<part, appVars, pushVars, icVars, vars, input>>

ProxyPart    == part = "proxy" /\ UNCHANGED <<part, pushVars, icVars, vars, input>>
PushPart     == part = "push" /\ UNCHANGED <<part, appVars, icVars, vars, input>>
HeldPart     == part = "held" /\ UNCHANGED <<part, appVars, pushVars, vars, input>>
ExchangePart == part = "exchange" /\ UNCHANGED <<part, appVars, pushVars, icVars, input>>

\* The exchange starts in one state unless it is the one that goes on.
OneExchange == inScope /\ ~holdRequests /\ ~holdResponses /\ active = NoSession

MCInit ==
  /\ AppInit /\ PushInit /\ ICInit /\ Init
  /\ \/ part \in {"proxy", "push", "held"} /\ OneExchange /\ input = [part |-> "none"]
     \/ part = "exchange" /\ input = [part |-> "none"]
     \/ part = "functions" /\ OneExchange /\ FnInit
MCNext == \/ ProxyPart /\ AppNext
          \/ PushPart /\ PushNext
          \/ HeldPart /\ ICNext
          \/ ExchangePart /\ Next

\* The fairness each module states, of its part.
MCFairness ==
  /\ WF_mcVars(ProxyPart /\ ProxyStopped) /\ \A h \in Handlers : SF_mcVars(ProxyPart /\ HandlerStep(h))
  /\ \A b \in Browsers : WF_mcVars(PushPart /\ Push(b))
  /\ \A i \in Items : WF_mcVars(HeldPart /\ (Enlist(i) \/ Resume(i)))
  /\ WF_mcVars(HeldPart /\ Unlist) /\ WF_mcVars(HeldPart /\ ClearStep)
MCSpec == MCInit /\ [][MCNext]_mcVars /\ MCFairness

\* Nothing waits for good: every handler returns, and every event is pushed to the
\* browsers that keep up.
AppProgresses == HandlersReturn /\ EventArrives
===============================================================================
