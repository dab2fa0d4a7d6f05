------------------------------- MODULE MCPipeline -------------------------------
(***************************************************************************)
(* The way of the traffic: the proxy's connections and its stop, the       *)
(* captured flows and the rows of their sessions, and the writer behind    *)
(* the capture buffer.  They share no state; each behaviour is one of      *)
(* them.                                                                   *)
(***************************************************************************)
EXTENDS ProxyServer, CaptureSessions, PersistenceWriter

VARIABLE part
mcVars == <<part, srvVars, sessVars, pipeVars>>

ServerPart   == part = "server" /\ UNCHANGED <<part, sessVars, pipeVars>>
SessionsPart == part = "sessions" /\ UNCHANGED <<part, srvVars, pipeVars>>
WriterPart   == part = "writer" /\ UNCHANGED <<part, srvVars, sessVars>>

MCInit == part \in {"server", "sessions", "writer"} /\ SrvInit /\ SessInit /\ WriterInit
MCNext == \/ ServerPart /\ SrvNext
          \/ SessionsPart /\ SessNext
          \/ WriterPart /\ WriterNext

\* The fairness each module states, of its part.
MCFairness ==
  /\ WF_mcVars(ServerPart /\ AcceptStep) /\ WF_mcVars(ServerPart /\ StopStep)
  /\ \A c \in Conns : WF_mcVars(ServerPart /\ ConnStep(c)) /\ WF_mcVars(ServerPart /\ Die(c))
  /\ \A f \in Captured : WF_mcVars(SessionsPart /\ CaptureStep(f)) /\ WF_mcVars(SessionsPart /\ BumpStep(f))
  /\ WF_mcVars(WriterPart /\ WriterStep)

MCSpec == MCInit /\ [][MCNext]_mcVars /\ MCFairness

\* CapturesEnd, of the behaviours in which the flows' tasks run.
FlowsEnd == part = "sessions" => CapturesEnd
=================================================================================
