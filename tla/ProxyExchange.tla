----------------------------- MODULE ProxyExchange -----------------------------
(***************************************************************************)
(* crates/proxy/src/server.rs: one exchange, from the request the client   *)
(* sent to the flow the capture sink gets.  Scope, intercept switches and  *)
(* the active session are changed by others at any moment, and the         *)
(* exchange reads each of them once, at its own moment.  Bodies are        *)
(* counted in bytes.  How an item is held is InterceptController's.        *)
(***************************************************************************)
EXTENDS Naturals, Sequences

CONSTANTS MaxCapture,    \* max_body_bytes: bytes of a body kept in a flow
          InterceptCap,  \* bytes of a response collected to be held
          MaxLen,        \* bound: bytes of a body
          Sessions, NoSession

ASSUME ExchangeAssumption == /\ MaxCapture \in Nat /\ InterceptCap \in Nat /\ MaxLen \in Nat
                             /\ MaxCapture <= InterceptCap
                             /\ NoSession \notin Sessions

VARIABLES inScope, holdRequests, holdResponses, active, \* what others change
          step,      \* where the exchange stands
          capture,   \* should_capture, as it was read
          contacted, \* the request was sent upstream
          verdict,   \* the user's decisions on the items held
          body,      \* of the response: [total, sized, left] bytes from upstream
          out,       \* bytes of a held response to be sent to the client
          got,       \* bytes the client got
          copy, done,\* TeeBody: bytes captured, finalized
          spawned,   \* capture tasks: the bytes each of them carries
          flows,     \* what the capture tasks recorded: [len, session]
          lapsed     \* history: there was a moment without an active session

env  == <<inScope, holdRequests, holdResponses, active, lapsed>>
path == <<capture, contacted, verdict, body, out>>
tee  == <<copy, done, spawned>>
vars == <<env, step, path, got, tee, flows>>

Bytes   == 0..MaxLen
NoBody  == [total |-> 0, sized |-> TRUE, left |-> 0]
Least(a, b) == IF a <= b THEN a ELSE b

Init == /\ inScope \in BOOLEAN /\ holdRequests \in BOOLEAN /\ holdResponses \in BOOLEAN
        /\ active \in Sessions \cup {NoSession} /\ lapsed = (active = NoSession)
        /\ step = "start" /\ capture = FALSE /\ contacted = FALSE
        /\ verdict = [request |-> "none", response |-> "none"]
        /\ body = NoBody /\ out = 0 /\ got = 0
        /\ copy = 0 /\ done = FALSE /\ spawned = <<>> /\ flows = <<>>

-------------------------------------------------------------------------------
(* The user meanwhile *)

Others == /\ \/ inScope' = ~inScope /\ UNCHANGED <<holdRequests, holdResponses, active>>
             \/ holdRequests' = ~holdRequests /\ UNCHANGED <<inScope, holdResponses, active>>
             \/ holdResponses' = ~holdResponses /\ UNCHANGED <<inScope, holdRequests, active>>
             \/ active' \in Sessions \cup {NoSession}
                /\ UNCHANGED <<inScope, holdRequests, holdResponses>>
          /\ lapsed' = (lapsed \/ active' = NoSession)
          /\ UNCHANGED <<step, path, got, tee, flows>>

-------------------------------------------------------------------------------
(* proxy_request_inner.  Operators named ...Bug are the definition after    *)
(* them with a plausible slip; Next never uses them.                        *)

frame == <<env, flows>>

\* Scope is read by the URL the client asked for, before rules and edits.
ReadScope ==
  /\ step = "start" /\ step' = "request"
  /\ capture' = inScope
  /\ UNCHANGED <<frame, contacted, verdict, body, out, got, tee>>

\* The request body is collected and rewritten.
CheckRequest ==
  /\ step = "request"
  /\ step' = IF holdRequests THEN "held" ELSE "send"
  /\ UNCHANGED <<frame, path, got, tee>>

\* A dropped request is answered with an empty reply.
DecideRequest(d) ==
  /\ step = "held" /\ verdict' = [verdict EXCEPT !.request = d]
  /\ step' = IF d = "drop" THEN "reply" ELSE "send"
  /\ UNCHANGED <<frame, capture, contacted, body, out, got, tee>>

Send ==
  /\ step = "send" /\ step' = "upstream"
  /\ contacted' = TRUE
  /\ UNCHANGED <<frame, capture, verdict, body, out, got, tee>>

\* The response head arrives: the body is collected to be held, or relayed.
Answer(n, sized) ==
  /\ step = "upstream"
  /\ body' = [total |-> n, sized |-> sized, left |-> n]
  /\ step' = IF holdResponses THEN "collect" ELSE "relay"
  /\ UNCHANGED <<frame, capture, contacted, verdict, out, got, tee>>

\* collect_body: what is beyond the cap is not read.
Collect ==
  /\ step = "collect" /\ step' = "held_response"
  /\ out' = Least(body.total, InterceptCap)
  /\ UNCHANGED <<frame, capture, contacted, verdict, body, got, tee>>

\* bug: the flow is captured before the decision
DecideResponseBug(d, n) ==
  /\ step = "held_response" /\ step' = "reply"
  /\ verdict' = [verdict EXCEPT !.response = d]
  /\ out' = CASE d = "drop" -> 0 [] d = "forward" -> out [] d = "edit" -> n
  /\ spawned' = IF capture THEN Append(spawned, Least(out', MaxCapture)) ELSE spawned
  /\ UNCHANGED <<frame, capture, contacted, body, got, copy, done>>

\* What is forwarded, edited or not, is captured and sent; FlowBuilder caps it.
DecideResponse(d, n) ==
  /\ step = "held_response" /\ step' = "reply"
  /\ verdict' = [verdict EXCEPT !.response = d]
  /\ out' = CASE d = "drop" -> 0 [] d = "forward" -> out [] d = "edit" -> n
  /\ spawned' = IF capture /\ d # "drop" THEN Append(spawned, Least(out', MaxCapture))
                                         ELSE spawned
  /\ UNCHANGED <<frame, capture, contacted, body, got, copy, done>>

\* A held response, a dropped item's empty reply or the 502 of an error.
Reply ==
  /\ step = "reply" /\ step' = "ended"
  /\ got' = out
  /\ UNCHANGED <<frame, path, tee>>

\* Any error is answered with a 502; the proxy answers /ca.crl itself.
Fail ==
  /\ step \in {"start", "request", "send", "upstream", "collect"}
  /\ step' = "reply"
  /\ UNCHANGED <<frame, path, got, tee>>

-------------------------------------------------------------------------------
(* TeeBody *)

\* The context is taken by the first finalize: there is no second flow.
Finalize(n) ==
  IF done THEN UNCHANGED <<done, copy, spawned>>
  ELSE /\ done' = TRUE /\ copy' = 0
       /\ spawned' = IF capture THEN Append(spawned, n) ELSE spawned

\* bug: a frame that does not fit is left out whole
CaptureFrameBug(n) ==
  IF done THEN UNCHANGED tee
  ELSE IF n > MaxCapture - copy THEN Finalize(copy)
  ELSE IF body.sized /\ copy + n >= body.total THEN Finalize(copy + n)
  ELSE copy' = copy + n /\ UNCHANGED <<done, spawned>>

CaptureFrame(n) ==
  IF done THEN UNCHANGED tee
  ELSE IF n > MaxCapture - copy THEN Finalize(MaxCapture)
  ELSE IF body.sized /\ copy + n >= body.total THEN Finalize(copy + n)
  ELSE copy' = copy + n /\ UNCHANGED <<done, spawned>>

\* hyper polls a frame, which is copied and relayed.
Frame(n) ==
  /\ step = "relay" /\ n <= body.left
  /\ body' = [body EXCEPT !.left = @ - n]
  /\ got' = got + n
  /\ CaptureFrame(n)
  /\ UNCHANGED <<frame, step, capture, contacted, verdict, out>>

\* bug: the end of a chunked body is not seen
BodyEndsBug ==
  /\ step = "relay" /\ body.left = 0
  /\ step' = "relayed"
  /\ UNCHANGED <<frame, path, got, tee>>

\* The end: hyper does not poll a sized body again, so only a chunked one is
\* finalized here.
BodyEnds ==
  /\ step = "relay" /\ body.left = 0
  /\ step' = "relayed"
  /\ IF body.sized THEN UNCHANGED tee ELSE Finalize(copy)
  /\ UNCHANGED <<frame, path, got>>

\* The upstream breaks off: the error is turned into an end, without finalize.
BodyBreaks ==
  /\ step = "relay" /\ body.left > 0
  /\ step' = "cut"
  /\ UNCHANGED <<frame, path, got, tee>>

\* The client goes away or the task is aborted, and everything is dropped.
HangUp ==
  /\ step \notin {"ended", "relayed", "cut"}
  /\ step' = "cut"
  /\ UNCHANGED <<frame, path, got, tee>>

-------------------------------------------------------------------------------
(* spawn_capture: the session is the one that is active when the task runs  *)
(* (the supplied one, unless it is blank, else the server's own, which stop *)
(* takes away); without one the flow is discarded.                          *)

CaptureTask ==
  /\ spawned # <<>>
  /\ flows' = IF active = NoSession THEN flows
              ELSE Append(flows, [len |-> Head(spawned), session |-> active])
  /\ spawned' = Tail(spawned)
  /\ UNCHANGED <<env, step, path, got, copy, done>>

Next == \/ Others \/ ReadScope \/ CheckRequest \/ Send \/ Collect \/ Reply \/ Fail
        \/ \E d \in {"forward", "drop"} : DecideRequest(d)
        \/ \E n \in Bytes, sized \in BOOLEAN : Answer(n, sized)
        \/ \E d \in {"forward", "edit", "drop"}, n \in Bytes : DecideResponse(d, n)
        \/ \E n \in Bytes \ {0} : Frame(n)
        \/ BodyEnds \/ BodyBreaks \/ HangUp \/ CaptureTask

Spec == Init /\ [][Next]_vars
-------------------------------------------------------------------------------
(* Properties *)

\* The bytes captured so far, in whatever hands they are.
Copies == {spawned[i] : i \in DOMAIN spawned} \cup {flows[i].len : i \in DOMAIN flows}
CaptureCount == Len(spawned) + Len(flows)

\* An exchange is captured at most once, though cap, Content-Length and the end
\* of the stream may each finalize it (server.rs:199-232).
CapturedOnce == CaptureCount <= 1

\* A captured body is what went to the client, whole or cut at the cap: never a
\* part that happened to have arrived, never more (server.rs:199-216, 852-872).
CaptureWhole ==
  \A len \in Copies :
    len = Least(MaxCapture, IF verdict.response = "none" THEN body.total ELSE out)

\* A dropped item leaves no trace: no flow, nothing for the client, and for a
\* request no contact with the upstream (tests/intercept.rs:166-173).
DroppedLeavesNoTrace ==
  /\ verdict.request = "drop" => ~contacted
  /\ "drop" \in {verdict.request, verdict.response} => CaptureCount = 0 /\ got = 0

\* While some session is active throughout, an exchange that was in scope leaves a flow when its response was
\* relayed to the end, by whichever of cap, Content-Length and end of stream comes first, or was sent after the
\* user's decision.  A sized empty body is RelayedToLength's.
RelayedIsCaptured ==
  capture /\ ~lapsed =>
    /\ step = "relayed" /\ (body.total > 0 \/ ~body.sized) => CaptureCount = 1
    /\ step = "ended" /\ verdict.response \in {"forward", "edit"} => CaptureCount = 1

\* "The flow is finalized when the captured body reaches the declared `Content-Length`" (server.rs:160-161): so is
\* one whose declared length is 0, which is reached at once.  But the length is compared in capture_frame only,
\* and a body of length 0 has no frame.
RelayedToLength == capture /\ ~lapsed /\ step = "relayed" /\ body.sized => CaptureCount = 1

\* Forwarded as it is, a response reaches the client as the upstream sent it
\* (intercept.rs:50, "`None` forwards the item unchanged").
ForwardedUnchanged ==
  step = "ended" /\ verdict.response = "forward" => got = body.total
=============================================================================
