------------------------------ MODULE WorkflowRun ------------------------------
(***************************************************************************)
(* One run of a workflow: workflow_run of the server checks and registers  *)
(* it, WorkflowRunner walks its graph, and every node result is written to *)
(* the row of the run by a task of its own.  A body of a loop is walked    *)
(* once per item.  What a request answers and an expression yields is      *)
(* data: a node succeeds, with a truth value if it has one, or fails.      *)
(***************************************************************************)
EXTENDS WorkflowRules, Naturals, Sequences, FiniteSets, SequencesExt

CONSTANTS Workflows,   \* the workflows tried
          HttpRetries, \* retries of a request
          MaxItems     \* length of the longest array a loop may find

ASSUME WorkflowAssumption ==
  /\ HttpRetries \in Nat /\ MaxItems \in Nat
  /\ \A w \in Workflows :
       /\ w.nodes \in Seq(ToSet(w.nodes)) /\ w.edges \in Seq(EdgeSet(w))
       /\ \A i \in DOMAIN w.nodes : w.nodes[i].id # 0 /\ w.nodes[i].max_iterations \in Nat

VARIABLES wf,          \* the workflow
          wfStep,      \* the next step of the run
          walks,       \* the walks under way: the graph, and above it the body of a loop
          current,     \* the node in execution, or 0
          wfTries,     \* failed attempts at its request
          looping,     \* [loop, left]: the loop under way and its iterations left
          vars,        \* bound variables
          result,      \* per node: none, ok, true, false, error
          wfStatus,    \* RunStatus
          wfToken,     \* the run is registered in workflow_tokens
          wfCancelled, \* its token is cancelled
          writes,      \* snapshots of results still to be written by tasks of their own
          wfRow,       \* the row: its status and the nodes whose results it has
          started,     \* history, per node: how often it was executed
          firedEdges   \* history: edges that fired and counted down their targets

runVars   == <<walks, current, wfTries, looping, vars, result, started, firedEdges>>
tableVars == <<wfRow, writes>>
wfVars    == <<wf, wfStep, runVars, wfStatus, wfToken, wfCancelled, tableVars>>

WfIds == NodeIds(wf)
NoLoop == [loop |-> 0, left |-> 0]

WfInit ==
  /\ wf \in Workflows /\ wfStep = "called" /\ walks = <<>> /\ current = 0 /\ wfTries = 0
  /\ looping = NoLoop /\ vars = {} /\ result = [n \in WfIds |-> "none"]
  /\ wfStatus = "none" /\ wfToken = FALSE /\ wfCancelled = FALSE
  /\ writes = {} /\ wfRow = [status |-> "none", nodes |-> {}]
  /\ started = [n \in WfIds |-> 0] /\ firedEdges = {}

-------------------------------------------------------------------------------
(* Operators of the runner *)

\* How often the body of a loop is run for an array of so many items.
iterations(n, items) == IF items <= n.max_iterations THEN items ELSE n.max_iterations

\* filter: the members of a sequence that are in S, in their order.
Only(s, S) ==
  LET kept[k \in 0..Len(s)] ==
        IF k = 0 THEN <<>> ELSE IF s[k] \in S THEN Append(kept[k - 1], s[k]) ELSE kept[k - 1]
  IN kept[Len(s)]

\* A walk over some of the nodes: in-degrees over the edges among them, the nodes
\* without any in the queue, in the order of the workflow.
Walk(ids, to) ==
  LET degree == [n \in ids |-> Cardinality(EdgesTo(wf, n, ids))]
      listed == [i \in DOMAIN wf.nodes |-> wf.nodes[i].id] IN
  [degree |-> degree, seen |-> {}, to |-> to,
   queue  |-> Only(listed, {n \in ids : degree[n] = 0})]

\* The condition of an edge, on the output of the node it comes from.
fires(e, output) == CASE e.when = "none" -> TRUE
                      [] e.when = "true" -> output = "true"
                      [] OTHER           -> output # "true"

\* next_nodes: the edges of a node that fire on its output.
next_nodes(n, output) ==
  Only([e \in DOMAIN wf.edges |-> e],
       {e \in DOMAIN wf.edges : wf.edges[e].from = n /\ fires(wf.edges[e], output)})

\* bug: a target is queued by the first of its edges that fires
decrement_bug(walk, edges) ==
  LET count(n) == Cardinality({k \in DOMAIN edges : wf.edges[edges[k]].to = n})
      targets  == Only([k \in DOMAIN edges |-> wf.edges[edges[k]].to],
                       {n \in DOMAIN walk.degree : ~Contains(walk.queue, n)}) IN
  [walk EXCEPT !.degree = [n \in DOMAIN @ |-> IF count(n) < @[n] THEN @[n] - count(n) ELSE 0],
               !.queue  = @ \o targets]

\* decrement, for each edge that fires: a target whose last edge this was is queued.  (No
\* two edges have the same ends.)
decrement(walk, edges) ==
  LET count(n) == Cardinality({k \in DOMAIN edges : wf.edges[edges[k]].to = n})
      freed    == {n \in DOMAIN walk.degree : walk.degree[n] <= count(n) /\ ~Contains(walk.queue, n)} IN
  [walk EXCEPT !.degree = [n \in DOMAIN @ |-> IF count(n) < @[n] THEN @[n] - count(n) ELSE 0],
               !.queue  = @ \o Only([k \in DOMAIN edges |-> wf.edges[edges[k]].to], freed)]

\* resolve_source: whether the source of a node can be resolved.  The output of a request
\* has the field `response` only, and of the others that of an extraction may have any.
resolve_source(n) ==
  LET s == n.source IN
  CASE s.form = "path" ->
         IF s.first \notin WfIds \/ result[s.first] = "none" THEN {FALSE}
         ELSE IF node(wf, s.first).type = "http_request" THEN {s.rest = "response"}
         ELSE IF node(wf, s.first).type = "extract_variable" THEN BOOLEAN ELSE {FALSE}
    [] s.form = "empty" -> {FALSE}
    [] OTHER -> {s.first \in vars}

\* What the execution of a node, apart from its request, may come to.
outcomes(n) ==
  LET found == IF n.type \in Sourced THEN resolve_source(n) ELSE {TRUE} IN
  (IF FALSE \in found \/ n.type \in Sourced THEN {"error"} ELSE {})
    \cup (IF TRUE \notin found THEN {}
          ELSE CASE n.type = "condition" -> {"true", "false"}
                 [] n.type = "assert"    -> {"true"}
                 [] OTHER                -> {"ok"})

-------------------------------------------------------------------------------
(* workflow_run *)

\* An invalid workflow is refused, and one with requests out of scope unless confirmed.
WfCalled ==
  /\ wfStep = "called"
  /\ \/ /\ validate(wf) = {} /\ wfStep' = "save" /\ wfToken' = TRUE
        /\ \E confirm_scope_override \in BOOLEAN : scope_warnings(wf) = {} \/ confirm_scope_override
     \/ /\ validate(wf) # {} \/ scope_warnings(wf) # {}
        /\ wfStep' = "refused" /\ wfToken' = wfToken
  /\ UNCHANGED <<wf, runVars, wfStatus, wfCancelled, tableVars>>

\* A save that fails leaves the token registered, and so does a browser that goes away during
\* it, by when the row may be written.
SaveWfRun ==
  /\ wfStep = "save" /\ wfRow' \in {wfRow, [wfRow EXCEPT !.status = "running"]}
  /\ \/ wfRow'.status = "running" /\ wfStep' = "pick" /\ walks' = <<Walk(WfIds, 0)>>
     \/ wfStep' = "refused" /\ walks' = walks
  /\ UNCHANGED <<wf, current, wfTries, looping, vars, result, started, firedEdges, wfStatus,
                 wfToken, wfCancelled, writes>>

Ends(status) == wfStep' = "settle" /\ wfStatus' = status

-------------------------------------------------------------------------------
(* run_into and run_range *)

Top == walks[Len(walks)]
SetTop(walk) == [walks EXCEPT ![Len(walks)] = walk]

\* bug: the token is not looked at before a node is executed
TakeNodeDeafBug ==
  /\ wfStep = "pick" /\ Top.queue # <<>>
  /\ LET id == Head(Top.queue)
         n  == node(wf, id) IN
     /\ walks' = SetTop([Top EXCEPT !.queue = Tail(@), !.seen = @ \cup {id}])
     /\ IF id \in Top.seen THEN UNCHANGED <<wfStep, wfStatus, current, looping, started>>
        ELSE IF n.type # "loop"
        THEN /\ wfStep' = "busy" /\ current' = id /\ started' = [started EXCEPT ![id] = @ + 1]
             /\ UNCHANGED <<wfStatus, looping>>
        ELSE Ends("failed") /\ UNCHANGED <<current, looping, started>>
  /\ UNCHANGED <<wf, wfTries, vars, result, firedEdges, wfToken, wfCancelled, tableVars>>

\* The head of the loop: the next node is executed, unless it has been.  A loop in a body
\* fails the run, and so does one whose source is no array.
TakeNode ==
  /\ wfStep = "pick" /\ Top.queue # <<>>
  /\ LET id == Head(Top.queue)
         n  == node(wf, id) IN
     /\ walks' = SetTop([Top EXCEPT !.queue = Tail(@), !.seen = @ \cup {id}])
     /\ IF id \in Top.seen THEN UNCHANGED <<wfStep, wfStatus, current, looping, started>>
        ELSE IF wfCancelled THEN Ends("cancelled") /\ UNCHANGED <<current, looping, started>>
        ELSE IF n.type # "loop"
        THEN /\ wfStep' = "busy" /\ current' = id /\ started' = [started EXCEPT ![id] = @ + 1]
             /\ UNCHANGED <<wfStatus, looping>>
        ELSE \/ Ends("failed") /\ UNCHANGED <<current, looping, started>>
             \/ /\ Len(walks) = 1 /\ TRUE \in resolve_source(n)
                /\ \E items \in 0..MaxItems : looping' = [loop |-> id, left |-> iterations(n, items)]
                /\ wfStep' = "iterate" /\ UNCHANGED <<wfStatus, current, started>>
  /\ UNCHANGED <<wf, wfTries, vars, result, firedEdges, wfToken, wfCancelled, tableVars>>

\* The queue is empty: the run is complete, or the body is.
WalkEnds ==
  /\ wfStep = "pick" /\ Top.queue = <<>>
  /\ IF Len(walks) = 1 THEN Ends("completed") /\ walks' = walks
     ELSE wfStep' = "iterate" /\ walks' = Front(walks) /\ wfStatus' = wfStatus
  /\ UNCHANGED <<wf, current, wfTries, looping, vars, result, started, firedEdges, wfToken,
                 wfCancelled, tableVars>>

\* A request fails and is tried again, if the run is not cancelled meanwhile.
RetryRequest ==
  /\ wfStep = "busy" /\ node(wf, current).type = "http_request"
  /\ wfTries < HttpRetries /\ ~wfCancelled /\ wfTries' = wfTries + 1
  /\ UNCHANGED <<wf, wfStep, walks, current, looping, vars, result, started, firedEdges,
                 wfStatus, wfToken, wfCancelled, tableVars>>

\* execute_node returns: the result is recorded and its write spawned; a failure, which
\* a cancelled request or delay is too, fails the run; the edges that fire count down
\* their targets.  The walk of a body ends at its last node.
FinishNode ==
  /\ wfStep = "busy"
  /\ \E outcome \in outcomes(node(wf, current)) \cup
                    (IF node(wf, current).type \in {"http_request", "delay"} THEN {"error"} ELSE {}) :
       LET edges == next_nodes(current, outcome) IN
       /\ node(wf, current).type = "delay" /\ outcome = "error" => wfCancelled
       /\ result' = [result EXCEPT ![current] = outcome]
       /\ writes' = writes \cup {{n \in WfIds : result'[n] # "none"}}
       /\ vars' = IF node(wf, current).type = "extract_variable" /\ outcome = "ok"
                  THEN vars \cup {node(wf, current).name} ELSE vars
       /\ IF outcome = "error" THEN Ends("failed") /\ UNCHANGED <<walks, firedEdges>>
          ELSE /\ wfStatus' = wfStatus
               /\ IF current = Top.to
                  THEN wfStep' = "iterate" /\ walks' = Front(walks) /\ UNCHANGED firedEdges
                  ELSE /\ wfStep' = "pick" /\ walks' = SetTop(decrement(Top, edges))
                       /\ firedEdges' = firedEdges \cup ToSet(edges)
  /\ current' = 0 /\ wfTries' = 0
  /\ UNCHANGED <<wf, looping, started, wfToken, wfCancelled, wfRow>>

\* run_loop: the next item is bound and the body walked; behind the last item the run
\* goes on from the end of the body.
Iterate ==
  /\ wfStep = "iterate"
  /\ LET n     == node(wf, looping.loop)
         body  == reachable_between(wf, n.body_start, n.body_end) \cup {n.body_start, n.body_end}
         edges == next_nodes(n.body_end, result[n.body_end]) IN
     IF looping.left > 0
     THEN /\ UNCHANGED <<result, writes, firedEdges>>
          /\ IF wfCancelled THEN Ends("cancelled") /\ UNCHANGED <<walks, looping, vars>>
             ELSE /\ wfStep' = "pick" /\ wfStatus' = wfStatus
                  /\ looping' = [looping EXCEPT !.left = @ - 1] /\ vars' = vars \cup {n.name}
                  /\ walks' = Append(walks, Walk(body, n.body_end))
     ELSE /\ wfStep' = "pick" /\ looping' = NoLoop /\ wfStatus' = wfStatus /\ vars' = vars \ {n.name}
          /\ result' = [result EXCEPT ![n.id] = "ok"]
          /\ writes' = writes \cup {{i \in WfIds : result'[i] # "none"}}
          /\ walks' = SetTop(decrement(Top, edges)) /\ firedEdges' = firedEdges \cup ToSet(edges)
  /\ UNCHANGED <<wf, current, wfTries, started, wfToken, wfCancelled, wfRow>>

\* timeout_secs are over: the run is dropped where it waits.
WfTimeout ==
  /\ wfStep = "busy" /\ node(wf, current).type \in {"http_request", "delay"}
  /\ Ends("timed_out") /\ current' = 0
  /\ UNCHANGED <<wf, walks, wfTries, looping, vars, result, started, firedEdges, wfToken,
                 wfCancelled, tableVars>>

-------------------------------------------------------------------------------
(* What is written of the run, and its end *)

\* One of the tasks on_node spawned, in any order, writes its snapshot, or fails to.
WriteProgress ==
  /\ \E snapshot \in writes :
       /\ writes' = writes \ {snapshot}
       /\ wfRow' \in {wfRow, [status |-> "running", nodes |-> snapshot]}
  /\ UNCHANGED <<wf, wfStep, runVars, wfStatus, wfToken, wfCancelled>>

Settle ==
  /\ wfStep = "settle" /\ wfStep' = "untoken"
  /\ wfRow' \in {wfRow, [status |-> wfStatus, nodes |-> {n \in WfIds : result[n] # "none"}]}
  /\ UNCHANGED <<wf, runVars, wfStatus, wfToken, wfCancelled, writes>>

RemoveToken ==
  /\ wfStep = "untoken" /\ wfStep' = "ended" /\ wfToken' = FALSE
  /\ UNCHANGED <<wf, runVars, wfStatus, wfCancelled, tableVars>>

WfCancel ==
  /\ wfToken /\ wfCancelled' = TRUE
  /\ UNCHANGED <<wf, wfStep, runVars, wfStatus, wfToken, tableVars>>

WfStep == \/ SaveWfRun \/ TakeNode \/ WalkEnds \/ RetryRequest \/ FinishNode \/ Iterate
          \/ Settle \/ RemoveToken
WfNext == WfCalled \/ WfStep \/ WfTimeout \/ WriteProgress \/ WfCancel

WfSpec == WfInit /\ [][WfNext]_wfVars

\* tokio polls the run, requests are answered or time out, storage answers.  Neither the
\* timeout of the run nor a cancel is needed.
WfFairness == WF_wfVars(WfStep)
WfFairSpec == WfSpec /\ WfFairness

-------------------------------------------------------------------------------
(* Properties *)

Loops  == {n \in ToSet(wf.nodes) : n.type = "loop"}
Body(n) == reachable_between(wf, n.body_start, n.body_end) \cup {n.body_start, n.body_end}
InLoop == UNION {Body(n) : n \in Loops}

\* Loops as the tests draw them (exec.rs:919): an edge leads from the loop into its body, the
\* body leads to its end, and no two bodies have a node in common.  validate does not ask for
\* it: a body that no edge leads into is walked by the graph as well, once and without an item.
LoopsApart(w) ==
  LET loops   == {i \in NodeIds(w) : node(w, i).type = "loop"}
      at(i)   == node(w, i)
      body(i) == reachable_between(w, at(i).body_start, at(i).body_end) IN
  \A i \in loops :
    /\ at(i).body_start \in NodeIds(w) /\ at(i).body_end \in body(i)
    /\ \E e \in EdgeSet(w) : e.from = i /\ e.to = at(i).body_start
    /\ \A j \in loops : j \notin body(i) /\ (i # j => body(i) \cap body(j) = {})

WfTypeOK ==
  /\ wf \in Workflows /\ current \in WfIds \cup {0} /\ wfTries \in 0..HttpRetries
  /\ wfStep \in {"called", "refused", "save", "pick", "busy", "iterate", "settle", "untoken", "ended"}
  /\ Len(walks) <= 2 /\ \A k \in DOMAIN walks : walks[k].seen \subseteq DOMAIN walks[k].degree
  /\ result \in [WfIds -> {"none", "ok", "true", "false", "error"}]
  /\ wfStatus \in {"none", "completed", "failed", "cancelled", "timed_out"}
  /\ wfRow.nodes \subseteq WfIds /\ wfToken \in BOOLEAN /\ wfCancelled \in BOOLEAN

\* A node is executed only when every node with an edge to it has finished, or was
\* skipped by a loop that has: what it reads of them is there.
DependenciesDone ==
  LoopsApart(wf) /\ wfStep = "busy" =>
    \A e \in EdgeSet(wf) :
      e.to = current /\ e.from \in DOMAIN Top.degree /\ result[e.from] = "none" =>
        \E n \in Loops : e.from \in Body(n) /\ result[n.id] # "none"

\* A node outside the bodies of loops is executed at most once, one in a body at most
\* once per iteration.
OncePerWalk ==
  \A n \in WfIds :
    /\ n \notin InLoop => started[n] <= 1
    /\ LoopsApart(wf) /\ started[n] > 1 => \E l \in Loops : n \in Body(l) /\ started[n] <= l.max_iterations

\* A node that failed is the last one executed, and the run fails with it.
FailureIsLast ==
  \A n \in WfIds : result[n] = "error" =>
    /\ wfStep \in {"settle", "untoken", "ended"} /\ wfStatus = "failed"
    /\ \A m \in WfIds : result[m] = "error" => m = n

\* A run that completes has executed every node outside of loops all of whose incoming
\* edges fired.
CompletedRanReady ==
  wfStatus = "completed" =>
    \A n \in {m \in WfIds : result[m] = "none"} :
      (\A e \in DOMAIN wf.edges : wf.edges[e].to = n => e \in firedEdges) => n \in InLoop

\* What was executed has its result, but for the one node a time-out fell into, and when the
\* end of the run is written, the row has all of them and what became of the run.
ResultsRecorded ==
  LET open == {n \in WfIds : started[n] > 0 /\ result[n] = "none"} IN
  /\ open \subseteq {current} \/ (wfStatus = "timed_out" /\ \E n \in open : open = {n})
  /\ wfRow.status \notin {"none", "running"} =>
       wfRow = [status |-> wfStatus, nodes |-> {n \in WfIds : result[n] # "none"}]

\* A cancel that comes while the graph has a node or the loop an item to go ends the run
\* with that work undone: it is never told as completed.
WorkLeft == \/ looping.left > 0
            \/ walks # <<>> /\ \E k \in DOMAIN walks[1].queue : walks[1].queue[k] \notin walks[1].seen
CancelHeard ==
  wfCancelled /\ WorkLeft /\ wfStep \in {"pick", "busy", "iterate"} ~>
    wfStep = "ended" /\ wfStatus # "completed"

\* An accepted run ends by itself, whatever its nodes do, and is registered no longer.
WfEnds == wfStep = "pick" ~> wfStep = "ended" /\ ~wfToken

\* exec.rs:157, "a node runs once every incoming edge that *fires* has been consumed".
JoinRuns ==
  wfStatus = "completed" =>
    \A n \in {m \in WfIds : result[m] = "none"} :
      (\E e \in firedEdges : wf.edges[e].to = n) => n \in InLoop

\* The walk of the graph is an order of it: dependencies first, nothing twice, nothing
\* after a failure, nothing left out that was ready, nothing executed without a result.
WalkInOrder == /\ WfTypeOK /\ DependenciesDone /\ OncePerWalk /\ FailureIsLast /\ CompletedRanReady
               /\ ResultsRecorded
===============================================================================
