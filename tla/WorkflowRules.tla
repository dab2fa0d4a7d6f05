----------------------------- MODULE WorkflowRules -----------------------------
(***************************************************************************)
(* crates/workflow/src/contract.rs, validation.rs: what a workflow is and  *)
(* when it may be run.  Pure functions.  Names of nodes and of variables   *)
(* are numbers from one range, ordered as the code orders strings; of the  *)
(* texts of a node only what validation asks about them is kept.           *)
(***************************************************************************)
EXTENDS Naturals, Sequences, FiniteSets, SequencesExt

(* A workflow is [nodes, edges]: sequences of nodes and edges.                *)
(* A node is [id, type, source, name, complete, in_scope, body_start,         *)
(* body_end, max_iterations]: name is the variable it binds, or 0, complete   *)
(* that its own texts and numbers are filled in and within their limits.      *)
(* A source is [form, first, rest]: "empty", "var" (var.first), "path"        *)
(* (first.rest...) or "bare" (first); rest is the first part of the path.     *)
(* An edge is [from, to, when], when being "none", "true", "false" or "bad".  *)

Sourced   == {"extract_variable", "assert", "condition", "loop"}
Binding   == {"extract_variable", "loop"}
is_boolean(n) == n.type \in {"condition", "assert"}

NodeIds(w)   == {w.nodes[i].id : i \in DOMAIN w.nodes}
node(w, id)  == w.nodes[CHOOSE i \in DOMAIN w.nodes :
                          w.nodes[i].id = id /\ \A j \in 1..(i - 1) : w.nodes[j].id # id]
EdgeSet(w)   == {w.edges[e] : e \in DOMAIN w.edges}
EdgesTo(w, id, from) == {e \in DOMAIN w.edges : w.edges[e].to = id /\ w.edges[e].from \in from}

\* The nodes every set has that holds `from` and what the edges of its members lead to.
closure(w, from, edges) ==
  LET named == {from} \cup {e.to : e \in edges}
      closed(S) == \A e \in edges : e.from \in S => e.to \in S IN
  {n \in named \cap NodeIds(w) : \A S \in SUBSET named : from \in S /\ closed(S) => n \in S}

\* reachable_between: what can be reached from `from` without going on behind `to`.
reachable_between(w, from, to) == closure(w, from, {e \in EdgeSet(w) : e.from # to})

start_nodes(w) ==
  SelectSeq([i \in DOMAIN w.nodes |-> w.nodes[i].id],
            LAMBDA id : \A e \in EdgeSet(w) : e.to # id)

\* One turn of Kahn's loop: the first id of the queue is taken, its targets lose as many
\* in-edges as it has edges to them, and those left without are queued in order.
KahnTurn(w, s) ==
  IF s.queue = <<>> THEN s
  ELSE LET id    == Head(s.queue)
           left  == [n \in DOMAIN s.degree |-> s.degree[n] - Cardinality(EdgesTo(w, n, {id}))]
           freed == {n \in DOMAIN left : left[n] = 0 /\ s.degree[n] > 0}
       IN  [queue |-> Tail(s.queue) \o SetToSortSeq(freed, <), degree |-> left,
            order |-> Append(s.order, id)]

\* topological_order: the order, and the nodes left in a cycle.  Edges out of nodes that
\* do not exist count, and a repeated id leaves a rest.
topological_order(w) ==
  LET degree  == [n \in NodeIds(w) |-> Cardinality({e \in DOMAIN w.edges : w.edges[e].to = n})]
      start   == [queue |-> SetToSortSeq({n \in NodeIds(w) : degree[n] = 0}, <),
                  degree |-> degree, order |-> <<>>]
      turn(s, i) == KahnTurn(w, s)
      end     == FoldLeft(turn, start, w.nodes)
  IN  [ok |-> Len(end.order) = Len(w.nodes), order |-> end.order,
       cycle |-> {n \in NodeIds(w) : end.degree[n] > 0}]

\* The place of each node: in the order, or where it is listed when there is none.
topo_order(w) ==
  LET sorted == topological_order(w) IN
  IF sorted.ok
  THEN [n \in NodeIds(w) |-> CHOOSE k \in DOMAIN sorted.order : sorted.order[k] = n]
  ELSE [n \in NodeIds(w) |->
          CHOOSE i \in DOMAIN w.nodes : /\ w.nodes[i].id = n
                                        /\ \A j \in DOMAIN w.nodes : w.nodes[j].id = n => j <= i]

order_nodes(w) ==
  LET place  == topo_order(w)
      key(i) == place[w.nodes[i].id]
      order  == SetToSortSeq(DOMAIN w.nodes, LAMBDA i, j : key(i) < key(j) \/ (key(i) = key(j) /\ i < j))
  IN  [k \in DOMAIN order |-> w.nodes[order[k]]]

\* check_source: a node must stand earlier in the order and the path must begin with a
\* field that its kind has; a variable must be bound by some node, wherever that stands.
check_source(w, n) ==
  LET s      == n.source
      place  == topo_order(w)
      fields == IF node(w, s.first).type = "http_request" THEN {"response", "output"} ELSE {"output"} IN
  CASE s.form = "empty" -> {"empty source"}
    [] s.form # "empty" /\ s.first \in NodeIds(w) ->
         IF place[s.first] >= place[n.id] THEN {"source does not run before"}
         ELSE IF s.form = "path" /\ s.rest \notin fields THEN {"source path invalid"} ELSE {}
    [] OTHER -> IF \E i \in DOMAIN w.nodes : w.nodes[i].type \in Binding /\ w.nodes[i].name = s.first
                THEN {} ELSE {"unknown source"}

\* The problems of one node; `bound` are the variables bound before it in the order.
node_errors(w, n, bound) ==
  UNION {
    IF n.complete THEN {} ELSE {"incomplete"},
    IF n.type \in Sourced THEN check_source(w, n) ELSE {},
    IF n.type \in Binding /\ n.name \in bound THEN {"variable bound twice"} ELSE {} }

\* And of a loop, which are the same wherever it stands.
loop_errors(w, n) ==
  IF ~({n.body_start, n.body_end} \subseteq NodeIds(w)) THEN {"unknown loop body"}
  ELSE IF \E i \in reachable_between(w, n.body_start, n.body_end) : node(w, i).type = "loop"
  THEN {"nested loop"} ELSE {}

edge_errors(w, k) ==
  LET e == w.edges[k] IN
  UNION {
    IF {e.from, e.to} \subseteq NodeIds(w) THEN {} ELSE {"edge of unknown node"},
    IF \E j \in 1..(k - 1) : w.edges[j].from = e.from /\ w.edges[j].to = e.to THEN {"duplicate edge"} ELSE {},
    IF e.when = "bad" THEN {"bad when"} ELSE {},
    IF e.when # "none" /\ e.from \in NodeIds(w) /\ ~is_boolean(node(w, e.from))
    THEN {"when from a node without a truth value"} ELSE {} }

\* validate: the errors, as a set of their kinds.
validate(w) ==
  IF w.nodes = <<>> THEN {"no nodes"}
  ELSE LET ordered == order_nodes(w) IN
       UNION {
         IF Cardinality(NodeIds(w)) < Len(w.nodes) THEN {"duplicate id"} ELSE {},
         UNION {edge_errors(w, k) : k \in DOMAIN w.edges},
         IF topological_order(w).ok THEN {} ELSE {"cycle"},
         UNION {node_errors(w, ordered[k],
                            {ordered[j].name : j \in {i \in 1..(k - 1) : ordered[i].type \in Binding}})
                : k \in DOMAIN ordered},
         UNION {loop_errors(w, n) : n \in {m \in ToSet(w.nodes) : m.type = "loop"}},
         IF start_nodes(w) = <<>> THEN {"no start"} ELSE {} }

\* The requests outside the scope, which do not block but must be confirmed.
scope_warnings(w) == {n \in ToSet(w.nodes) : n.type = "http_request" /\ ~n.in_scope}
===============================================================================
