------------------------------- MODULE MCWorkflow -------------------------------
(***************************************************************************)
(* The workflows the runs execute: a straight one, one that branches and   *)
(* joins again, one with two starts, one with a loop, and one whose loop   *)
(* no edge leads into.                                                     *)
(***************************************************************************)
EXTENDS WorkflowRun
NoSource == [form |-> "empty", first |-> 0, rest |-> ""]
Of(id)   == [form |-> "path", first |-> id, rest |-> "response"]
Variable(v) == [form |-> "var", first |-> v, rest |-> ""]
Request(id) == [id |-> id, type |-> "http_request", source |-> NoSource, name |-> 0, complete |-> TRUE,
                in_scope |-> TRUE, body_start |-> 0, body_end |-> 0, max_iterations |-> 0]
Step(id, type, source) == [Request(id) EXCEPT !.type = type, !.source = source]
Edge(f, t) == [from |-> f, to |-> t, when |-> "none"]
When(f, t, truth) == [from |-> f, to |-> t, when |-> truth]
Linear == [nodes |-> <<Request(1), [Step(2, "extract_variable", Of(1)) EXCEPT !.name = 11], Step(3, "assert", Variable(11)), Step(4, "delay", NoSource)>>,
           edges |-> <<Edge(1, 2), Edge(2, 3), Edge(3, 4)>>]
Branch == [nodes |-> <<Request(1), Step(2, "condition", Of(1)), Request(3), [Request(4) EXCEPT !.in_scope = FALSE], Request(5)>>,
           edges |-> <<Edge(1, 2), When(2, 3, "true"), When(2, 4, "false"), Edge(3, 5), Edge(4, 5)>>]
Joined == [nodes |-> <<Request(1), Request(2), Step(3, "delay", NoSource)>>, edges |-> <<Edge(1, 3), Edge(2, 3)>>]
LoopNode(id, v, s, e) == [Step(id, "loop", Variable(v)) EXCEPT !.name = 12, !.max_iterations = 2, !.body_start = s, !.body_end = e]
Looped == [nodes |-> <<Request(1), [Step(2, "extract_variable", Of(1)) EXCEPT !.name = 11], LoopNode(3, 11, 4, 5), Request(4), Step(5, "assert", Variable(12)), Step(6, "delay", NoSource)>>,
           edges |-> <<Edge(1, 2), Edge(2, 3), Edge(3, 4), Edge(4, 5), Edge(5, 6)>>]
Loose  == [nodes |-> <<Request(1), [Step(2, "extract_variable", Of(1)) EXCEPT !.name = 11], LoopNode(3, 11, 4, 5), Request(4), Step(5, "delay", NoSource), Step(6, "delay", NoSource)>>,
           edges |-> <<Edge(1, 2), Edge(2, 3), Edge(4, 5), Edge(5, 6)>>]
MCWorkflows == {Linear, Branch, Joined, Looped, Loose}
===============================================================================
