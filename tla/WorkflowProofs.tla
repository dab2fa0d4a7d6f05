----------------------------- MODULE WorkflowProofs -----------------------------
(***************************************************************************)
(* Theorems about WorkflowRun, for every set of workflows: what the walks  *)
(* of the graph and of the bodies of loops have counted down says which    *)
(* nodes have been executed, and how often.                                *)
(***************************************************************************)
EXTENDS WorkflowRun, Descent, FiniteSetTheorems, WellFoundedInduction, TLAPS

\* Every nonempty set of numbers has a least one.
LEMMA LeastElement == ASSUME NEW T, T \subseteq Nat, T # {} PROVE \E x \in T : \A y \in T : x <= y
<1>1. IsWellFoundedOn(OpToRel(<, Nat), Nat)
  BY NatLessThanWellFounded
<1>2. PICK x \in T : \A y \in T : ~(<<y, x>> \in OpToRel(<, Nat))
  BY <1>1, WFMin
<1>3. \A y \in T : ~ (y < x)
  BY <1>2 DEF OpToRel
<1> QED
  BY <1>3

\* So a set that has 0, and with each number below n the next, has all of them up to n.
LEMMA CountingUp ==
  ASSUME NEW n \in Nat, NEW T, 0 \in T, \A i \in 0..n : i < n /\ i \in T => i + 1 \in T
  PROVE  \A i \in 0..n : i \in T
<1> SUFFICES ASSUME NEW i \in 0..n, i \notin T PROVE FALSE
  OBVIOUS
<1> DEFINE rest == {k \in 0..n : k \notin T}
<1>1. rest \subseteq Nat /\ rest # {}
  OBVIOUS
<1>2. PICK x \in rest : \A y \in rest : x <= y
  BY <1>1, LeastElement
<1>3. x # 0 /\ x - 1 \in 0..n /\ x - 1 < n /\ ~ (x <= x - 1)
  BY <1>2
<1>4. x - 1 \in T /\ (x - 1) + 1 = x
  BY <1>2, <1>3
<1> QED
  BY <1>2, <1>3, <1>4

-------------------------------------------------------------------------------
(* What the operators of the runner do                                       *)

\* No member is there twice.
Injective(s) == \A i, j \in DOMAIN s : s[i] = s[j] => i = j

\* What filter has kept of the first k members, as Only computes it.
KeptOf(kept, s, S) ==
  kept = [k \in 0..Len(s) |->
            IF k = 0 THEN <<>> ELSE IF s[k] \in S THEN Append(kept[k - 1], s[k]) ELSE kept[k - 1]]

\* There is such a thing.
LEMMA KeptOfExists == ASSUME NEW X, NEW s \in Seq(X), NEW S PROVE \E kept : KeptOf(kept, s, S)
<1> DEFINE Next(k, t) == IF s[k] \in S THEN Append(t, s[k]) ELSE t
           Upto(n, g) == g = [k \in 0..n |-> IF k = 0 THEN <<>> ELSE Next(k, g[k - 1])]
           T == {n \in 0..Len(s) : \E g : Upto(n, g)}
<1> HIDE DEF Next
<1>1. 0 \in T
  <2>1. Upto(0, [k \in 0..0 |-> <<>>])
    OBVIOUS
  <2> HIDE DEF Upto
  <2> QED
    BY <2>1
<1>2. ASSUME NEW n \in 0..Len(s), n < Len(s), n \in T PROVE n + 1 \in T
  <2>1. PICK g : Upto(n, g)
    BY <1>2
  <2> DEFINE h == [k \in 0..(n + 1) |-> IF k = n + 1 THEN Next(n + 1, g[n]) ELSE g[k]]
  <2>2. \A k \in 0..n : g[k] = IF k = 0 THEN <<>> ELSE Next(k, g[k - 1])
    BY <2>1
  <2>3. \A k \in 0..(n + 1) : h[k] = IF k = 0 THEN <<>> ELSE Next(k, h[k - 1])
    <3> TAKE k \in 0..(n + 1)
    <3>1. CASE k = n + 1
      BY <3>1
    <3>2. CASE k # n + 1
      <4>1. k \in 0..n /\ (k # 0 => k - 1 \in 0..n /\ k - 1 # n + 1)
        BY <3>2
      <4> QED
        BY <2>2, <3>2, <4>1
    <3> QED
      BY <3>1, <3>2
  <2>4. Upto(n + 1, h)
    <3> HIDE DEF h
    <3>1. h = [k \in 0..(n + 1) |-> h[k]]
      BY DEF h
    <3> QED
      BY <2>3, <3>1
  <2>5. \E e : Upto(n + 1, e)
    BY <2>4
  <2> HIDE DEF Upto
  <2> QED
    BY <1>2, <2>5
<1>3. Len(s) \in T
  <2> HIDE DEF T
  <2>1. Len(s) \in Nat
    OBVIOUS
  <2>2. \A k \in 0..Len(s) : k \in T
    BY <1>1, <1>2, <2>1, CountingUp
  <2> QED
    BY <2>1, <2>2
<1>4. \E g : Upto(Len(s), g)
  <2> HIDE DEF Upto
  <2> QED
    BY <1>3
<1> QED
  BY <1>4 DEF KeptOf, Next

\* filter keeps the members that are in S, and a member that is there once once.
LEMMA OnlyKeeps ==
  ASSUME NEW X, NEW s \in Seq(X), NEW S
  PROVE  /\ Only(s, S) \in Seq(X)
         /\ ToSet(Only(s, S)) = ToSet(s) \cap S
         /\ Injective(s) => Injective(Only(s, S))
<1> DEFINE kept == CHOOSE g : KeptOf(g, s, S)
           From(t, k) == \A m \in 1..Len(t) : t[m] \in S /\ \E n \in 1..k : s[n] = t[m]
           All(t, k) == \A n \in 1..k : s[n] \in S => \E m \in 1..Len(t) : t[m] = s[n]
           Good(t, k) == t \in Seq(X) /\ From(t, k) /\ All(t, k) /\ (Injective(s) => Injective(t))
           T == {k \in 0..Len(s) : Good(kept[k], k)}
<1>1. KeptOf(kept, s, S) /\ Only(s, S) = kept[Len(s)]
  <2>1. KeptOf(kept, s, S)
    BY KeptOfExists
  <2>2. Only(s, S) = (CHOOSE g : KeptOf(g, s, S))[Len(s)]
    BY DEF Only, KeptOf
  <2> QED
    BY <2>1, <2>2
<1> HIDE DEF kept
<1>2. kept[0] = <<>> /\ \A k \in 1..Len(s) : kept[k] = IF s[k] \in S THEN Append(kept[k - 1], s[k]) ELSE kept[k - 1]
  <2>1. Len(s) \in Nat
    OBVIOUS
  <2>2. \A k \in 0..Len(s) :
          kept[k] = IF k = 0 THEN <<>> ELSE IF s[k] \in S THEN Append(kept[k - 1], s[k]) ELSE kept[k - 1]
    BY <1>1, Zenon DEF KeptOf
  <2> QED
    BY <2>1, <2>2
<1>3. 0 \in T
  <2>1. <<>> \in Seq(X) /\ From(<<>>, 0) /\ All(<<>>, 0) /\ Injective(<<>>) /\ 0 \in 0..Len(s)
    BY DEF Injective
  <2>2. Good(<<>>, 0)
    BY <2>1
  <2> HIDE DEF Good
  <2> QED
    BY <1>2, <2>1, <2>2
<1>4. ASSUME NEW k \in 0..Len(s), k < Len(s), k \in T PROVE k + 1 \in T
  <2>1. k + 1 \in 1..Len(s) /\ (k + 1) - 1 = k /\ k \in Nat /\ s[k + 1] \in X
    BY <1>4
  <2>2. kept[k + 1] = IF s[k + 1] \in S THEN Append(kept[k], s[k + 1]) ELSE kept[k]
    BY <1>2, <2>1
  <2>3. Good(kept[k], k)
    BY <1>4
  <2>4. ASSUME s[k + 1] \notin S PROVE Good(kept[k + 1], k + 1)
    BY <2>1, <2>2, <2>3, <2>4
  <2>5. ASSUME s[k + 1] \in S PROVE Good(kept[k + 1], k + 1)
    <3> DEFINE t == kept[k]
               u == kept[k + 1]
    <3>1. u = Append(t, s[k + 1]) /\ t \in Seq(X) /\ From(t, k) /\ All(t, k)
      BY <2>2, <2>3, <2>5
    <3> HIDE DEF t, u, From, All, Good
    <3>2. u \in Seq(X) /\ Len(u) = Len(t) + 1 /\ Len(t) \in Nat /\ u[Len(u)] = s[k + 1] /\ \A m \in 1..Len(t) : u[m] = t[m]
      BY <2>1, <3>1
    <3>3. From(u, k + 1)
      BY <2>1, <2>5, <3>1, <3>2 DEF From
    <3>4. All(u, k + 1)
      BY <2>1, <3>1, <3>2 DEF All
    <3>5. Injective(s) => Injective(u)
      <4> SUFFICES ASSUME Injective(s), NEW i \in 1..Len(u), NEW j \in 1..Len(u), u[i] = u[j], i < j PROVE FALSE
        BY <3>2 DEF Injective
      <4>1. i \in 1..Len(t) /\ u[i] = t[i]
        BY <3>2
      <4>2. j # Len(u)
        <5>1. PICK n \in 1..k : s[n] = t[i]
          BY <3>1, <4>1 DEF From
        <5>2. s[n] # s[k + 1]
          BY <2>1, <5>1 DEF Injective
        <5> QED
          BY <3>2, <4>1, <5>1, <5>2
      <4>3. j \in 1..Len(t) /\ u[j] = t[j] /\ Injective(t)
        BY <2>3, <3>2, <4>2 DEF Good, t
      <4> QED
        BY <3>1, <4>1, <4>3 DEF Injective
    <3> QED
      BY <3>2, <3>3, <3>4, <3>5 DEF Good, u
  <2> HIDE DEF Good
  <2> QED
    BY <2>1, <2>4, <2>5
<1>5. Good(kept[Len(s)], Len(s)) /\ Len(s) \in Nat
  <2>1. Len(s) \in Nat
    OBVIOUS
  <2>2. \A k \in 0..Len(s) : k \in T
    <3> HIDE DEF T
    <3> QED
      BY <1>3, <1>4, <2>1, CountingUp
  <2> QED
    BY <2>1, <2>2
<1>6. ToSet(kept[Len(s)]) = ToSet(s) \cap S
  <2> DEFINE t == kept[Len(s)]
  <2>1. DOMAIN t = 1..Len(t) /\ DOMAIN s = 1..Len(s) /\ From(t, Len(s)) /\ All(t, Len(s))
    BY <1>5
  <2> HIDE DEF t
  <2>2. \A x : x \in ToSet(t) <=> \E m \in 1..Len(t) : t[m] = x
    BY <2>1 DEF ToSet
  <2>3. \A x : x \in ToSet(s) <=> \E m \in 1..Len(s) : s[m] = x
    BY <2>1 DEF ToSet
  <2>4. \A x : x \in ToSet(t) <=> x \in ToSet(s) /\ x \in S
    BY <2>1, <2>2, <2>3
  <2> QED
    BY <2>4 DEF t
<1> QED
  BY <1>1, <1>5, <1>6

\* The edges of a node that fire on what it came to, each once.
Leaving(edges, n, output) ==
  /\ edges \in Seq(DOMAIN wf.edges) /\ Injective(edges) /\ ToSet(edges) \subseteq DOMAIN wf.edges
  /\ \A e \in DOMAIN wf.edges : e \in ToSet(edges) <=> wf.edges[e].from = n /\ fires(wf.edges[e], output)

\* These are what next_nodes finds.
LEMMA NextEdges ==
  ASSUME NEW n, NEW output, wf.edges \in Seq(EdgeSet(wf)) PROVE Leaving(next_nodes(n, output), n, output)
<1> DEFINE all == [e \in DOMAIN wf.edges |-> e]
<1>1. all \in Seq(DOMAIN wf.edges) /\ Injective(all) /\ ToSet(all) = DOMAIN wf.edges
  <2>1. DOMAIN wf.edges = 1..Len(wf.edges) /\ Len(wf.edges) \in Nat
    OBVIOUS
  <2> DEFINE n0 == Len(wf.edges)
  <2>2. all = [e \in 1..n0 |-> e] /\ n0 \in Nat
    BY <2>1
  <2> HIDE DEF all, n0
  <2>3. all \in Seq(1..n0) /\ DOMAIN all = 1..n0 /\ \A e \in 1..n0 : all[e] = e
    BY <2>2
  <2>4. Injective(all)
    BY <2>3 DEF Injective
  <2>5. ToSet(all) = 1..n0
    BY <2>3 DEF ToSet
  <2> QED
    BY <2>1, <2>3, <2>4, <2>5 DEF n0
<1> HIDE DEF all
<1>2. next_nodes(n, output) = Only(all, {e \in DOMAIN wf.edges : wf.edges[e].from = n /\ fires(wf.edges[e], output)})
  BY DEF next_nodes, all
<1> DEFINE S == {e \in DOMAIN wf.edges : wf.edges[e].from = n /\ fires(wf.edges[e], output)}
<1>3. \A e \in DOMAIN wf.edges : e \in S <=> wf.edges[e].from = n /\ fires(wf.edges[e], output)
  OBVIOUS
<1> HIDE DEF S
<1>4. Only(all, S) \in Seq(DOMAIN wf.edges) /\ Injective(Only(all, S)) /\ ToSet(Only(all, S)) = DOMAIN wf.edges \cap S
  BY <1>1, OnlyKeeps
<1>5. next_nodes(n, output) = Only(all, S)
  BY <1>2 DEF S
<1> QED
  BY <1>3, <1>4, <1>5 DEF Leaving

-------------------------------------------------------------------------------
(* The books of a walk: what its nodes owe                                   *)

\* The loops of a workflow, the body of one, and all bodies.
LoopIds(w)   == {i \in NodeIds(w) : node(w, i).type = "loop"}
BodyIn(w, l) == reachable_between(w, node(w, l).body_start, node(w, l).body_end)
Bodies(w)    == UNION {BodyIn(w, l) : l \in LoopIds(w)}

\* The nodes whose edges have counted down the walk of the whole graph: those executed outside the bodies, and
\* the ends of the bodies of loops that are over.
Done(w, came) ==
  {n \in NodeIds(w) \ (Bodies(w) \cup LoopIds(w)) : came[n] # "none"}
    \cup {node(w, l).body_end : l \in {k \in LoopIds(w) : came[k] # "none"}}

\* The edges that leave these nodes and fire on what they came to.
EdgesFrom(w, nodes, came) ==
  {e \in DOMAIN w.edges : w.edges[e].from \in nodes /\ fires(w.edges[e], came[w.edges[e].from])}

\* A walk is a record of these.
WalkRecords(w) ==
  [degree : UNION {[ids -> Nat] : ids \in SUBSET NodeIds(w)}, seen : SUBSET NodeIds(w),
   to : NodeIds(w) \cup {0}, queue : Seq(NodeIds(w))]

\* A walk over ids in which these edges have counted down: each node owes the others, and those that owe
\* nothing are queued or were.
GoodWalk(w, walk, ids, fired) ==
  /\ walk \in WalkRecords(w) /\ walk.degree \in [ids -> Nat]
  /\ \A n \in ids : walk.degree[n] + Cardinality(EdgesTo(w, n, ids) \cap fired) = Cardinality(EdgesTo(w, n, ids))
  /\ walk.queue \in Seq(ids) /\ walk.seen \subseteq ids
  /\ \A n \in ids : walk.degree[n] = 0 <=> n \in walk.seen \cup ToSet(walk.queue)

\* A workflow is two sequences, so sets of its edges are finite.
LEMMA EdgesFinite ==
  ASSUME NEW w \in Workflows
  PROVE  /\ w.nodes \in Seq(ToSet(w.nodes)) /\ w.edges \in Seq(EdgeSet(w)) /\ 0 \notin NodeIds(w)
         /\ \A E \in SUBSET DOMAIN w.edges : IsFiniteSet(E) /\ Cardinality(E) \in Nat
         /\ \A n, ids : EdgesTo(w, n, ids) \in SUBSET DOMAIN w.edges
<1>1. w.nodes \in Seq(ToSet(w.nodes)) /\ w.edges \in Seq(EdgeSet(w)) /\ 0 \notin NodeIds(w)
  BY WorkflowAssumption DEF NodeIds
<1>2. DOMAIN w.edges = 1..Len(w.edges) /\ Len(w.edges) \in Nat
  BY <1>1
<1>3. IsFiniteSet(DOMAIN w.edges)
  BY <1>2, FS_Interval
<1>4. \A E \in SUBSET DOMAIN w.edges : IsFiniteSet(E) /\ Cardinality(E) \in Nat
  BY <1>3, FS_Subset, FS_CardinalityType
<1>5. \A n, ids : EdgesTo(w, n, ids) \in SUBSET DOMAIN w.edges
  BY DEF EdgesTo
<1> QED
  BY <1>1, <1>4, <1>5

\* Counting the places of a sequence without repetitions is counting its members.
LEMMA PlacesCount ==
  ASSUME NEW D, NEW s \in Seq(D), Injective(s), NEW P, IsFiniteSet(ToSet(s))
  PROVE  Cardinality({k \in DOMAIN s : s[k] \in P}) = Cardinality(ToSet(s) \cap P)
<1> DEFINE S == {k \in DOMAIN s : s[k] \in P}
           R == ToSet(s) \cap P
           f == [k \in S |-> s[k]]
<1>1. f \in Bijection(S, R)
  <2>1. f \in [S -> R]
    BY DEF ToSet
  <2>2. IsInjective(f)
    BY DEF IsInjective, Injective
  <2>3. \A t \in R : \E k \in S : f[k] = t
    BY DEF ToSet
  <2> HIDE DEF f, S, R
  <2> QED
    BY <2>1, <2>2, <2>3 DEF Bijection, Injection, Surjection
<1> HIDE DEF f, S, R
<1>2. f \in Injection(S, R) /\ f \in Surjection(S, R)
  BY <1>1 DEF Bijection
<1>3. IsFiniteSet(R)
  BY FS_Subset DEF R
<1>4. Cardinality(R) = Cardinality(S)
  BY <1>2, <1>3, FS_Injection
<1> QED
  BY <1>4 DEF S, R

\* A walk begins with what all nodes owe, and with those that owe nothing in the queue.
LEMMA WalkBegins ==
  ASSUME wf \in Workflows, NEW ids \in SUBSET WfIds, NEW to \in WfIds \cup {0}
  PROVE  GoodWalk(wf, Walk(ids, to), ids, {}) /\ Walk(ids, to).to = to /\ Walk(ids, to).seen = {}
<1> DEFINE degree == [n \in ids |-> Cardinality(EdgesTo(wf, n, ids))]
           listed == [i \in DOMAIN wf.nodes |-> wf.nodes[i].id]
           free   == {n \in ids : degree[n] = 0}
           queue  == Only(listed, free)
<1>1. Walk(ids, to) = [degree |-> degree, seen |-> {}, to |-> to, queue |-> queue]
  BY DEF Walk
<1>2. degree \in [ids -> Nat]
  BY EdgesFinite
<1>3. listed \in Seq(WfIds) /\ ToSet(listed) = WfIds
  <2>1. DOMAIN wf.nodes = 1..Len(wf.nodes) /\ Len(wf.nodes) \in Nat
    BY EdgesFinite
  <2>2. \A i \in DOMAIN wf.nodes : wf.nodes[i].id \in WfIds
    BY DEF WfIds, NodeIds
  <2>3. listed \in Seq(WfIds)
    BY <2>1, <2>2
  <2>4. ToSet(listed) = WfIds
    BY DEF ToSet, WfIds, NodeIds
  <2> QED
    BY <2>3, <2>4
<1>4. queue \in Seq(WfIds) /\ ToSet(queue) = free
  <2> HIDE DEF listed, free
  <2>1. queue \in Seq(WfIds) /\ ToSet(queue) = WfIds \cap free
    BY <1>3, OnlyKeeps
  <2> QED
    BY <2>1 DEF free
<1>5. queue \in Seq(ids)
  <2>1. free \subseteq ids
    OBVIOUS
  <2> HIDE DEF queue, listed, free
  <2>2. DOMAIN queue = 1..Len(queue)
    BY <1>4
  <2>3. \A k \in 1..Len(queue) : queue[k] \in ids
    BY <1>4, <2>1, <2>2 DEF ToSet
  <2> QED
    BY <1>4, <2>3
<1>6. Walk(ids, to) \in WalkRecords(wf)
  <2> HIDE DEF queue, degree
  <2>1. degree \in UNION {[s -> Nat] : s \in SUBSET NodeIds(wf)}
    BY <1>2 DEF WfIds
  <2> QED
    BY <1>1, <1>4, <2>1 DEF WalkRecords, WfIds
<1>7. \A n \in ids : degree[n] + Cardinality(EdgesTo(wf, n, ids) \cap {}) = Cardinality(EdgesTo(wf, n, ids))
  <2> TAKE n \in ids
  <2>1. EdgesTo(wf, n, ids) \cap {} = {}
    OBVIOUS
  <2> QED
    BY <1>2, <2>1, FS_EmptySet
<1>8. \A n \in ids : degree[n] = 0 <=> n \in {} \cup ToSet(queue)
  BY <1>4
<1> HIDE DEF degree, queue
<1> QED
  BY <1>1, <1>2, <1>5, <1>6, <1>7, <1>8 DEF GoodWalk

\* decrement leaves the end and the visited nodes of a walk alone.
LEMMA DecrementCounts ==
  ASSUME NEW walk \in WalkRecords(wf), NEW edges
  PROVE  decrement(walk, edges).to = walk.to /\ decrement(walk, edges).seen = walk.seen
BY DEF decrement, WalkRecords

\* Edges of nodes in a walk that have not counted yet count down what their targets owe, and queue those that
\* owe nothing any more.
LEMMA DecrementKeeps ==
  ASSUME wf \in Workflows, NEW ids \in SUBSET WfIds, NEW walk, NEW fired, GoodWalk(wf, walk, ids, fired),
         NEW edges \in Seq(DOMAIN wf.edges), Injective(edges), ToSet(edges) \cap fired = {},
         \A e \in ToSet(edges) : wf.edges[e].from \in ids
  PROVE  /\ GoodWalk(wf, decrement(walk, edges), ids, fired \cup ToSet(edges))
         /\ decrement(walk, edges).to = walk.to /\ decrement(walk, edges).seen = walk.seen
<1> DEFINE count(n) == Cardinality({k \in DOMAIN edges : wf.edges[edges[k]].to = n})
           freed   == {n \in ids : walk.degree[n] <= count(n) /\ ~Contains(walk.queue, n)}
           targets == [k \in DOMAIN edges |-> wf.edges[edges[k]].to]
           degree  == [n \in ids |-> IF count(n) < walk.degree[n] THEN walk.degree[n] - count(n) ELSE 0]
           queue   == walk.queue \o Only(targets, freed)
           new     == decrement(walk, edges)
           owed(n) == EdgesTo(wf, n, ids)
<1>1. /\ walk \in WalkRecords(wf) /\ walk.degree \in [ids -> Nat]
      /\ \A n \in ids : walk.degree[n] + Cardinality(owed(n) \cap fired) = Cardinality(owed(n))
      /\ walk.queue \in Seq(ids) /\ walk.seen \subseteq ids
      /\ \A n \in ids : walk.degree[n] = 0 <=> n \in walk.seen \cup ToSet(walk.queue)
  BY DEF GoodWalk
<1>2. new = [walk EXCEPT !.degree = degree, !.queue = queue]
  <2>1. DOMAIN walk.degree = ids
    BY <1>1
  <2> QED
    BY <2>1 DEF decrement
<1>3. /\ new.degree = degree /\ new.queue = queue /\ new.seen = walk.seen /\ new.to = walk.to
      /\ new = [degree |-> degree, seen |-> walk.seen, to |-> walk.to, queue |-> queue]
      /\ walk.seen \in SUBSET NodeIds(wf) /\ walk.to \in NodeIds(wf) \cup {0}
  <2> HIDE DEF degree, queue, new
  <2> QED
    BY <1>1, <1>2 DEF WalkRecords
<1>4. \A n \in ids : count(n) = Cardinality(owed(n) \cap ToSet(edges))
  <2> TAKE n \in ids
  <2> DEFINE P == {e \in DOMAIN wf.edges : wf.edges[e].to = n}
  <2>1. ToSet(edges) \in SUBSET DOMAIN wf.edges
    BY DEF ToSet
  <2>2. IsFiniteSet(ToSet(edges))
    BY <2>1, EdgesFinite
  <2>3. Cardinality({k \in DOMAIN edges : edges[k] \in P}) = Cardinality(ToSet(edges) \cap P)
    <3> HIDE DEF P
    <3> QED
      BY <2>2, PlacesCount
  <2>4. {k \in DOMAIN edges : edges[k] \in P} = {k \in DOMAIN edges : wf.edges[edges[k]].to = n}
    OBVIOUS
  <2>5. ToSet(edges) \cap P = owed(n) \cap ToSet(edges)
    BY <2>1 DEF EdgesTo
  <2> QED
    BY <2>3, <2>4, <2>5
<1>5. \A n \in ids :
        /\ Cardinality(owed(n) \cap (fired \cup ToSet(edges))) = Cardinality(owed(n) \cap fired) + count(n)
        /\ Cardinality(owed(n) \cap (fired \cup ToSet(edges))) <= Cardinality(owed(n))
        /\ Cardinality(owed(n) \cap fired) \in Nat /\ count(n) \in Nat /\ Cardinality(owed(n)) \in Nat
  <2> TAKE n \in ids
  <2> DEFINE A == owed(n) \cap fired
             B == owed(n) \cap ToSet(edges)
  <2>1. owed(n) \in SUBSET DOMAIN wf.edges
    BY EdgesFinite
  <2>2. /\ IsFiniteSet(A) /\ IsFiniteSet(B) /\ IsFiniteSet(owed(n))
        /\ Cardinality(A) \in Nat /\ Cardinality(B) \in Nat /\ Cardinality(owed(n)) \in Nat
    BY <2>1, EdgesFinite
  <2>3. A \cap B = {} /\ owed(n) \cap (fired \cup ToSet(edges)) = A \cup B /\ A \cup B \in SUBSET owed(n)
    OBVIOUS
  <2> HIDE DEF A, B
  <2>4. Cardinality(A \cup B) = Cardinality(A) + Cardinality(B)
    <3>1. Cardinality(A \cup B) = Cardinality(A) + Cardinality(B) - Cardinality(A \cap B)
      BY <2>2, FS_Union
    <3>2. Cardinality(A \cap B) = 0
      BY <2>3, FS_EmptySet
    <3> QED
      BY <2>2, <3>1, <3>2
  <2>5. Cardinality(A \cup B) <= Cardinality(owed(n))
    BY <2>2, <2>3, FS_Subset
  <2>6. count(n) = Cardinality(B)
    BY <1>4 DEF B
  <2> HIDE DEF count, owed
  <2> QED
    BY <2>2, <2>3, <2>4, <2>5, <2>6 DEF A
<1> HIDE DEF count, owed, new
<1>6. \A n \in ids :
        /\ degree[n] = walk.degree[n] - count(n) /\ count(n) <= walk.degree[n] /\ degree[n] \in Nat
        /\ degree[n] + Cardinality(owed(n) \cap (fired \cup ToSet(edges))) = Cardinality(owed(n))
  <2> TAKE n \in ids
  <2> DEFINE a == Cardinality(owed(n) \cap fired)
             b == Cardinality(owed(n))
             c == count(n)
             d == walk.degree[n]
             x == Cardinality(owed(n) \cap (fired \cup ToSet(edges)))
  <2>1. d \in Nat /\ d + a = b
    BY <1>1
  <2>2. x = a + c /\ x <= b /\ a \in Nat /\ b \in Nat /\ c \in Nat
    BY <1>5
  <2>3. degree[n] = IF c < d THEN d - c ELSE 0
    OBVIOUS
  <2> HIDE DEF a, b, c, d, x, degree
  <2>4. c <= d /\ degree[n] = d - c /\ degree[n] \in Nat /\ degree[n] + x = b
    BY <2>1, <2>2, <2>3
  <2> QED
    BY <2>4 DEF b, c, d, x
<1>7. degree \in [ids -> Nat]
  BY <1>6
<1>8. \A n \in ids : degree[n] + Cardinality(owed(n) \cap (fired \cup ToSet(edges))) = Cardinality(owed(n))
  BY <1>6
<1>9. Only(targets, freed) \in Seq(ids) /\ ToSet(Only(targets, freed)) = ToSet(targets) \cap freed
  <2> DEFINE all == {wf.edges[e].to : e \in DOMAIN wf.edges}
  <2>1. targets \in Seq(all)
    OBVIOUS
  <2>2. freed \subseteq ids
    OBVIOUS
  <2> HIDE DEF targets, freed, all
  <2>3. Only(targets, freed) \in Seq(all) /\ ToSet(Only(targets, freed)) = ToSet(targets) \cap freed
    BY <2>1, OnlyKeeps
  <2>4. \A k \in DOMAIN Only(targets, freed) : Only(targets, freed)[k] \in ids
    BY <2>2, <2>3 DEF ToSet
  <2> QED
    BY <2>3, <2>4
<1>10. queue \in Seq(ids) /\ ToSet(queue) = ToSet(walk.queue) \cup (ToSet(targets) \cap freed)
  <2> DEFINE more == Only(targets, freed)
  <2>1. more \in Seq(ids) /\ ToSet(more) = ToSet(targets) \cap freed
    BY <1>9
  <2> HIDE DEF more
  <2>2. walk.queue \o more \in Seq(ids) /\ ToSet(walk.queue \o more) = ToSet(walk.queue) \cup ToSet(more)
    <3>1. walk.queue \in Seq(ids)
      BY <1>1
    <3> DEFINE q == walk.queue
    <3> HIDE DEF q
    <3>2. q \o more \in Seq(ids) /\ Len(q \o more) = Len(q) + Len(more) /\ Len(q) \in Nat /\ Len(more) \in Nat
      BY <2>1, <3>1 DEF q
    <3>3. \A k \in 1..Len(q \o more) :
            (k \in 1..Len(q) /\ (q \o more)[k] = q[k]) \/ (k - Len(q) \in 1..Len(more) /\ (q \o more)[k] = more[k - Len(q)])
      BY <2>1, <3>1, <3>2 DEF q
    <3>4. \A k \in 1..Len(q) : k \in 1..Len(q \o more) /\ (q \o more)[k] = q[k]
      BY <2>1, <3>1, <3>2 DEF q
    <3>5. \A k \in 1..Len(more) : k + Len(q) \in 1..Len(q \o more) /\ (q \o more)[k + Len(q)] = more[k]
      BY <2>1, <3>1, <3>2 DEF q
    <3>6. DOMAIN q = 1..Len(q) /\ DOMAIN more = 1..Len(more) /\ DOMAIN (q \o more) = 1..Len(q \o more)
      BY <2>1, <3>1, <3>2 DEF q
    <3>7. ToSet(q \o more) \subseteq ToSet(q) \cup ToSet(more)
      BY <3>3, <3>6 DEF ToSet
    <3>8. ToSet(q) \subseteq ToSet(q \o more) /\ ToSet(more) \subseteq ToSet(q \o more)
      BY <3>4, <3>5, <3>6 DEF ToSet
    <3> QED
      BY <3>2, <3>7, <3>8 DEF q
  <2> QED
    BY <2>1, <2>2 DEF more
<1>11. \A n \in ids : n \in ToSet(targets) \/ count(n) = 0
  <2> SUFFICES ASSUME NEW n \in ids, n \notin ToSet(targets) PROVE count(n) = 0
    OBVIOUS
  <2>1. {k \in DOMAIN edges : wf.edges[edges[k]].to = n} = {}
    BY DEF ToSet
  <2> QED
    BY <2>1, FS_EmptySet DEF count
<1>12. \A n \in ids : Contains(walk.queue, n) <=> n \in ToSet(walk.queue)
  BY <1>1 DEF Contains, ToSet
<1>13. \A n \in ids : degree[n] = 0 <=> n \in walk.seen \cup ToSet(queue)
  <2> TAKE n \in ids
  <2>1. /\ degree[n] = walk.degree[n] - count(n) /\ walk.degree[n] \in Nat /\ count(n) \in Nat /\ degree[n] \in Nat
        /\ walk.degree[n] = 0 <=> n \in walk.seen \cup ToSet(walk.queue)
        /\ count(n) <= walk.degree[n]
    BY <1>1, <1>5, <1>6
  <2>2. n \in freed <=> walk.degree[n] <= count(n) /\ n \notin ToSet(walk.queue)
    BY <1>12
  <2>3. n \in ToSet(queue) <=> n \in ToSet(walk.queue) \/ (n \in ToSet(targets) /\ n \in freed)
    BY <1>10
  <2>4. n \in ToSet(targets) \/ count(n) = 0
    BY <1>11
  <2> HIDE DEF degree, freed, queue, targets
  <2> QED
    BY <2>1, <2>2, <2>3, <2>4
<1>14. new \in WalkRecords(wf)
  <2>1. degree \in UNION {[s -> Nat] : s \in SUBSET NodeIds(wf)}
    BY <1>7 DEF WfIds
  <2>2. queue \in Seq(NodeIds(wf))
    BY <1>10 DEF WfIds
  <2> HIDE DEF degree, queue
  <2> QED
    BY <1>3, <2>1, <2>2 DEF WalkRecords
<1> HIDE DEF degree, queue
<1>15. GoodWalk(wf, new, ids, fired \cup ToSet(edges))
  BY <1>1, <1>3, <1>7, <1>8, <1>10, <1>13, <1>14 DEF GoodWalk, owed
<1> QED
  BY <1>3, <1>15 DEF new

\* Taking the head of the queue changes no counts: it has been seen then.
LEMMA TakeKeeps ==
  ASSUME wf \in Workflows, NEW ids \in SUBSET WfIds, NEW walk, NEW fired, GoodWalk(wf, walk, ids, fired),
         walk.queue # <<>>, NEW new, new.degree = walk.degree, new.to = walk.to, new.queue = Tail(walk.queue),
         new.seen = walk.seen \cup {Head(walk.queue)},
         new = [degree |-> new.degree, seen |-> new.seen, to |-> new.to, queue |-> new.queue]
  PROVE  GoodWalk(wf, new, ids, fired) /\ Head(walk.queue) \in ids
<1> DEFINE q == walk.queue
           h == Head(q)
<1>1. /\ walk \in WalkRecords(wf) /\ walk.degree \in [ids -> Nat]
      /\ \A n \in ids : walk.degree[n] + Cardinality(EdgesTo(wf, n, ids) \cap fired) = Cardinality(EdgesTo(wf, n, ids))
      /\ q \in Seq(ids) /\ walk.seen \subseteq ids
      /\ \A n \in ids : walk.degree[n] = 0 <=> n \in walk.seen \cup ToSet(q)
  BY DEF GoodWalk
<1>2. /\ new.degree = walk.degree /\ new.queue = Tail(q) /\ new.seen = walk.seen \cup {h} /\ new.to = walk.to
      /\ new = [degree |-> walk.degree, seen |-> walk.seen \cup {h}, to |-> walk.to, queue |-> Tail(q)]
  OBVIOUS
<1> HIDE DEF q
<1>3. h \in ids /\ Tail(q) \in Seq(ids)
  BY <1>1 DEF q
<1>4. {h} \cup ToSet(Tail(q)) = ToSet(q)
  <2>1. Len(q) \in Nat /\ q # <<>> /\ DOMAIN q = 1..Len(q) /\ h = q[1]
    BY <1>1 DEF q
  <2>2. Len(Tail(q)) = Len(q) - 1 /\ DOMAIN Tail(q) = 1..(Len(q) - 1) /\ \A k \in 1..(Len(q) - 1) : Tail(q)[k] = q[k + 1]
    BY <1>1, <2>1
  <2>3. \A k \in 1..Len(q) : k = 1 \/ (k - 1 \in 1..(Len(q) - 1) /\ (k - 1) + 1 = k)
    BY <2>1
  <2>4. \A k \in 1..(Len(q) - 1) : k + 1 \in 1..Len(q)
    BY <2>1
  <2>5. 1 \in 1..Len(q)
    BY <1>1, <2>1
  <2> HIDE DEF h
  <2>6. ToSet(q) \subseteq {h} \cup ToSet(Tail(q))
    BY <2>1, <2>2, <2>3 DEF ToSet
  <2>7. {h} \cup ToSet(Tail(q)) \subseteq ToSet(q)
    BY <2>1, <2>2, <2>4, <2>5 DEF ToSet
  <2> QED
    BY <2>6, <2>7
<1> HIDE DEF h
<1>5. walk.seen \cup ToSet(q) = new.seen \cup ToSet(new.queue)
  BY <1>2, <1>4
<1>6. new \in WalkRecords(wf)
  <2>1. walk.seen \cup {h} \in SUBSET NodeIds(wf) /\ Tail(q) \in Seq(NodeIds(wf))
    BY <1>1, <1>3 DEF WfIds
  <2> QED
    BY <1>1, <1>2, <2>1 DEF WalkRecords
<1>7. GoodWalk(wf, new, ids, fired)
  BY <1>1, <1>2, <1>3, <1>5, <1>6 DEF GoodWalk
<1> QED
  BY <1>2, <1>3, <1>7 DEF h, q

-------------------------------------------------------------------------------
(* What validation and LoopsApart say of a workflow                          *)

\* The ends of every edge are nodes, as validate demands.
EdgesKnown(w) == \A e \in DOMAIN w.edges : w.edges[e].from \in NodeIds(w) /\ w.edges[e].to \in NodeIds(w)

\* validate accepts no edge of an unknown node.
LEMMA ValidEdges == ASSUME NEW w, validate(w) = {} PROVE EdgesKnown(w)
<1>1. w.nodes # <<>>
  BY DEF validate
<1>2. UNION {edge_errors(w, k) : k \in DOMAIN w.edges} = {}
  BY <1>1 DEF validate
<1>3. \A k \in DOMAIN w.edges : edge_errors(w, k) = {}
  BY <1>2
<1>4. ASSUME NEW k \in DOMAIN w.edges PROVE {w.edges[k].from, w.edges[k].to} \subseteq NodeIds(w)
  <2>1. edge_errors(w, k) = {}
    BY <1>3
  <2>2. (IF {w.edges[k].from, w.edges[k].to} \subseteq NodeIds(w) THEN {} ELSE {"edge of unknown node"}) \subseteq edge_errors(w, k)
    BY DEF edge_errors
  <2> QED
    BY <2>1, <2>2
<1> QED
  BY <1>4 DEF EdgesKnown

\* The body of a loop is nodes, with what their edges lead to unless they are its end.  Every one of them has an
\* edge from the loop or from a node of the body that is not its end.
LEMMA BodyFacts ==
  ASSUME NEW w, LoopsApart(w), EdgesKnown(w), NEW l \in LoopIds(w)
  PROVE  /\ BodyIn(w, l) \subseteq NodeIds(w)
         /\ node(w, l).body_start \in BodyIn(w, l) /\ node(w, l).body_end \in BodyIn(w, l)
         /\ \A e \in DOMAIN w.edges :
              w.edges[e].from \in BodyIn(w, l) \ {node(w, l).body_end} => w.edges[e].to \in BodyIn(w, l)
         /\ \A n \in BodyIn(w, l) : \E e \in DOMAIN w.edges :
              /\ w.edges[e].to = n /\ w.edges[e].from \in NodeIds(w)
              /\ w.edges[e].from = l \/ w.edges[e].from \in BodyIn(w, l) \ {node(w, l).body_end}
<1> DEFINE from  == node(w, l).body_start
           to    == node(w, l).body_end
           E     == {e \in EdgeSet(w) : e.from # to}
           named == {from} \cup {e.to : e \in E}
           closed(S) == \A e \in E : e.from \in S => e.to \in S
           R     == {n \in named \cap NodeIds(w) : \A S \in SUBSET named : from \in S /\ closed(S) => n \in S}
<1>1. BodyIn(w, l) = R
  BY DEF BodyIn, reachable_between, closure
<1>2. from \in NodeIds(w) /\ to \in BodyIn(w, l) /\ \E e \in EdgeSet(w) : e.from = l /\ e.to = from
  BY DEF LoopsApart, LoopIds, BodyIn
<1>3. \A e \in E : e.to \in named /\ e.to \in NodeIds(w) /\ e.from \in NodeIds(w)
  BY DEF EdgeSet, EdgesKnown
<1>4. from \in R
  BY <1>2
<1>5. closed(R)
  <2> SUFFICES ASSUME NEW e \in E, e.from \in R PROVE e.to \in R
    OBVIOUS
  <2>1. \A S \in SUBSET named : from \in S /\ closed(S) => e.to \in S
    <3> TAKE S \in SUBSET named
    <3> HAVE from \in S /\ closed(S)
    <3>1. e.from \in S
      OBVIOUS
    <3> QED
      BY <3>1
  <2> QED
    BY <1>3, <2>1
<1>6. ASSUME NEW n \in R PROVE n = from \/ \E e \in E : e.to = n /\ e.from \in R
  <2> SUFFICES ASSUME n # from, \A e \in E : e.to = n => e.from \notin R PROVE FALSE
    OBVIOUS
  <2>1. R \ {n} \in SUBSET named /\ from \in R \ {n}
    BY <1>4
  <2>2. closed(R \ {n})
    <3> HIDE DEF R, E
    <3> QED
      BY <1>5
  <2>3. n \in R \ {n}
    <3> HIDE DEF closed, named
    <3> QED
      BY <2>1, <2>2
  <2> QED
    BY <2>3
<1>7. \A e \in DOMAIN w.edges : w.edges[e].from \in R \ {to} => w.edges[e].to \in R
  <2> TAKE e \in DOMAIN w.edges
  <2> HAVE w.edges[e].from \in R \ {to}
  <2>1. w.edges[e] \in E
    BY DEF EdgeSet
  <2> HIDE DEF R, E
  <2> QED
    BY <1>5, <2>1
<1>8. \A e \in EdgeSet(w) : \E k \in DOMAIN w.edges : w.edges[k] = e
  BY DEF EdgeSet
<1>9. ASSUME NEW n \in R
      PROVE  \E k \in DOMAIN w.edges : /\ w.edges[k].to = n /\ w.edges[k].from \in NodeIds(w)
                                       /\ w.edges[k].from = l \/ w.edges[k].from \in R \ {to}
  <2>1. CASE n = from
    <3>1. PICK e \in EdgeSet(w) : e.from = l /\ e.to = from
      BY <1>2
    <3>2. PICK k \in DOMAIN w.edges : w.edges[k] = e
      BY <1>8, <3>1
    <3> QED
      BY <2>1, <3>1, <3>2 DEF LoopIds
  <2>2. CASE \E e \in E : e.to = n /\ e.from \in R
    <3>1. PICK e \in E : e.to = n /\ e.from \in R
      BY <2>2
    <3>2. e \in EdgeSet(w) /\ e.from # to /\ e.from \in NodeIds(w)
      BY <1>3
    <3>3. PICK k \in DOMAIN w.edges : w.edges[k] = e
      BY <1>8, <3>2
    <3> HIDE DEF R
    <3> QED
      BY <3>1, <3>2, <3>3
  <2> QED
    BY <1>6, <2>1, <2>2
<1>10. R \subseteq NodeIds(w)
  OBVIOUS
<1> HIDE DEF R
<1> QED
  BY <1>1, <1>2, <1>4, <1>7, <1>9, <1>10

\* No node is in two bodies, and no loop in any.
LEMMA BodiesApart ==
  ASSUME NEW w, LoopsApart(w)
  PROVE  /\ \A l, m \in LoopIds(w) : l # m => BodyIn(w, l) \cap BodyIn(w, m) = {}
         /\ Bodies(w) \cap LoopIds(w) = {}
<1>1. \A i, j \in LoopIds(w) : j \notin BodyIn(w, i) /\ (i # j => BodyIn(w, i) \cap BodyIn(w, j) = {})
  BY DEF LoopsApart, LoopIds, BodyIn
<1> QED
  BY <1>1 DEF Bodies

-------------------------------------------------------------------------------
(* The walk of the whole graph                                               *)

\* The walk of the whole graph, what the nodes came to, which of those taken is not over yet, and the edges that
\* have counted down.
Outer(w, walk, came, busy, fired) ==
  /\ GoodWalk(w, walk, NodeIds(w), EdgesFrom(w, Done(w, came), came))
  /\ \A n \in NodeIds(w) \ Bodies(w) : came[n] # "none" <=> n \in walk.seen \ {busy}
  /\ \A e \in fired : w.edges[e].to \in NodeIds(w) \ Bodies(w) => e \in EdgesFrom(w, Done(w, came), came)

\* A workflow that is run and whose loops are drawn as LoopsApart says.
Drawn == wf \in Workflows /\ LoopsApart(wf) /\ EdgesKnown(wf)

\* The end of a body is no loop, in the body of that loop alone.
LEMMA EndsApart ==
  ASSUME Drawn, NEW l \in LoopIds(wf)
  PROVE  /\ node(wf, l).body_end \in BodyIn(wf, l) /\ node(wf, l).body_end \in Bodies(wf) /\ l \notin Bodies(wf)
         /\ node(wf, l).body_end \in NodeIds(wf) \ LoopIds(wf)
         /\ \A m \in LoopIds(wf) : node(wf, l).body_end \in BodyIn(wf, m) => m = l
<1>1. node(wf, l).body_end \in BodyIn(wf, l) /\ BodyIn(wf, l) \subseteq NodeIds(wf)
  BY BodyFacts DEF Drawn
<1>2. node(wf, l).body_end \in Bodies(wf)
  BY <1>1 DEF Bodies
<1> QED
  BY <1>1, <1>2, BodiesApart DEF Drawn

\* What is in a body is not done, unless it is the end of the body of a loop that is over.
LEMMA DoneInBodies ==
  ASSUME Drawn, NEW came
  PROVE  /\ Done(wf, came) \cap LoopIds(wf) = {} /\ Done(wf, came) \subseteq NodeIds(wf)
         /\ \A l \in LoopIds(wf) : \A n \in BodyIn(wf, l) :
              n \in Done(wf, came) => n = node(wf, l).body_end /\ came[l] # "none"
         /\ \A n \in NodeIds(wf) \ Bodies(wf) : n \in Done(wf, came) <=> n \notin LoopIds(wf) /\ came[n] # "none"
<1>1. \A l \in LoopIds(wf) : BodyIn(wf, l) \subseteq Bodies(wf)
  BY DEF Bodies
<1>2. \A k \in LoopIds(wf) : /\ node(wf, k).body_end \in Bodies(wf) /\ node(wf, k).body_end \in NodeIds(wf) \ LoopIds(wf)
                             /\ \A m \in LoopIds(wf) : node(wf, k).body_end \in BodyIn(wf, m) => m = k
  BY EndsApart
<1>3. \A n \in Done(wf, came) :
        \/ n \in NodeIds(wf) \ (Bodies(wf) \cup LoopIds(wf)) /\ came[n] # "none"
        \/ \E k \in LoopIds(wf) : n = node(wf, k).body_end /\ came[k] # "none"
  BY DEF Done
<1>4. \A n \in NodeIds(wf) \ (Bodies(wf) \cup LoopIds(wf)) : came[n] # "none" => n \in Done(wf, came)
  BY DEF Done
<1> QED
  BY <1>1, <1>2, <1>3, <1>4

\* The walk of the whole graph never comes to the body of a loop: the edge of the loop itself does not count there.
LEMMA BodiesOwe ==
  ASSUME Drawn, NEW walk, NEW came, GoodWalk(wf, walk, NodeIds(wf), EdgesFrom(wf, Done(wf, came), came))
  PROVE  \A n \in Bodies(wf) : n \in NodeIds(wf) /\ n \notin walk.seen \cup ToSet(walk.queue)
<1> TAKE n \in Bodies(wf)
<1> DEFINE fired == EdgesFrom(wf, Done(wf, came), came)
           owed  == EdgesTo(wf, n, NodeIds(wf))
<1>1. PICK l \in LoopIds(wf) : n \in BodyIn(wf, l)
  BY DEF Bodies
<1>2. /\ n \in NodeIds(wf)
      /\ \E e \in DOMAIN wf.edges :
           /\ wf.edges[e].to = n /\ wf.edges[e].from \in NodeIds(wf)
           /\ wf.edges[e].from = l \/ wf.edges[e].from \in BodyIn(wf, l) \ {node(wf, l).body_end}
  BY <1>1, BodyFacts DEF Drawn
<1>3. PICK e \in DOMAIN wf.edges :
        /\ wf.edges[e].to = n /\ wf.edges[e].from \in NodeIds(wf)
        /\ wf.edges[e].from = l \/ wf.edges[e].from \in BodyIn(wf, l) \ {node(wf, l).body_end}
  BY <1>2
<1>4. wf.edges[e].from \notin Done(wf, came)
  BY <1>3, DoneInBodies
<1>5. e \in owed /\ e \notin owed \cap fired
  BY <1>3, <1>4 DEF EdgesTo, EdgesFrom
<1>6. Cardinality(owed \cap fired) # Cardinality(owed)
  <2>1. IsFiniteSet(owed) /\ owed \cap fired \in SUBSET owed
    BY EdgesFinite DEF Drawn
  <2> HIDE DEF owed, fired
  <2> QED
    BY <1>5, <2>1, FS_Subset
<1>7. walk.degree[n] # 0
  <2>1. walk.degree[n] + Cardinality(owed \cap fired) = Cardinality(owed)
    BY <1>2 DEF GoodWalk
  <2>2. Cardinality(owed \cap fired) \in Nat
    BY EdgesFinite DEF Drawn
  <2> HIDE DEF owed, fired
  <2> QED
    BY <1>6, <2>1, <2>2
<1> QED
  BY <1>2, <1>7 DEF GoodWalk

\* A node that is taken has nothing to it that has not come to something or was skipped by a loop that is over.
LEMMA TakenIsReady ==
  ASSUME wf \in Workflows, NEW walk, NEW ids \in SUBSET WfIds, NEW nodes, NEW came,
         GoodWalk(wf, walk, ids, EdgesFrom(wf, nodes, came)), NEW n \in walk.seen
  PROVE  \A e \in EdgesTo(wf, n, ids) : wf.edges[e].from \in nodes
<1> DEFINE fired == EdgesFrom(wf, nodes, came)
           owed  == EdgesTo(wf, n, ids)
<1>1. n \in ids /\ walk.degree[n] = 0 /\ walk.degree[n] + Cardinality(owed \cap fired) = Cardinality(owed)
  BY DEF GoodWalk
<1>2. IsFiniteSet(owed) /\ owed \cap fired \in SUBSET owed /\ Cardinality(owed \cap fired) \in Nat
  BY EdgesFinite
<1> HIDE DEF owed, fired
<1>3. owed = owed \cap fired
  <2>1. Cardinality(owed) = Cardinality(owed \cap fired)
    BY <1>1, <1>2
  <2> QED
    BY <1>2, <2>1, FS_Subset
<1> QED
  BY <1>3 DEF owed, fired, EdgesFrom

\* The walk of the whole graph begins before any node has come to something.
LEMMA OuterBegins ==
  ASSUME Drawn, NEW came, NEW busy, \A n \in NodeIds(wf) : came[n] = "none"
  PROVE  Outer(wf, Walk(WfIds, 0), came, busy, {})
<1>1. Done(wf, came) = {}
  BY DEF Done, LoopIds
<1>2. EdgesFrom(wf, Done(wf, came), came) = {}
  BY <1>1 DEF EdgesFrom
<1>3. GoodWalk(wf, Walk(WfIds, 0), WfIds, {}) /\ Walk(WfIds, 0).seen = {}
  BY WalkBegins DEF Drawn
<1> QED
  BY <1>2, <1>3 DEF Outer, WfIds

\* It goes on with the head of its queue.
LEMMA OuterTakes ==
  ASSUME Drawn, NEW walk, NEW came, NEW fired, Outer(wf, walk, came, 0, fired), walk.queue # <<>>,
         NEW new, new.degree = walk.degree, new.to = walk.to, new.queue = Tail(walk.queue),
         new.seen = walk.seen \cup {Head(walk.queue)},
         new = [degree |-> new.degree, seen |-> new.seen, to |-> new.to, queue |-> new.queue]
  PROVE  /\ Head(walk.queue) \in NodeIds(wf) /\ Head(walk.queue) \notin Bodies(wf)
         /\ Head(walk.queue) \in walk.seen => Outer(wf, new, came, 0, fired)
         /\ Head(walk.queue) \notin walk.seen =>
              Outer(wf, new, came, Head(walk.queue), fired) /\ came[Head(walk.queue)] = "none"
<1> DEFINE h == Head(walk.queue)
<1>1. /\ GoodWalk(wf, walk, NodeIds(wf), EdgesFrom(wf, Done(wf, came), came))
      /\ \A n \in NodeIds(wf) \ Bodies(wf) : came[n] # "none" <=> n \in walk.seen \ {0}
      /\ \A e \in fired : wf.edges[e].to \in NodeIds(wf) \ Bodies(wf) => e \in EdgesFrom(wf, Done(wf, came), came)
  BY DEF Outer
<1>2. /\ GoodWalk(wf, new, NodeIds(wf), EdgesFrom(wf, Done(wf, came), came))
      /\ new.seen = walk.seen \cup {h} /\ h \in NodeIds(wf)
  <2>1. wf \in Workflows /\ NodeIds(wf) = WfIds /\ WfIds \in SUBSET WfIds
    BY DEF Drawn, WfIds
  <2> DEFINE old == EdgesFrom(wf, Done(wf, came), came)
  <2>2. GoodWalk(wf, walk, WfIds, old)
    BY <1>1, <2>1
  <2> HIDE DEF old
  <2>3. GoodWalk(wf, new, WfIds, old) /\ Head(walk.queue) \in WfIds
    BY <2>1, <2>2, TakeKeeps
  <2> QED
    BY <2>1, <2>3 DEF old
<1>3. h \notin Bodies(wf) /\ h # 0
  <2>1. h \in new.seen
    BY <1>2
  <2> QED
    BY <1>2, <2>1, BodiesOwe, EdgesFinite DEF Drawn
<1> HIDE DEF h
<1>4. h \in walk.seen => Outer(wf, new, came, 0, fired)
  BY <1>1, <1>2 DEF Outer
<1>5. ASSUME h \notin walk.seen PROVE Outer(wf, new, came, h, fired) /\ came[h] = "none"
  <2>1. walk.seen \subseteq NodeIds(wf) /\ 0 \notin NodeIds(wf)
    BY <1>1, EdgesFinite DEF GoodWalk, Drawn
  <2>2. new.seen \ {h} = walk.seen \ {0}
    BY <1>2, <1>5, <2>1
  <2>3. came[h] = "none"
    BY <1>1, <1>2, <1>3, <1>5
  <2> QED
    BY <1>1, <1>2, <2>2, <2>3 DEF Outer
<1> QED
  BY <1>2, <1>3, <1>4, <1>5 DEF h

\* One more node is done.
DoneToo(w, came, new, m) ==
  /\ m \in NodeIds(w) /\ m \notin Done(w, came) /\ Done(w, new) = Done(w, came) \cup {m}
  /\ \A k \in Done(w, came) : new[k] = came[k]

\* Its edges that fire count down.
LEMMA OneMoreDone ==
  ASSUME Drawn, NEW walk, NEW came, NEW new, NEW m, DoneToo(wf, came, new, m),
         GoodWalk(wf, walk, NodeIds(wf), EdgesFrom(wf, Done(wf, came), came)),
         NEW edges, Leaving(edges, m, new[m])
  PROVE  /\ EdgesFrom(wf, Done(wf, new), new) = EdgesFrom(wf, Done(wf, came), came) \cup ToSet(edges)
         /\ GoodWalk(wf, decrement(walk, edges), NodeIds(wf), EdgesFrom(wf, Done(wf, new), new))
         /\ decrement(walk, edges).seen = walk.seen
<1> DEFINE old == EdgesFrom(wf, Done(wf, came), came)
           outcome == new[m]
<1>0. /\ m \in NodeIds(wf) /\ m \notin Done(wf, came) /\ Done(wf, new) = Done(wf, came) \cup {m}
      /\ \A k \in Done(wf, came) : new[k] = came[k]
  BY DEF DoneToo
<1>1. /\ edges \in Seq(DOMAIN wf.edges) /\ Injective(edges) /\ ToSet(edges) \subseteq DOMAIN wf.edges
      /\ \A e \in DOMAIN wf.edges : e \in ToSet(edges) <=> wf.edges[e].from = m /\ fires(wf.edges[e], outcome)
  BY DEF Leaving
<1>2. EdgesFrom(wf, Done(wf, new), new) = old \cup ToSet(edges)
  <2>1. \A e \in DOMAIN wf.edges :
          wf.edges[e].from \in Done(wf, new) /\ fires(wf.edges[e], new[wf.edges[e].from])
            <=> e \in old \/ e \in ToSet(edges)
    <3> TAKE e \in DOMAIN wf.edges
    <3>1. CASE wf.edges[e].from = m
      BY <1>0, <1>1, <3>1 DEF EdgesFrom
    <3>2. CASE wf.edges[e].from # m
      BY <1>0, <1>1, <3>2 DEF EdgesFrom
    <3> QED
      BY <3>1, <3>2
  <2>2. old \subseteq DOMAIN wf.edges /\ ToSet(edges) \subseteq DOMAIN wf.edges
    BY <1>1 DEF EdgesFrom
  <2> HIDE DEF old
  <2> QED
    BY <2>1, <2>2 DEF EdgesFrom
<1>3. ToSet(edges) \cap old = {} /\ \A e \in ToSet(edges) : wf.edges[e].from \in NodeIds(wf)
  BY <1>0, <1>1 DEF EdgesFrom
<1> HIDE DEF old
<1>4. wf \in Workflows /\ NodeIds(wf) = WfIds /\ WfIds \in SUBSET WfIds
  BY DEF Drawn, WfIds
<1>5. GoodWalk(wf, walk, WfIds, old) /\ \A e \in ToSet(edges) : wf.edges[e].from \in WfIds
  BY <1>3, <1>4 DEF old
<1>6. GoodWalk(wf, decrement(walk, edges), WfIds, old \cup ToSet(edges)) /\ decrement(walk, edges).seen = walk.seen
  BY <1>1, <1>3, <1>4, <1>5, DecrementKeeps
<1> QED
  BY <1>2, <1>4, <1>6 DEF old

\* A node outside the bodies comes to something: its edges count down.
LEMMA OuterFinishes ==
  ASSUME Drawn, NEW walk, NEW came \in [NodeIds(wf) -> {"none", "ok", "true", "false", "error"}], NEW fired,
         NEW n \in walk.seen \ LoopIds(wf), Outer(wf, walk, came, n, fired),
         NEW outcome, outcome # "none",
         NEW edges, Leaving(edges, n, outcome),
         NEW new, new[n] = outcome, \A m \in NodeIds(wf) \ {n} : new[m] = came[m]
  PROVE  Outer(wf, decrement(walk, edges), new, 0, fired \cup ToSet(edges))
<1> DEFINE old == EdgesFrom(wf, Done(wf, came), came)
<1>1. /\ GoodWalk(wf, walk, NodeIds(wf), old)
      /\ \A m \in NodeIds(wf) \ Bodies(wf) : came[m] # "none" <=> m \in walk.seen \ {n}
      /\ \A e \in fired : wf.edges[e].to \in NodeIds(wf) \ Bodies(wf) => e \in old
  BY DEF Outer
<1>2. n \in NodeIds(wf) \ Bodies(wf) /\ n # 0 /\ came[n] = "none"
  <2>1. n \in NodeIds(wf) /\ n \notin Bodies(wf)
    BY <1>1, BodiesOwe DEF GoodWalk
  <2>2. n # 0
    BY <2>1, EdgesFinite DEF Drawn
  <2>3. n \notin walk.seen \ {n}
    OBVIOUS
  <2>4. ~(came[n] # "none")
    BY <1>1, <2>1, <2>3
  <2> QED
    BY <2>1, <2>2, <2>4
<1>3. Leaving(edges, n, outcome)
  OBVIOUS
<1>4. Done(wf, new) = Done(wf, came) \cup {n} /\ n \notin Done(wf, came)
  <2>1. new[n] = outcome /\ \A m \in NodeIds(wf) : m # n => new[m] = came[m]
    BY <1>2
  <2>2. LoopIds(wf) \subseteq NodeIds(wf) /\ n \notin LoopIds(wf)
    BY DEF LoopIds
  <2>3. n \notin Done(wf, came)
    BY <1>2, DoneInBodies
  <2>4. {k \in LoopIds(wf) : new[k] # "none"} = {k \in LoopIds(wf) : came[k] # "none"}
    BY <2>1, <2>2
  <2>5. {m \in NodeIds(wf) \ (Bodies(wf) \cup LoopIds(wf)) : new[m] # "none"} =
          {m \in NodeIds(wf) \ (Bodies(wf) \cup LoopIds(wf)) : came[m] # "none"} \cup {n}
    BY <1>2, <2>1, <2>2
  <2> QED
    BY <2>3, <2>4, <2>5 DEF Done
<1>5. /\ EdgesFrom(wf, Done(wf, new), new) = old \cup ToSet(edges)
      /\ GoodWalk(wf, decrement(walk, edges), NodeIds(wf), EdgesFrom(wf, Done(wf, new), new))
      /\ decrement(walk, edges).seen = walk.seen
  <2>1. Done(wf, came) \subseteq NodeIds(wf)
    BY DoneInBodies
  <2>2. new[n] = outcome /\ n \in NodeIds(wf) /\ \A k \in Done(wf, came) : new[k] = came[k]
    BY <1>2, <1>4, <2>1
  <2>3. DoneToo(wf, came, new, n) /\ Leaving(edges, n, new[n])
    BY <1>3, <1>4, <2>2 DEF DoneToo
  <2> QED
    BY <1>1, <2>3, OneMoreDone
<1>7. \A m \in NodeIds(wf) \ Bodies(wf) : new[m] # "none" <=> m \in walk.seen \ {0}
  <2>1. new[n] = outcome /\ (\A m \in NodeIds(wf) : m # n => new[m] = came[m]) /\ 0 \notin NodeIds(wf)
    BY <1>2, EdgesFinite DEF Drawn
  <2> TAKE m \in NodeIds(wf) \ Bodies(wf)
  <2>2. CASE m = n
    BY <1>2, <2>1, <2>2
  <2>3. CASE m # n
    BY <1>1, <2>1, <2>3
  <2> QED
    BY <2>2, <2>3
<1>8. \A e \in fired \cup ToSet(edges) : wf.edges[e].to \in NodeIds(wf) \ Bodies(wf) => e \in old \cup ToSet(edges)
  BY <1>1
<1> HIDE DEF old
<1> QED
  BY <1>5, <1>7, <1>8 DEF Outer

\* A node of a body comes to something: nothing of it shows outside, while its loop is not over.
LEMMA OuterUnmoved ==
  ASSUME Drawn, NEW walk, NEW came \in [NodeIds(wf) -> {"none", "ok", "true", "false", "error"}], NEW fired, NEW busy,
         NEW l \in LoopIds(wf), came[l] = "none", NEW n \in BodyIn(wf, l), Outer(wf, walk, came, busy, fired),
         NEW outcome, NEW more, \A e \in more : wf.edges[e].to \in NodeIds(wf) => wf.edges[e].to \in BodyIn(wf, l),
         NEW new, new[n] = outcome, \A m \in NodeIds(wf) \ {n} : new[m] = came[m]
  PROVE  Outer(wf, walk, new, busy, fired \cup more)
<1>1. n \in Bodies(wf) /\ BodyIn(wf, l) \subseteq Bodies(wf) /\ \A m \in NodeIds(wf) : m # n => new[m] = came[m]
  BY DEF Bodies
<1>2. LoopIds(wf) \subseteq NodeIds(wf) /\ n \notin LoopIds(wf)
  BY <1>1, BodiesApart DEF LoopIds, Drawn
<1>3. Done(wf, new) = Done(wf, came)
  <2>1. {k \in LoopIds(wf) : new[k] # "none"} = {k \in LoopIds(wf) : came[k] # "none"}
    BY <1>1, <1>2
  <2>2. {m \in NodeIds(wf) \ (Bodies(wf) \cup LoopIds(wf)) : new[m] # "none"} =
          {m \in NodeIds(wf) \ (Bodies(wf) \cup LoopIds(wf)) : came[m] # "none"}
    BY <1>1
  <2> QED
    BY <2>1, <2>2 DEF Done
<1>4. n \notin Done(wf, came) /\ Done(wf, came) \subseteq NodeIds(wf)
  BY DoneInBodies
<1>5. EdgesFrom(wf, Done(wf, new), new) = EdgesFrom(wf, Done(wf, came), came)
  <2>1. \A m \in Done(wf, came) : new[m] = came[m]
    BY <1>1, <1>4
  <2> QED
    BY <1>3, <2>1 DEF EdgesFrom
<1>6. \A m \in NodeIds(wf) \ Bodies(wf) : new[m] = came[m]
  BY <1>1
<1> QED
  BY <1>1, <1>5, <1>6 DEF Outer

\* A loop is over: the edges of the end of its body count down.
LEMMA OuterLoops ==
  ASSUME Drawn, NEW walk, NEW came \in [NodeIds(wf) -> {"none", "ok", "true", "false", "error"}], NEW fired,
         NEW l \in LoopIds(wf) \cap walk.seen, Outer(wf, walk, came, l, fired),
         NEW edges, Leaving(edges, node(wf, l).body_end, came[node(wf, l).body_end]),

         NEW new, new[l] = "ok", \A m \in NodeIds(wf) \ {l} : new[m] = came[m]
  PROVE  Outer(wf, decrement(walk, edges), new, 0, fired \cup ToSet(edges))
<1> DEFINE old == EdgesFrom(wf, Done(wf, came), came)
           end == node(wf, l).body_end
<1>1. /\ GoodWalk(wf, walk, NodeIds(wf), old)
      /\ \A m \in NodeIds(wf) \ Bodies(wf) : came[m] # "none" <=> m \in walk.seen \ {l}
      /\ \A e \in fired : wf.edges[e].to \in NodeIds(wf) \ Bodies(wf) => e \in old
  BY DEF Outer
<1>2. /\ l \in NodeIds(wf) \ Bodies(wf) /\ l # 0 /\ came[l] = "none"
      /\ end \in BodyIn(wf, l) /\ end \in Bodies(wf) /\ end \in NodeIds(wf) \ LoopIds(wf)
      /\ new[l] = "ok" /\ \A m \in NodeIds(wf) : m # l => new[m] = came[m]
  <2>1. l \in NodeIds(wf) /\ l \notin Bodies(wf)
    BY EndsApart DEF LoopIds
  <2>2. end \in BodyIn(wf, l) /\ end \in Bodies(wf) /\ end \in NodeIds(wf) \ LoopIds(wf)
    BY EndsApart
  <2>3. l # 0 /\ came[l] = "none"
    BY <1>1, <2>1, EdgesFinite DEF Drawn
  <2> QED
    BY <2>1, <2>2, <2>3
<1>3. Leaving(edges, end, came[end])
  OBVIOUS
<1> HIDE DEF end
<1>4. Done(wf, new) = Done(wf, came) \cup {end} /\ end \notin Done(wf, came) /\ l \notin Done(wf, came)
  <2>1. end \notin Done(wf, came) /\ l \notin Done(wf, came)
    BY <1>2, DoneInBodies
  <2>2. LoopIds(wf) \subseteq NodeIds(wf)
    BY DEF LoopIds
  <2>3. {k \in LoopIds(wf) : new[k] # "none"} = {k \in LoopIds(wf) : came[k] # "none"} \cup {l}
    BY <1>2, <2>2
  <2>4. {m \in NodeIds(wf) \ (Bodies(wf) \cup LoopIds(wf)) : new[m] # "none"} =
          {m \in NodeIds(wf) \ (Bodies(wf) \cup LoopIds(wf)) : came[m] # "none"}
    BY <1>2
  <2>5. {node(wf, k).body_end : k \in {k \in LoopIds(wf) : came[k] # "none"} \cup {l}} =
          {node(wf, k).body_end : k \in {k \in LoopIds(wf) : came[k] # "none"}} \cup {end}
    BY DEF end
  <2> QED
    BY <2>1, <2>3, <2>4, <2>5 DEF Done
<1>5. /\ EdgesFrom(wf, Done(wf, new), new) = old \cup ToSet(edges)
      /\ GoodWalk(wf, decrement(walk, edges), NodeIds(wf), EdgesFrom(wf, Done(wf, new), new))
      /\ decrement(walk, edges).seen = walk.seen
  <2>1. Done(wf, came) \subseteq NodeIds(wf)
    BY DoneInBodies
  <2>2. new[end] = came[end] /\ end \in NodeIds(wf) /\ \A k \in Done(wf, came) : new[k] = came[k]
    BY <1>2, <1>4, <2>1
  <2>3. DoneToo(wf, came, new, end) /\ Leaving(edges, end, new[end])
    BY <1>3, <1>4, <2>2 DEF DoneToo
  <2> QED
    BY <1>1, <2>3, OneMoreDone
<1>7. \A m \in NodeIds(wf) \ Bodies(wf) : new[m] # "none" <=> m \in walk.seen \ {0}
  <2>1. 0 \notin NodeIds(wf)
    BY EdgesFinite DEF Drawn
  <2> TAKE m \in NodeIds(wf) \ Bodies(wf)
  <2>2. CASE m = l
    BY <1>2, <2>1, <2>2
  <2>3. CASE m # l
    BY <1>1, <1>2, <2>1, <2>3
  <2> QED
    BY <2>2, <2>3
<1>8. \A e \in fired \cup ToSet(edges) : wf.edges[e].to \in NodeIds(wf) \ Bodies(wf) => e \in old \cup ToSet(edges)
  BY <1>1
<1> HIDE DEF old
<1> QED
  BY <1>5, <1>7, <1>8 DEF Outer

-------------------------------------------------------------------------------
(* The walk of the body of a loop                                            *)

\* The walk of the body of a loop: its end, what owes what in this iteration, and what the nodes taken came to.
Inner(w, walk, l, came, busy) ==
  /\ walk.to = node(w, l).body_end
  /\ GoodWalk(w, walk, BodyIn(w, l), EdgesFrom(w, walk.seen \ {busy}, came))
  /\ \A n \in walk.seen \ {busy} : came[n] # "none"

\* Every iteration begins with a walk of its own.
LEMMA InnerBegins ==
  ASSUME Drawn, NEW l \in LoopIds(wf), NEW came, NEW ids, ids = BodyIn(wf, l), NEW to, to = node(wf, l).body_end
  PROVE  Inner(wf, Walk(ids, to), l, came, 0) /\ Walk(ids, to).seen = {}
<1>1. ids \in SUBSET WfIds /\ to \in WfIds \cup {0} /\ wf \in Workflows
  BY BodyFacts DEF Drawn, WfIds
<1>2. GoodWalk(wf, Walk(ids, to), ids, {}) /\ Walk(ids, to).to = to /\ Walk(ids, to).seen = {}
  BY <1>1, WalkBegins
<1>3. EdgesFrom(wf, {} \ {0}, came) = {}
  BY DEF EdgesFrom
<1> QED
  BY <1>2, <1>3 DEF Inner

\* It goes on with the head of its queue.
LEMMA InnerTakes ==
  ASSUME Drawn, NEW l \in LoopIds(wf), NEW walk, NEW came, Inner(wf, walk, l, came, 0), walk.queue # <<>>,
         NEW new, new.degree = walk.degree, new.to = walk.to, new.queue = Tail(walk.queue),
         new.seen = walk.seen \cup {Head(walk.queue)},
         new = [degree |-> new.degree, seen |-> new.seen, to |-> new.to, queue |-> new.queue]
  PROVE  /\ Head(walk.queue) \in BodyIn(wf, l)
         /\ Head(walk.queue) \in walk.seen => Inner(wf, new, l, came, 0)
         /\ Head(walk.queue) \notin walk.seen => Inner(wf, new, l, came, Head(walk.queue))
<1> DEFINE h == Head(walk.queue)
           fired == EdgesFrom(wf, walk.seen \ {0}, came)
           ids == BodyIn(wf, l)
<1>1. /\ GoodWalk(wf, walk, ids, fired) /\ walk.to = node(wf, l).body_end
      /\ \A n \in walk.seen \ {0} : came[n] # "none"
  BY DEF Inner
<1>2. ids \in SUBSET WfIds /\ wf \in Workflows /\ 0 \notin ids
  BY BodyFacts, EdgesFinite DEF Drawn, WfIds
<1>3. walk.seen \subseteq ids
  BY <1>1 DEF GoodWalk
<1> HIDE DEF ids, fired
<1>4. GoodWalk(wf, new, ids, fired) /\ h \in ids
  BY <1>1, <1>2, TakeKeeps
<1> HIDE DEF h
<1>5. ASSUME h \in walk.seen PROVE Inner(wf, new, l, came, 0)
  <2>1. new.seen = walk.seen
    BY <1>5 DEF h
  <2> QED
    BY <1>1, <1>4, <2>1 DEF Inner, ids, fired
<1>6. ASSUME h \notin walk.seen PROVE Inner(wf, new, l, came, h)
  <2>1. new.seen \ {h} = walk.seen \ {0}
    BY <1>2, <1>3, <1>6 DEF h
  <2> QED
    BY <1>1, <1>4, <2>1 DEF Inner, ids, fired
<1> QED
  BY <1>4, <1>5, <1>6 DEF ids, h

\* A node of the body comes to something: its edges count down in the body.
LEMMA InnerFinishes ==
  ASSUME Drawn, NEW l \in LoopIds(wf), NEW walk, NEW came, NEW n \in walk.seen, Inner(wf, walk, l, came, n),
         NEW new, new[n] # "none", \A m \in NodeIds(wf) \ {n} : new[m] = came[m],
         NEW edges, Leaving(edges, n, new[n])
  PROVE  Inner(wf, decrement(walk, edges), l, new, 0) /\ decrement(walk, edges).seen = walk.seen
<1> DEFINE ids == BodyIn(wf, l)
           old == EdgesFrom(wf, walk.seen \ {n}, came)
           outcome == new[n]
<1>1. /\ GoodWalk(wf, walk, ids, old) /\ walk.to = node(wf, l).body_end
      /\ \A m \in walk.seen \ {n} : came[m] # "none"
  BY DEF Inner
<1>2. ids \in SUBSET WfIds /\ WfIds = NodeIds(wf) /\ wf \in Workflows /\ 0 \notin ids
  BY BodyFacts, EdgesFinite DEF Drawn, WfIds
<1>3. walk.seen \subseteq ids
  BY <1>1 DEF GoodWalk
<1> HIDE DEF ids, outcome
<1>4. /\ edges \in Seq(DOMAIN wf.edges) /\ Injective(edges) /\ ToSet(edges) \subseteq DOMAIN wf.edges
      /\ \A e \in DOMAIN wf.edges : e \in ToSet(edges) <=> wf.edges[e].from = n /\ fires(wf.edges[e], outcome)
  BY DEF Leaving, outcome
<1>5. \A m \in walk.seen \ {n} : new[m] = came[m]
  BY <1>2, <1>3
<1>6. ToSet(edges) \cap old = {} /\ \A e \in ToSet(edges) : wf.edges[e].from \in ids
  BY <1>3, <1>4 DEF EdgesFrom
<1>7. EdgesFrom(wf, walk.seen \ {0}, new) = old \cup ToSet(edges)
  <2>1. \A e \in DOMAIN wf.edges :
          wf.edges[e].from \in walk.seen \ {0} /\ fires(wf.edges[e], new[wf.edges[e].from])
            <=> e \in old \/ e \in ToSet(edges)
    <3> TAKE e \in DOMAIN wf.edges
    <3>1. CASE wf.edges[e].from = n
      BY <1>2, <1>3, <1>4, <3>1 DEF EdgesFrom, outcome
    <3>2. CASE wf.edges[e].from # n
      BY <1>2, <1>3, <1>4, <1>5, <3>2 DEF EdgesFrom
    <3> QED
      BY <3>1, <3>2
  <2>2. old \subseteq DOMAIN wf.edges
    BY DEF EdgesFrom
  <2> HIDE DEF old
  <2> QED
    BY <1>4, <2>1, <2>2 DEF EdgesFrom
<1> HIDE DEF old
<1>8. /\ GoodWalk(wf, decrement(walk, edges), ids, old \cup ToSet(edges))
      /\ decrement(walk, edges).to = walk.to /\ decrement(walk, edges).seen = walk.seen
  <2>1. /\ ids \in SUBSET WfIds /\ wf \in Workflows /\ GoodWalk(wf, walk, ids, old)
        /\ edges \in Seq(DOMAIN wf.edges) /\ Injective(edges)
    BY <1>1, <1>2, <1>4
  <2>2. ToSet(edges) \cap old = {} /\ \A e \in ToSet(edges) : wf.edges[e].from \in ids
    BY <1>6
  <2> HIDE DEF Inner
  <2>3. GoodWalk(wf, decrement(walk, edges), ids, old \cup ToSet(edges))
    BY <2>1, <2>2, DecrementKeeps
  <2>4. decrement(walk, edges).to = walk.to /\ decrement(walk, edges).seen = walk.seen
    BY <1>1, DecrementCounts DEF GoodWalk
  <2> QED
    BY <2>3, <2>4
<1>9. \A m \in walk.seen \ {0} : new[m] # "none"
  BY <1>1, <1>5
<1> QED
  BY <1>1, <1>7, <1>8, <1>9 DEF Inner, ids

-------------------------------------------------------------------------------
(* How often a node is executed                                              *)

\* node finds the node with that id.
LEMMA NodeIs ==
  ASSUME NEW w \in Workflows, NEW id \in NodeIds(w)
  PROVE  node(w, id) \in ToSet(w.nodes) /\ node(w, id).id = id /\ node(w, id).max_iterations \in Nat
<1> DEFINE S == {i \in DOMAIN w.nodes : w.nodes[i].id = id}
           first(i) == i \in DOMAIN w.nodes /\ w.nodes[i].id = id /\ \A j \in 1..(i - 1) : w.nodes[j].id # id
<1>1. DOMAIN w.nodes = 1..Len(w.nodes) /\ Len(w.nodes) \in Nat
  BY EdgesFinite
<1>2. S \in SUBSET Nat /\ S # {}
  BY <1>1 DEF NodeIds
<1>3. PICK i \in S : \A j \in S : i <= j
  BY <1>2, LeastElement
<1>4. first(i)
  <2> SUFFICES ASSUME NEW j \in 1..(i - 1), w.nodes[j].id = id PROVE FALSE
    OBVIOUS
  <2>1. i \in 1..Len(w.nodes)
    BY <1>1
  <2>2. j \in 1..Len(w.nodes) /\ j < i
    BY <1>1, <2>1
  <2>3. i <= j
    BY <1>1, <1>3, <2>2
  <2> QED
    BY <2>1, <2>2, <2>3
<1> DEFINE k == CHOOSE i1 \in DOMAIN w.nodes : w.nodes[i1].id = id /\ \A j \in 1..(i1 - 1) : w.nodes[j].id # id
<1>5. k \in DOMAIN w.nodes /\ w.nodes[k].id = id /\ node(w, id) = w.nodes[k]
  <2> HIDE DEF S
  <2>1. \E i1 \in DOMAIN w.nodes : w.nodes[i1].id = id /\ \A j \in 1..(i1 - 1) : w.nodes[j].id # id
    BY <1>4
  <2>2. k \in DOMAIN w.nodes /\ w.nodes[k].id = id
    BY <2>1
  <2> QED
    BY <2>2 DEF node
<1> QED
  BY <1>5, WorkflowAssumption DEF ToSet

\* Replacing the last member of a sequence.
LEMMA LastReplaced ==
  ASSUME NEW X, NEW s \in Seq(X), s # <<>>, NEW x \in X, NEW t, t = [s EXCEPT ![Len(s)] = x]
  PROVE  /\ t \in Seq(X) /\ Len(t) = Len(s) /\ Len(s) \in Nat \ {0} /\ t[Len(s)] = x
         /\ \A k \in 1..Len(s) : k # Len(s) => t[k] = s[k]
OBVIOUS

\* A member more at the end of a sequence.
LEMMA LastAdded ==
  ASSUME NEW X, NEW s \in Seq(X), NEW x \in X, NEW t, t = Append(s, x)
  PROVE  t \in Seq(X) /\ Len(t) = Len(s) + 1 /\ t[Len(s) + 1] = x /\ \A k \in 1..Len(s) : t[k] = s[k]
OBVIOUS

\* And the last one less.
LEMMA LastGone ==
  ASSUME NEW X, NEW s \in Seq(X), s # <<>>, NEW t, t = Front(s)
  PROVE  t \in Seq(X) /\ Len(t) = Len(s) - 1 /\ \A k \in 1..(Len(s) - 1) : t[k] = s[k]
<1> DEFINE m == Len(s) - 1
<1>1. Len(s) \in Nat /\ (\A k \in 1..Len(s) : s[k] \in X) /\ m \in Nat /\ m < Len(s)
  OBVIOUS
<1>2. t = SubSeq(s, 1, m)
  BY DEF Front
<1> HIDE DEF m
<1>3. SubSeq(s, 1, m) \in Seq(X) /\ Len(SubSeq(s, 1, m)) = m /\ \A k \in 1..m : SubSeq(s, 1, m)[k] = s[k]
  BY <1>1
<1> QED
  BY <1>2, <1>3 DEF m

\* The inner walk is taken away.
LEMMA WalkGone ==
  ASSUME walks \in Seq(WalkRecords(wf)), walks # <<>>, walks' = Front(walks)
  PROVE  walks' \in Seq(WalkRecords(wf)) /\ Len(walks') = Len(walks) - 1 /\ \A k \in 1..(Len(walks) - 1) : walks'[k] = walks[k]
BY LastGone

\* The walk when the head of its queue was taken.
Taken(walk) == [walk EXCEPT !.queue = Tail(@), !.seen = @ \cup {Head(walk.queue)}]

\* A walk, whatever it has counted.
WalkTyped(w, walk) ==
  walk \in WalkRecords(w) /\ walk.seen \subseteq DOMAIN walk.degree /\ walk.queue \in Seq(DOMAIN walk.degree)

\* What taking the head changes.
LEMMA TakenFields ==
  ASSUME NEW w, NEW walk \in WalkRecords(w), NEW new, new = Taken(walk)
  PROVE  /\ new.degree = walk.degree /\ new.to = walk.to /\ new.queue = Tail(walk.queue)
         /\ new.seen = walk.seen \cup {Head(walk.queue)}
         /\ new = [degree |-> new.degree, seen |-> new.seen, to |-> new.to, queue |-> new.queue]
BY DEF Taken, WalkRecords

\* A good walk is a walk.
LEMMA GoodWalkTyped == ASSUME NEW w, NEW walk, NEW ids, NEW fired, GoodWalk(w, walk, ids, fired) PROVE WalkTyped(w, walk)
BY DEF GoodWalk, WalkTyped

\* How often a node of the body of a loop may still be executed: in this walk of the body, if it was not taken
\* yet, and once in each that is left.
Due(w, l, n, seen, loop, unseen) ==
  IF l = loop.loop THEN loop.left + (IF n \in unseen THEN 1 ELSE 0)
  ELSE IF l \in seen THEN 0 ELSE node(w, l).max_iterations

\* How often the nodes were executed, by what the walk of the whole graph has taken, the loop under way and what
\* the walk of its body has not taken.
Counted(w, times, seen, loop, unseen) ==
  /\ \A n \in NodeIds(w) \ Bodies(w) : times[n] <= 1 /\ (n \notin seen => times[n] = 0)
  /\ \A l \in LoopIds(w) : \A n \in BodyIn(w, l) :
       times[n] + Due(w, l, n, seen, loop, unseen) <= node(w, l).max_iterations

\* Before the run nothing was executed.
LEMMA CountedBegins ==
  ASSUME wf \in Workflows, NEW times, \A n \in NodeIds(wf) : times[n] = 0, LoopsApart(wf), EdgesKnown(wf)
  PROVE  Counted(wf, times, {}, NoLoop, {})
<1>1. \A l \in LoopIds(wf) : /\ l \in NodeIds(wf) /\ l # 0 /\ node(wf, l).max_iterations \in Nat
                             /\ BodyIn(wf, l) \subseteq NodeIds(wf)
  BY BodyFacts, NodeIs, EdgesFinite DEF LoopIds
<1>2. \A l \in LoopIds(wf) : \A n \in BodyIn(wf, l) : Due(wf, l, n, {}, NoLoop, {}) = node(wf, l).max_iterations
  BY <1>1 DEF Due, NoLoop
<1> QED
  BY <1>1, <1>2 DEF Counted

\* What may happen less often is still counted.
LEMMA CountedLess ==
  ASSUME Drawn, NEW times \in [NodeIds(wf) -> Nat], NEW seen, NEW loop, NEW unseen, Counted(wf, times, seen, loop, unseen),
         NEW more, NEW next, NEW rest, seen \subseteq more,
         \A l \in LoopIds(wf) : \A n \in BodyIn(wf, l) :
           /\ Due(wf, l, n, seen, loop, unseen) \in Nat /\ Due(wf, l, n, more, next, rest) \in Nat
           /\ Due(wf, l, n, more, next, rest) <= Due(wf, l, n, seen, loop, unseen)
  PROVE  Counted(wf, times, more, next, rest)
<1>1. \A l \in LoopIds(wf) : \A n \in BodyIn(wf, l) : n \in NodeIds(wf)
  BY BodyFacts DEF Drawn
<1>2. \A l \in LoopIds(wf) : node(wf, l).max_iterations \in Nat
  BY NodeIs DEF Drawn, LoopIds
<1>3. ASSUME NEW l \in LoopIds(wf), NEW n \in BodyIn(wf, l)
      PROVE  times[n] + Due(wf, l, n, more, next, rest) <= node(wf, l).max_iterations
  <2> DEFINE a == Due(wf, l, n, seen, loop, unseen)
             b == Due(wf, l, n, more, next, rest)
  <2>1. a \in Nat /\ b \in Nat /\ b <= a /\ times[n] \in Nat /\ times[n] + a <= node(wf, l).max_iterations
    BY <1>1, <1>3 DEF Counted
  <2>2. node(wf, l).max_iterations \in Nat
    BY <1>2
  <2> HIDE DEF a, b
  <2>3. times[n] + b <= node(wf, l).max_iterations
    BY <2>1, <2>2
  <2> QED
    BY <2>3 DEF b
<1> QED
  BY <1>3 DEF Counted

\* A node outside the bodies is executed.
LEMMA CountedOutside ==
  ASSUME Drawn, NEW times \in [NodeIds(wf) -> Nat], NEW seen, NEW loop, NEW unseen, Counted(wf, times, seen, loop, unseen),
         NEW n \in NodeIds(wf) \ (Bodies(wf) \cup LoopIds(wf)), n \notin seen, NEW more, more = seen \cup {n},
         NEW new, new[n] = times[n] + 1, \A m \in NodeIds(wf) : m # n => new[m] = times[m]
  PROVE  Counted(wf, new, more, loop, unseen)
<1>1. \A l \in LoopIds(wf) : \A m \in BodyIn(wf, l) : m \in NodeIds(wf) /\ m # n /\ new[m] = times[m] /\ l # n
  BY BodyFacts DEF Drawn, Bodies
<1>2. \A l \in LoopIds(wf) : \A m \in BodyIn(wf, l) : Due(wf, l, m, more, loop, unseen) = Due(wf, l, m, seen, loop, unseen)
  BY <1>1 DEF Due
<1>3. new[n] = 1
  BY DEF Counted
<1> QED
  BY <1>1, <1>2, <1>3 DEF Counted

\* A node of the body of the loop under way is executed.
LEMMA CountedInside ==
  ASSUME Drawn, NEW times \in [NodeIds(wf) -> Nat], NEW seen, NEW loop, NEW unseen, Counted(wf, times, seen, loop, unseen),
         loop.loop \in LoopIds(wf), loop.left \in Nat, NEW n \in BodyIn(wf, loop.loop) \cap unseen,
         NEW rest, rest = unseen \ {n},
         NEW new, new[n] = times[n] + 1, \A m \in NodeIds(wf) : m # n => new[m] = times[m]
  PROVE  Counted(wf, new, seen, loop, rest)
<1>1. n \in Bodies(wf) /\ n \in NodeIds(wf) /\ \A l \in LoopIds(wf) : n \in BodyIn(wf, l) => l = loop.loop
  BY BodiesApart, BodyFacts DEF Drawn, Bodies
<1>2. \A l \in LoopIds(wf) : node(wf, l).max_iterations \in Nat /\ BodyIn(wf, l) \subseteq NodeIds(wf)
  BY NodeIs, BodyFacts DEF Drawn, LoopIds
<1>3. \A m \in NodeIds(wf) \ Bodies(wf) : new[m] <= 1 /\ (m \notin seen => new[m] = 0)
  BY <1>1 DEF Counted
<1>4. ASSUME NEW l \in LoopIds(wf), NEW m \in BodyIn(wf, l)
      PROVE  new[m] + Due(wf, l, m, seen, loop, rest) <= node(wf, l).max_iterations
  <2>1. times[m] + Due(wf, l, m, seen, loop, unseen) <= node(wf, l).max_iterations /\ m \in NodeIds(wf)
    BY <1>2, <1>4 DEF Counted
  <2>2. CASE m = n
    <3>1. l = loop.loop /\ Due(wf, l, m, seen, loop, unseen) = loop.left + 1 /\ Due(wf, l, m, seen, loop, rest) = loop.left + 0
      BY <1>1, <2>2 DEF Due
    <3>2. times[m] \in Nat /\ node(wf, l).max_iterations \in Nat /\ new[m] = times[m] + 1
      BY <1>2, <2>1, <2>2
    <3> QED
      BY <2>1, <3>1, <3>2
  <2>3. CASE m # n
    <3>1. Due(wf, l, m, seen, loop, rest) = Due(wf, l, m, seen, loop, unseen) /\ new[m] = times[m]
      BY <2>1, <2>3 DEF Due
    <3> QED
      BY <2>1, <3>1
  <2> QED
    BY <2>2, <2>3
<1> QED
  BY <1>3, <1>4 DEF Counted

\* How often each node was executed is what OncePerWalk allows.
Once(w, times) ==
  \A n \in NodeIds(w) : times[n] > 1 =>
    \E l \in ToSet(w.nodes) :
      /\ l.type = "loop"
      /\ n \in reachable_between(w, l.body_start, l.body_end) \cup {l.body_start, l.body_end}
      /\ times[n] <= l.max_iterations

\* Counting is enough for that.
LEMMA CountedOnce ==
  ASSUME Drawn, NEW times \in [NodeIds(wf) -> Nat], NEW seen, NEW loop, NEW unseen, Counted(wf, times, seen, loop, unseen),
         loop.left \in Nat
  PROVE  Once(wf, times)
<1> SUFFICES ASSUME NEW n \in NodeIds(wf), times[n] > 1
             PROVE  \E l \in ToSet(wf.nodes) :
                      /\ l.type = "loop"
                      /\ n \in reachable_between(wf, l.body_start, l.body_end) \cup {l.body_start, l.body_end}
                      /\ times[n] <= l.max_iterations
  BY DEF Once
<1>1. n \in Bodies(wf)
  BY DEF Counted
<1>2. PICK l \in LoopIds(wf) : n \in BodyIn(wf, l)
  BY <1>1 DEF Bodies
<1>3. node(wf, l) \in ToSet(wf.nodes) /\ node(wf, l).max_iterations \in Nat /\ node(wf, l).type = "loop"
  BY NodeIs DEF Drawn, LoopIds
<1>4. times[n] <= node(wf, l).max_iterations
  <2> DEFINE d == Due(wf, l, n, seen, loop, unseen)
  <2>1. d \in Nat
    BY <1>3 DEF Due
  <2>2. times[n] + d <= node(wf, l).max_iterations
    BY <1>2 DEF Counted
  <2> HIDE DEF d
  <2> QED
    BY <1>3, <2>1, <2>2
<1> QED
  BY <1>2, <1>3, <1>4 DEF BodyIn

-------------------------------------------------------------------------------
(* The invariant of the run, and what leaves it alone                        *)

\* The loop a node waits for, or the node.
Busy == IF looping.loop # 0 THEN looping.loop ELSE current

\* What the walk of the body under way has not taken.
Unseen == IF Len(walks) = 2 THEN NodeIds(wf) \ walks[2].seen ELSE {}

\* The walks under way: of the graph and of a body.
WalksTyped(w, ws) == ws \in Seq(WalkRecords(w)) /\ Len(ws) <= 2 /\ \A k \in 1..Len(ws) : WalkTyped(w, ws[k])

\* The types of what the runner alone changes.
RunTypes ==
  /\ wf \in Workflows /\ current \in NodeIds(wf) \cup {0} /\ wfTries \in 0..HttpRetries
  /\ wfStep \in {"called", "refused", "save", "pick", "busy", "iterate", "settle", "untoken", "ended"}
  /\ WalksTyped(wf, walks)
  /\ looping \in [loop : NodeIds(wf) \cup {0}, left : Nat]
  /\ result \in [NodeIds(wf) -> {"none", "ok", "true", "false", "error"}]
  /\ started \in [NodeIds(wf) -> Nat]

\* The types of what others change too.
OutsideTypes ==
  /\ wfStatus \in {"none", "completed", "failed", "cancelled", "timed_out"}
  /\ wfToken \in BOOLEAN /\ wfCancelled \in BOOLEAN
  /\ wfRow \in [status : {"none", "running", "completed", "failed", "cancelled", "timed_out"}, nodes : SUBSET NodeIds(wf)]
  /\ writes \in SUBSET (SUBSET NodeIds(wf))

\* Before the run nothing has happened.
BeforeRun ==
  /\ walks = <<>> /\ current = 0 /\ looping = NoLoop /\ wfStatus = "none" /\ firedEdges = {}
  /\ \A n \in NodeIds(wf) : result[n] = "none" /\ started[n] = 0

\* The run under way: the two walks, the loop between them, and what is counted.
Underway ==
  /\ Len(walks) \in {1, 2} /\ wfStatus = "none" /\ \A n \in NodeIds(wf) : result[n] # "error"
  /\ wfStep = "busy" <=> current # 0
  /\ current # 0 => current \in walks[Len(walks)].seen \ LoopIds(wf)
  /\ looping.loop # 0 <=> (wfStep = "iterate" \/ Len(walks) = 2)
  /\ wfStep = "iterate" => Len(walks) = 1
  /\ looping.loop # 0 => looping.loop \in LoopIds(wf) \cap walks[1].seen
  /\ walks[1].to = 0 /\ Outer(wf, walks[1], result, Busy, firedEdges)
  /\ Len(walks) = 2 => Inner(wf, walks[2], looping.loop, result, current)
  /\ Counted(wf, started, walks[1].seen, looping, Unseen)

\* What holds in every state of a run whose loops are drawn apart.
WfInv ==
  /\ RunTypes /\ OutsideTypes
  /\ wfStep \in {"called", "refused", "save"} => BeforeRun
  /\ wfStep \notin {"called", "refused"} => validate(wf) = {}
  /\ wfStep \in {"pick", "busy", "iterate"} => Underway
  /\ Once(wf, started)

\* An accepted workflow whose loops are drawn apart.
LEMMA RunIsDrawn == ASSUME LoopsApart(wf), wf \in Workflows, validate(wf) = {} PROVE Drawn
BY ValidEdges DEF Drawn

\* The run goes on.
LEMMA GoesOn ==
  ASSUME Drawn, wf' = wf, RunTypes', OutsideTypes', Underway', wfStep' \in {"pick", "busy", "iterate"}, validate(wf) = {}
  PROVE  WfInv'
<1>1. Once(wf', started')
  <2>1. looping'.left \in Nat /\ started' \in [NodeIds(wf) -> Nat]
    BY DEF RunTypes
  <2>2. Counted(wf, started', (walks[1].seen)', looping', Unseen')
    BY DEF Underway
  <2> QED
    BY <2>1, <2>2, CountedOnce
<1>2. wfStep' \notin {"called", "refused", "save"}
  OBVIOUS
<1> QED
  BY <1>1, <1>2 DEF WfInv

\* The run is broken off: nothing was executed for that, and nothing has failed.
LEMMA BrokenOff ==
  ASSUME WfInv, Underway, validate(wf) = {}, UNCHANGED <<wf, result, started>>, RunTypes', OutsideTypes',
         wfStep' = "settle", wfStatus' \in {"failed", "cancelled", "timed_out"}
  PROVE  WfInv'
BY DEF WfInv

\* What happens beside the run leaves it as it is.
LEMMA LeftAlone ==
  ASSUME WfInv, UNCHANGED <<wf, walks, current, looping, result, started, firedEdges, wfStatus>>, wfTries' \in 0..HttpRetries,
         OutsideTypes',
         wfStep' = wfStep \/ (wfStep \in {"settle", "untoken"} /\ wfStep' \in {"untoken", "ended"})
  PROVE  WfInv'
<1>1. RunTypes'
  BY DEF WfInv, RunTypes
<1>2. Once(wf', started')
  BY DEF WfInv
<1>4. CASE wfStep' = wfStep
  <2>1. Busy' = Busy /\ Unseen' = Unseen
    BY DEF Busy, Unseen
  <2>2. Underway => Underway'
    BY <1>4, <2>1 DEF Underway
  <2>3. BeforeRun => BeforeRun'
    BY DEF BeforeRun, NoLoop
  <2> QED
    BY <1>1, <1>2, <1>4, <2>2, <2>3 DEF WfInv
<1>5. CASE wfStep \in {"settle", "untoken"} /\ wfStep' \in {"untoken", "ended"}
  BY <1>1, <1>2, <1>5 DEF WfInv
<1> QED
  BY <1>4, <1>5

\* RetryRequest, WriteProgress, Settle, RemoveToken and WfCancel.
LEMMA BesideTheRun ==
  ASSUME WfInv, RetryRequest \/ WriteProgress \/ Settle \/ RemoveToken \/ WfCancel
  PROVE  WfInv'
<1>1. /\ UNCHANGED <<wf, walks, current, looping, result, started, firedEdges, wfStatus>>
      /\ wfStep' = wfStep \/ (wfStep \in {"settle", "untoken"} /\ wfStep' \in {"untoken", "ended"})
  BY DEF RetryRequest, WriteProgress, Settle, RemoveToken, WfCancel, runVars, tableVars
<1>2. wfTries' \in 0..HttpRetries
  <2>1. wfTries \in 0..HttpRetries /\ HttpRetries \in Nat
    BY WorkflowAssumption DEF WfInv, RunTypes
  <2> QED
    BY <2>1 DEF RetryRequest, WriteProgress, Settle, RemoveToken, WfCancel, runVars, tableVars
<1>3. OutsideTypes'
  <2> USE DEF WfInv, OutsideTypes
  <2>1. CASE RetryRequest
    BY <1>1, <2>1 DEF RetryRequest, tableVars
  <2>2. CASE WriteProgress
    <3>1. PICK snapshot \in writes : /\ writes' = writes \ {snapshot}
                                     /\ wfRow' \in {wfRow, [status |-> "running", nodes |-> snapshot]}
      BY <2>2 DEF WriteProgress
    <3> QED
      BY <1>1, <2>2, <3>1 DEF WriteProgress
  <2>3. CASE Settle
    <3>1. {n \in WfIds : result[n] # "none"} \in SUBSET NodeIds(wf)
      BY DEF WfIds
    <3>2. wfRow' \in {wfRow, [status |-> wfStatus, nodes |-> {n \in WfIds : result[n] # "none"}]}
      BY <2>3 DEF Settle
    <3>3. wfRow' \in [status : {"none", "running", "completed", "failed", "cancelled", "timed_out"}, nodes : SUBSET NodeIds(wf)]
      BY <3>1, <3>2
    <3> QED
      BY <1>1, <2>3, <3>3 DEF Settle
  <2>4. CASE RemoveToken
    BY <1>1, <2>4 DEF RemoveToken, tableVars
  <2>5. CASE WfCancel
    BY <1>1, <2>5 DEF WfCancel, tableVars
  <2> QED
    BY <2>1, <2>2, <2>3, <2>4, <2>5
<1> QED
  BY <1>1, <1>2, <1>3, LeftAlone

\* WfTimeout.
LEMMA TimeoutKeeps == ASSUME WfInv, WfTimeout PROVE WfInv'
<1>1. /\ wfStep = "busy" /\ wfStep' = "settle" /\ wfStatus' = "timed_out" /\ current' = 0
      /\ UNCHANGED <<wf, walks, wfTries, looping, result, started, wfToken, wfCancelled, wfRow, writes>>
  BY DEF WfTimeout, Ends, tableVars
<1>2. Underway /\ validate(wf) = {}
  BY <1>1 DEF WfInv
<1>3. RunTypes' /\ OutsideTypes'
  BY <1>1 DEF WfInv, RunTypes, OutsideTypes
<1> QED
  BY <1>1, <1>2, <1>3, BrokenOff

\* Whatever walks are typed are the walks under way.
LEMMA TwoWalks ==
  ASSUME NEW w, NEW ws \in Seq(WalkRecords(w)), Len(ws) \in {1, 2}, WalkTyped(w, ws[1]), Len(ws) = 2 => WalkTyped(w, ws[2])
  PROVE  WalksTyped(w, ws)
<1>1. \A k \in 1..Len(ws) : k = 1 \/ (k = 2 /\ Len(ws) = 2)
  <2>1. \A n \in {1, 2} : \A k \in 1..n : k = 1 \/ (k = 2 /\ n = 2)
    OBVIOUS
  <2> QED
    BY <2>1
<1> QED
  BY <1>1 DEF WalksTyped

\* Nothing has happened: WfInv as it is then.
LEMMA NothingYet ==
  ASSUME RunTypes', OutsideTypes', BeforeRun', wfStep' \in {"called", "refused", "save"},
         wfStep' = "save" => validate(wf') = {}
  PROVE  WfInv'
<1>1. Once(wf', started')
  BY DEF BeforeRun, Once
<1> QED
  BY <1>1 DEF WfInv

\* WfInit.
LEMMA InitKeeps == ASSUME WfInit PROVE WfInv
<1>1. RunTypes
  <2>1. WalksTyped(wf, walks)
    <3>1. walks = <<>> /\ <<>> \in Seq(WalkRecords(wf)) /\ Len(<<>>) = 0
      BY DEF WfInit
    <3> QED
      BY <3>1 DEF WalksTyped
  <2>2. 0 \in 0..HttpRetries
    BY WorkflowAssumption
  <2> QED
    BY <2>1, <2>2 DEF WfInit, RunTypes, NoLoop, WfIds
<1>2. OutsideTypes /\ BeforeRun
  BY DEF WfInit, OutsideTypes, BeforeRun, WfIds
<1>3. Once(wf, started)
  BY <1>2 DEF BeforeRun, Once
<1>4. wfStep = "called"
  BY DEF WfInit
<1> QED
  BY <1>1, <1>2, <1>3, <1>4 DEF WfInv

\* WfCalled.
LEMMA CalledKeeps == ASSUME WfInv, WfCalled PROVE WfInv'
<1>1. /\ wfStep = "called" /\ wfStep' \in {"save", "refused"} /\ (wfStep' = "save" => validate(wf) = {})
      /\ wfToken' \in {TRUE, wfToken}
      /\ UNCHANGED <<wf, walks, current, wfTries, looping, result, started, firedEdges, wfStatus, wfCancelled, wfRow, writes>>
  BY DEF WfCalled, runVars, tableVars
<1>2. RunTypes' /\ OutsideTypes'
  BY <1>1 DEF WfInv, RunTypes, OutsideTypes
<1>3. BeforeRun'
  BY <1>1 DEF WfInv, BeforeRun, NoLoop
<1> QED
  BY <1>1, <1>2, <1>3, NothingYet

\* SaveWfRun: the walk of the whole graph begins.
LEMMA SaveKeeps == ASSUME WfInv, LoopsApart(wf), SaveWfRun PROVE WfInv'
<1>1. /\ wfStep = "save"
      /\ wfRow' \in {wfRow, [wfRow EXCEPT !.status = "running"]}
      /\ UNCHANGED <<wf, current, wfTries, looping, vars, result, started, firedEdges, wfStatus, wfToken, wfCancelled, writes>>
  BY DEF SaveWfRun
<1>2. RunTypes /\ OutsideTypes /\ BeforeRun /\ validate(wf) = {}
  BY <1>1 DEF WfInv
<1>0. OutsideTypes'
  BY <1>1, <1>2 DEF OutsideTypes
<1>3. CASE wfStep' = "refused" /\ UNCHANGED walks
  <2>1. RunTypes'
    BY <1>1, <1>2, <1>3 DEF RunTypes
  <2>2. BeforeRun'
    BY <1>1, <1>2, <1>3 DEF BeforeRun, NoLoop
  <2> QED
    BY <1>0, <1>3, <2>1, <2>2, NothingYet
<1>4. CASE wfStep' = "pick" /\ walks' = <<Walk(WfIds, 0)>>
  <2> DEFINE walk == Walk(WfIds, 0)
  <2>1. Drawn
    BY <1>2, RunIsDrawn DEF RunTypes
  <2>2. GoodWalk(wf, walk, WfIds, {}) /\ walk.to = 0 /\ walk.seen = {}
    BY <2>1, WalkBegins DEF Drawn
  <2>3. Outer(wf, walk, result, 0, {})
    BY <1>2, <2>1, OuterBegins DEF BeforeRun
  <2>4. WalkTyped(wf, walk) /\ walk \in WalkRecords(wf)
    BY <2>2, GoodWalkTyped DEF WalkTyped
  <2>5. Counted(wf, started, {}, NoLoop, {})
    BY <1>2, <2>1, CountedBegins DEF BeforeRun, Drawn
  <2> HIDE DEF walk
  <2>6. walks' = <<walk>> /\ walks' \in Seq(WalkRecords(wf)) /\ Len(walks') = 1 /\ walks'[1] = walk
    BY <1>4, <2>4 DEF walk
  <2>7. RunTypes'
    <3>1. WalksTyped(wf, walks')
      BY <2>4, <2>6 DEF WalksTyped
    <3> QED
      BY <1>1, <1>2, <1>4, <3>1 DEF RunTypes
  <2>9. /\ current' = 0 /\ looping' = NoLoop /\ wfStatus' = "none" /\ firedEdges' = {} /\ Busy' = 0 /\ Unseen' = {}
        /\ result' = result /\ started' = started
        /\ looping'.loop = 0 /\ \A n \in NodeIds(wf) : result'[n] = "none"
    BY <1>1, <1>2, <2>6 DEF BeforeRun, Busy, Unseen, NoLoop
  <2>10. Underway'
    BY <1>1, <1>4, <2>2, <2>3, <2>5, <2>6, <2>9 DEF Underway
  <2> QED
    BY <1>0, <1>1, <1>2, <1>4, <2>1, <2>7, <2>10, GoesOn
<1> QED
  BY <1>1, <1>3, <1>4 DEF SaveWfRun

\* What holds of the run under way, in the words of the lemmas.
LEMMA UnderwayFacts ==
  ASSUME WfInv, LoopsApart(wf), wfStep \in {"pick", "busy", "iterate"}
  PROVE  /\ Drawn /\ RunTypes /\ OutsideTypes /\ Underway /\ validate(wf) = {}
         /\ Len(walks) \in {1, 2} /\ walks # <<>> /\ DOMAIN walks = 1..Len(walks)
         /\ walks \in Seq(WalkRecords(wf)) /\ walks[1] \in WalkRecords(wf) /\ walks[Len(walks)] \in WalkRecords(wf)
         /\ Top = walks[Len(walks)] /\ WfIds = NodeIds(wf) /\ 0 \notin NodeIds(wf)
         /\ Len(walks) = 2 => looping.loop \in LoopIds(wf) \cap walks[1].seen /\ looping.loop # 0
         /\ looping.left \in Nat
<1>1. RunTypes /\ OutsideTypes /\ Underway /\ validate(wf) = {}
  BY DEF WfInv
<1>2. Drawn
  BY <1>1, RunIsDrawn DEF RunTypes
<1>3. Len(walks) \in {1, 2} /\ walks \in Seq(WalkRecords(wf)) /\ looping.left \in Nat
  BY <1>1 DEF Underway, RunTypes, WalksTyped
<1>4. Top = walks[Len(walks)] /\ WfIds = NodeIds(wf) /\ 0 \notin NodeIds(wf)
  BY <1>2, EdgesFinite DEF Top, WfIds, Drawn
<1>5. Len(walks) = 2 => looping.loop \in LoopIds(wf) \cap walks[1].seen /\ looping.loop # 0
  BY <1>1 DEF Underway
<1> QED
  BY <1>1, <1>2, <1>3, <1>4, <1>5

\* WalkEnds: of the whole graph, or of the body.
LEMMA EndKeeps == ASSUME WfInv, LoopsApart(wf), WalkEnds PROVE WfInv'
<1>1. /\ wfStep = "pick" /\ Top.queue = <<>>
      /\ UNCHANGED <<wf, current, wfTries, looping, result, started, firedEdges, wfToken, wfCancelled, wfRow, writes>>
      /\ IF Len(walks) = 1 THEN wfStep' = "settle" /\ wfStatus' = "completed" /\ walks' = walks
         ELSE wfStep' = "iterate" /\ walks' = Front(walks) /\ wfStatus' = wfStatus
  BY DEF WalkEnds, Ends, tableVars
<1>2. /\ Drawn /\ RunTypes /\ OutsideTypes /\ Underway /\ validate(wf) = {}
      /\ Len(walks) \in {1, 2} /\ walks # <<>> /\ walks \in Seq(WalkRecords(wf)) /\ Top = walks[Len(walks)] /\ current = 0
  <2>1. wfStep \in {"pick", "busy", "iterate"}
    BY <1>1
  <2>2. current = 0
    BY <1>1, <2>1 DEF WfInv, Underway
  <2> QED
    BY <2>1, <2>2, UnderwayFacts
<1>3. CASE Len(walks) = 1
  <2>1. RunTypes' /\ OutsideTypes'
    BY <1>1, <1>2, <1>3 DEF RunTypes, OutsideTypes
  <2>2. Once(wf', started')
    BY <1>1 DEF WfInv
  <2> QED
    BY <1>1, <1>2, <1>3, <2>1, <2>2 DEF WfInv
<1>4. CASE Len(walks) = 2
  <2>1. /\ walks' \in Seq(WalkRecords(wf)) /\ Len(walks') = 1 /\ walks'[1] = walks[1]
        /\ wfStep' = "iterate" /\ wfStatus' = wfStatus
    <3>1. walks' = Front(walks) /\ wfStep' = "iterate" /\ wfStatus' = wfStatus
      BY <1>1, <1>4
    <3>2. walks' \in Seq(WalkRecords(wf)) /\ Len(walks') = Len(walks) - 1 /\ \A k \in 1..(Len(walks) - 1) : walks'[k] = walks[k]
      BY <1>2, <3>1, LastGone
    <3> QED
      BY <1>4, <3>1, <3>2
  <2>2. RunTypes' /\ OutsideTypes'
    <3>1. WalksTyped(wf, walks')
      BY <1>2, <2>1 DEF RunTypes, WalksTyped
    <3> QED
      BY <1>1, <1>2, <2>1, <3>1 DEF RunTypes, OutsideTypes
  <2>3. Busy' = Busy /\ Unseen' = {}
    BY <1>1, <2>1 DEF Busy, Unseen
  <2>4. Counted(wf, started, walks[1].seen, looping, {})
    <3>1. /\ Counted(wf, started, walks[1].seen, looping, Unseen)
          /\ started \in [NodeIds(wf) -> Nat] /\ looping.left \in Nat
      BY <1>2 DEF Underway, RunTypes
    <3>2. \A l \in LoopIds(wf) : node(wf, l).max_iterations \in Nat
      BY <1>2, NodeIs DEF Drawn, LoopIds
    <3>3. \A l \in LoopIds(wf) : \A n \in BodyIn(wf, l) :
            /\ Due(wf, l, n, walks[1].seen, looping, Unseen) \in Nat /\ Due(wf, l, n, walks[1].seen, looping, {}) \in Nat
            /\ Due(wf, l, n, walks[1].seen, looping, {}) <= Due(wf, l, n, walks[1].seen, looping, Unseen)
      BY <3>1, <3>2 DEF Due
    <3> QED
      BY <1>2, <3>1, <3>3, CountedLess
  <2>5. Underway'
    BY <1>1, <1>2, <1>4, <2>1, <2>3, <2>4 DEF Underway
  <2> QED
    BY <1>1, <1>2, <2>1, <2>2, <2>5, GoesOn
<1> QED
  BY <1>2, <1>3, <1>4

-------------------------------------------------------------------------------
(* The actions of the walks                                                  *)

\* What TakeNode may come to, but for the walks.
TakenTo(h, n, seen) ==
  \/ h \in seen /\ UNCHANGED <<wfStep, wfStatus, current, looping, started>>
  \/ h \notin seen /\ wfStep' = "settle" /\ wfStatus' \in {"cancelled", "failed"} /\ UNCHANGED <<current, looping, started>>
  \/ /\ h \notin seen /\ n.type # "loop" /\ wfStep' = "busy" /\ current' = h
     /\ started' = [started EXCEPT ![h] = @ + 1] /\ UNCHANGED <<wfStatus, looping>>
  \/ /\ h \notin seen /\ n.type = "loop" /\ Len(walks) = 1 /\ wfStep' = "iterate" /\ UNCHANGED <<wfStatus, current, started>>
     /\ \E items \in 0..MaxItems : looping' = [loop |-> h, left |-> iterations(n, items)]

\* The head of the queue of the walk under way is taken.
LEMMA HeadTaken ==
  ASSUME TakeNode, NEW top, top = walks[Len(walks)], NEW h, h = Head(top.queue)
  PROVE  /\ wfStep = "pick" /\ top.queue # <<>> /\ TakenTo(h, node(wf, h), top.seen)
         /\ walks' = [walks EXCEPT ![Len(walks)] = Taken(top)]
         /\ UNCHANGED <<wf, wfTries, vars, result, firedEdges, wfToken, wfCancelled, wfRow, writes>>
<1>1. Top = top /\ wfStep = "pick" /\ top.queue # <<>>
  BY DEF TakeNode, Top
<1>2. /\ walks' = SetTop([Top EXCEPT !.queue = Tail(@), !.seen = @ \cup {h}])
      /\ UNCHANGED <<wf, wfTries, vars, result, firedEdges, wfToken, wfCancelled, wfRow, writes>>
  BY <1>1 DEF TakeNode, tableVars
<1>3. walks' = [walks EXCEPT ![Len(walks)] = Taken(top)]
  BY <1>1, <1>2 DEF SetTop, Taken
<1>4. TakenTo(h, node(wf, h), top.seen)
  <2>1. IF h \in top.seen THEN UNCHANGED <<wfStep, wfStatus, current, looping, started>>
        ELSE IF wfCancelled THEN Ends("cancelled") /\ UNCHANGED <<current, looping, started>>
        ELSE IF node(wf, h).type # "loop"
        THEN /\ wfStep' = "busy" /\ current' = h /\ started' = [started EXCEPT ![h] = @ + 1]
             /\ UNCHANGED <<wfStatus, looping>>
        ELSE \/ Ends("failed") /\ UNCHANGED <<current, looping, started>>
             \/ /\ Len(walks) = 1 /\ TRUE \in resolve_source(node(wf, h))
                /\ \E items \in 0..MaxItems : looping' = [loop |-> h, left |-> iterations(node(wf, h), items)]
                /\ wfStep' = "iterate" /\ UNCHANGED <<wfStatus, current, started>>
    BY <1>1 DEF TakeNode
  <2> QED
    BY <2>1 DEF TakenTo, Ends
<1> QED
  BY <1>1, <1>2, <1>3, <1>4

\* While it is, no node is in execution.
LEMMA TakeEffects ==
  ASSUME WfInv, TakeNode, NEW top, top = walks[Len(walks)], NEW h, h = Head(top.queue)
  PROVE  /\ wfStep = "pick" /\ current = 0 /\ top.queue # <<>> /\ TakenTo(h, node(wf, h), top.seen)
         /\ walks' = [walks EXCEPT ![Len(walks)] = Taken(top)]
         /\ UNCHANGED <<wf, wfTries, vars, result, firedEdges, wfToken, wfCancelled, wfRow, writes>>
<1>1. wfStep = "pick"
  BY DEF TakeNode
<1>2. current = 0
  BY <1>1 DEF WfInv, Underway
<1> QED
  BY <1>2, HeadTaken

\* TakeNode, in the walk of the whole graph.
LEMMA TakeOutside == ASSUME WfInv, LoopsApart(wf), TakeNode, Len(walks) = 1 PROVE WfInv'
<1> DEFINE top == walks[1]
           h   == Head(top.queue)
           new == Taken(top)
<1>1. /\ wfStep = "pick" /\ current = 0 /\ top.queue # <<>> /\ TakenTo(h, node(wf, h), top.seen)
      /\ walks' = [walks EXCEPT ![1] = new]
      /\ UNCHANGED <<wf, wfTries, vars, result, firedEdges, wfToken, wfCancelled, wfRow, writes>>
  BY TakeEffects
<1>2. /\ Drawn /\ RunTypes /\ OutsideTypes /\ Underway /\ validate(wf) = {}
      /\ walks # <<>> /\ walks \in Seq(WalkRecords(wf)) /\ top \in WalkRecords(wf)
      /\ WfIds = NodeIds(wf) /\ 0 \notin NodeIds(wf) /\ looping.left \in Nat
  BY <1>1, UnderwayFacts
<1>3. looping.loop = 0 /\ Busy = 0 /\ Outer(wf, top, result, 0, firedEdges) /\ top.to = 0 /\ Unseen = {}
  BY <1>1, <1>2 DEF Underway, Busy, Unseen
<1>4. /\ new.degree = top.degree /\ new.to = top.to /\ new.queue = Tail(top.queue)
      /\ new.seen = top.seen \cup {Head(top.queue)}
      /\ new = [degree |-> new.degree, seen |-> new.seen, to |-> new.to, queue |-> new.queue]
  BY <1>2, TakenFields
<1> HIDE DEF new
<1>5. /\ h \in NodeIds(wf) /\ h \notin Bodies(wf)
      /\ h \in top.seen => Outer(wf, new, result, 0, firedEdges)
      /\ h \notin top.seen => Outer(wf, new, result, h, firedEdges) /\ result[h] = "none"
  <2> HIDE DEF top
  <2> QED
    BY <1>1, <1>2, <1>3, <1>4, OuterTakes
<1>6. WalkTyped(wf, new) /\ new \in WalkRecords(wf) /\ new.seen = top.seen \cup {h} /\ new.to = 0
  BY <1>3, <1>4, <1>5, GoodWalkTyped DEF Outer, WalkTyped
<1> HIDE DEF h
<1>7. walks' \in Seq(WalkRecords(wf)) /\ Len(walks') = 1 /\ walks'[1] = new
  BY <1>1, <1>2, <1>6, LastReplaced
<1>0. /\ WalksTyped(wf, walks') /\ wfStep = "pick" /\ current = 0
      /\ UNCHANGED <<wf, wfTries, vars, result, firedEdges, wfToken, wfCancelled, wfRow, writes>>
  <2>1. WalkTyped(wf, walks'[1]) /\ walks' \in Seq(WalkRecords(wf)) /\ Len(walks') = 1
    BY <1>6, <1>7
  <2>2. WalksTyped(wf, walks')
    BY <2>1, TwoWalks
  <2> QED
    BY <1>1, <2>2
<1>8. \A l \in LoopIds(wf) : node(wf, l).max_iterations \in Nat /\ l \in NodeIds(wf)
  BY <1>2, NodeIs DEF Drawn, LoopIds
<1>9. Unseen' = {} /\ Counted(wf, started, top.seen, looping, {}) /\ started \in [NodeIds(wf) -> Nat]
  BY <1>2, <1>3, <1>7 DEF Unseen, Underway, RunTypes
<1> HIDE DEF top
<1>10. CASE h \in top.seen /\ UNCHANGED <<wfStep, wfStatus, current, looping, started>>
  <2>1. RunTypes' /\ OutsideTypes'
    BY <1>0, <1>2, <1>10 DEF RunTypes, OutsideTypes
  <2>2. Busy' = 0 /\ new.seen = top.seen
    BY <1>3, <1>6, <1>10, <1>1 DEF Busy
  <2>3. Underway'
    BY <1>0, <1>2, <1>3, <1>5, <1>6, <1>7, <1>9, <1>10, <2>2 DEF Underway
  <2> QED
    BY <1>0, <1>2, <1>10, <2>1, <2>3, GoesOn
<1>11. CASE wfStep' = "settle" /\ wfStatus' \in {"cancelled", "failed"} /\ UNCHANGED <<current, looping, started>>
  <2>1. RunTypes' /\ OutsideTypes'
    BY <1>0, <1>2, <1>11 DEF RunTypes, OutsideTypes
  <2> QED
    BY <1>0, <1>2, <1>11, <2>1, BrokenOff
<1>12. CASE /\ h \notin top.seen /\ node(wf, h).type # "loop" /\ wfStep' = "busy" /\ current' = h
            /\ started' = [started EXCEPT ![h] = @ + 1] /\ UNCHANGED <<wfStatus, looping>>
  <2>1. /\ started' \in [NodeIds(wf) -> Nat] /\ started'[h] = started[h] + 1
        /\ \A m \in NodeIds(wf) : m # h => started'[m] = started[m]
    BY <1>5, <1>9, <1>12
  <2>2. RunTypes' /\ OutsideTypes'
    BY <1>0, <1>2, <1>5, <1>12, <2>1 DEF RunTypes, OutsideTypes
  <2>3. h \in NodeIds(wf) \ (Bodies(wf) \cup LoopIds(wf)) /\ h \in new.seen \ LoopIds(wf) /\ h # 0
    BY <1>2, <1>5, <1>6, <1>12 DEF LoopIds
  <2>4. Counted(wf, started', new.seen, looping, {})
    <3>1. h \notin top.seen /\ new.seen = top.seen \cup {h}
      BY <1>6, <1>12
    <3> QED
      BY <1>2, <1>9, <2>1, <2>3, <3>1, CountedOutside
  <2>5. Busy' = h
    BY <1>3, <1>12 DEF Busy
  <2>6. Underway'
    BY <1>0, <1>2, <1>3, <1>5, <1>6, <1>7, <1>9, <1>12, <2>3, <2>4, <2>5 DEF Underway
  <2> QED
    BY <1>0, <1>2, <1>12, <2>2, <2>6, GoesOn
<1>13. CASE /\ h \notin top.seen /\ node(wf, h).type = "loop" /\ wfStep' = "iterate" /\ UNCHANGED <<wfStatus, current, started>>
            /\ \E items \in 0..MaxItems : looping' = [loop |-> h, left |-> iterations(node(wf, h), items)]
  <2>1. h \in LoopIds(wf) /\ h # 0 /\ node(wf, h).max_iterations \in Nat
    BY <1>2, <1>5, <1>8, <1>13 DEF LoopIds
  <2>2. /\ looping' \in [loop : NodeIds(wf) \cup {0}, left : Nat] /\ looping'.loop = h
        /\ looping'.left \in Nat /\ looping'.left <= node(wf, h).max_iterations
    <3>1. PICK items \in 0..MaxItems : looping' = [loop |-> h, left |-> iterations(node(wf, h), items)]
      BY <1>13
    <3>2. items \in Nat
      BY WorkflowAssumption
    <3>3. iterations(node(wf, h), items) \in Nat /\ iterations(node(wf, h), items) <= node(wf, h).max_iterations
      BY <2>1, <3>2 DEF iterations
    <3> QED
      BY <1>5, <3>1, <3>3
  <2>3. RunTypes' /\ OutsideTypes'
    BY <1>0, <1>2, <1>13, <2>2 DEF RunTypes, OutsideTypes
  <2>4. \A l \in LoopIds(wf) : \A n \in BodyIn(wf, l) :
          /\ Due(wf, l, n, top.seen, looping, {}) \in Nat /\ Due(wf, l, n, new.seen, looping', {}) \in Nat
          /\ Due(wf, l, n, new.seen, looping', {}) <= Due(wf, l, n, top.seen, looping, {})
    <3> TAKE l \in LoopIds(wf)
    <3> TAKE n \in BodyIn(wf, l)
    <3>1. l # 0 /\ node(wf, l).max_iterations \in Nat
      BY <1>2, <1>8
    <3>2. CASE l = h
      <4>1. Due(wf, l, n, top.seen, looping, {}) = node(wf, h).max_iterations
        BY <1>3, <1>13, <3>1, <3>2 DEF Due
      <4>2. Due(wf, l, n, new.seen, looping', {}) = looping'.left + 0
        BY <2>2, <3>2 DEF Due
      <4> QED
        BY <2>1, <2>2, <4>1, <4>2
    <3>3. CASE l # h
      <4>1. Due(wf, l, n, new.seen, looping', {}) = Due(wf, l, n, top.seen, looping, {})
        BY <1>3, <1>6, <2>2, <3>1, <3>3 DEF Due
      <4>2. Due(wf, l, n, top.seen, looping, {}) \in Nat
        BY <1>3, <3>1 DEF Due
      <4> QED
        BY <4>1, <4>2
    <3> QED
      BY <3>2, <3>3
  <2>5. Counted(wf, started, new.seen, looping', {})
    <3>1. top.seen \subseteq new.seen
      BY <1>6
    <3> QED
      BY <1>2, <1>9, <2>4, <3>1, CountedLess
  <2>6. Busy' = h /\ h \in new.seen
    BY <1>6, <2>1, <2>2 DEF Busy
  <2>7. Underway'
    <3>1. /\ wfStep' = "iterate" /\ current' = 0 /\ started' = started /\ wfStatus' = "none" /\ Unseen' = {}
          /\ \A n \in NodeIds(wf) : result'[n] # "error"
      BY <1>0, <1>2, <1>9, <1>13 DEF Underway
    <3>2. Outer(wf, new, result, h, firedEdges)
      BY <1>5, <1>13
    <3>3. looping'.loop = h
      BY <2>2
    <3>4. Counted(wf', started', (walks[1].seen)', looping', Unseen')
      BY <1>0, <1>7, <2>5, <3>1
    <3>5. (walks[1].to)' = 0 /\ Outer(wf', (walks[1])', result', Busy', firedEdges')
      BY <1>0, <1>6, <1>7, <2>6, <3>2
    <3>6. Len(walks') = 1 /\ looping'.loop \in LoopIds(wf') \cap (walks[1].seen)' /\ looping'.loop # 0
      BY <1>0, <1>7, <2>1, <2>6, <3>3
    <3> QED
      BY <1>0, <3>1, <3>4, <3>5, <3>6 DEF Underway
  <2> QED
    BY <1>0, <1>2, <1>13, <2>3, <2>7, GoesOn
<1> QED
  BY <1>1, <1>10, <1>11, <1>12, <1>13 DEF TakenTo

\* TakeNode, in the walk of a body.
LEMMA TakeInside == ASSUME WfInv, LoopsApart(wf), TakeNode, Len(walks) = 2 PROVE WfInv'
<1> DEFINE top == walks[2]
           h   == Head(top.queue)
           new == Taken(top)
           l   == looping.loop
<1>1. /\ wfStep = "pick" /\ current = 0 /\ top.queue # <<>> /\ TakenTo(h, node(wf, h), top.seen)
      /\ walks' = [walks EXCEPT ![2] = new]
      /\ UNCHANGED <<wf, wfTries, vars, result, firedEdges, wfToken, wfCancelled, wfRow, writes>>
  BY TakeEffects
<1>2. /\ Drawn /\ RunTypes /\ OutsideTypes /\ Underway /\ validate(wf) = {}
      /\ walks # <<>> /\ walks \in Seq(WalkRecords(wf)) /\ top \in WalkRecords(wf)
      /\ WfIds = NodeIds(wf) /\ 0 \notin NodeIds(wf) /\ looping.left \in Nat
      /\ l \in LoopIds(wf) \cap walks[1].seen /\ l # 0
  BY <1>1, UnderwayFacts
<1>3. Busy = l /\ Outer(wf, walks[1], result, l, firedEdges) /\ walks[1].to = 0 /\ Inner(wf, top, l, result, 0)
  BY <1>1, <1>2 DEF Underway, Busy
<1>4. /\ new.degree = top.degree /\ new.to = top.to /\ new.queue = Tail(top.queue)
      /\ new.seen = top.seen \cup {Head(top.queue)}
      /\ new = [degree |-> new.degree, seen |-> new.seen, to |-> new.to, queue |-> new.queue]
  BY <1>2, TakenFields
<1> HIDE DEF new
<1>5. /\ h \in BodyIn(wf, l)
      /\ h \in top.seen => Inner(wf, new, l, result, 0)
      /\ h \notin top.seen => Inner(wf, new, l, result, h)
  <2> HIDE DEF top, l
  <2> QED
    BY <1>1, <1>2, <1>3, <1>4, InnerTakes
<1>6. WalkTyped(wf, new) /\ new \in WalkRecords(wf) /\ new.seen = top.seen \cup {h}
  BY <1>4, <1>5, GoodWalkTyped DEF Inner, WalkTyped
<1> HIDE DEF h
<1>7. walks' \in Seq(WalkRecords(wf)) /\ Len(walks') = 2 /\ walks'[2] = new /\ walks'[1] = walks[1]
  <2> HIDE DEF top, l
  <2>1. walks' = [walks EXCEPT ![Len(walks)] = new] /\ walks # <<>> /\ walks \in Seq(WalkRecords(wf)) /\ new \in WalkRecords(wf)
    BY <1>1, <1>2, <1>6
  <2>2. walks' \in Seq(WalkRecords(wf)) /\ Len(walks') = Len(walks) /\ walks'[Len(walks)] = new
        /\ \A k \in 1..Len(walks) : k # Len(walks) => walks'[k] = walks[k]
    <3> DEFINE S == WalkRecords(wf)
               t == walks'
    <3>1. t = [walks EXCEPT ![Len(walks)] = new] /\ walks # <<>> /\ walks \in Seq(S) /\ new \in S
      BY <2>1
    <3> HIDE DEF S, t
    <3>2. /\ t \in Seq(S) /\ Len(t) = Len(walks) /\ t[Len(walks)] = new
          /\ \A k \in 1..Len(walks) : k # Len(walks) => t[k] = walks[k]
      BY <3>1, LastReplaced
    <3> QED
      BY <3>2 DEF S, t
  <2>3. Len(walks) = 2
    BY <1>2
  <2> QED
    BY <2>2, <2>3
<1>0. /\ WalksTyped(wf, walks') /\ wfStep = "pick" /\ current = 0
      /\ UNCHANGED <<wf, wfTries, vars, result, firedEdges, wfToken, wfCancelled, wfRow, writes>>
  <2>1. WalkTyped(wf, walks[1])
    BY <1>2 DEF RunTypes, WalksTyped
  <2>2. walks' \in Seq(WalkRecords(wf)) /\ Len(walks') = 2 /\ WalkTyped(wf, walks'[1]) /\ WalkTyped(wf, walks'[2])
    BY <1>6, <1>7, <2>1
  <2>3. WalksTyped(wf, walks')
    BY <2>2, TwoWalks
  <2> QED
    BY <1>1, <2>3
<1>8. h \in NodeIds(wf) /\ h # 0
  BY <1>2, <1>5, BodyFacts DEF Drawn
<1>9. /\ Unseen = NodeIds(wf) \ top.seen /\ Unseen' = NodeIds(wf) \ new.seen
      /\ Counted(wf, started, walks[1].seen, looping, Unseen) /\ started \in [NodeIds(wf) -> Nat]
  BY <1>1, <1>2, <1>7 DEF Unseen, Underway, RunTypes
<1> HIDE DEF top, l
<1>10. CASE h \in top.seen /\ UNCHANGED <<wfStep, wfStatus, current, looping, started>>
  <2>1. RunTypes' /\ OutsideTypes'
    BY <1>0, <1>2, <1>10 DEF RunTypes, OutsideTypes
  <2>2. Busy' = Busy /\ new.seen = top.seen /\ Unseen' = Unseen
    BY <1>6, <1>9, <1>10 DEF Busy
  <2>3. Underway'
    BY <1>0, <1>2, <1>3, <1>5, <1>7, <1>9, <1>10, <2>2 DEF Underway, l
  <2> QED
    BY <1>0, <1>2, <1>10, <2>1, <2>3, GoesOn
<1>11. CASE wfStep' = "settle" /\ wfStatus' \in {"cancelled", "failed"} /\ UNCHANGED <<current, looping, started>>
  <2>1. RunTypes' /\ OutsideTypes'
    BY <1>0, <1>2, <1>11 DEF RunTypes, OutsideTypes
  <2> QED
    BY <1>0, <1>2, <1>11, <2>1, BrokenOff
<1>12. CASE /\ h \notin top.seen /\ node(wf, h).type # "loop" /\ wfStep' = "busy" /\ current' = h
            /\ started' = [started EXCEPT ![h] = @ + 1] /\ UNCHANGED <<wfStatus, looping>>
  <2>1. /\ started' \in [NodeIds(wf) -> Nat] /\ started'[h] = started[h] + 1
        /\ \A m \in NodeIds(wf) : m # h => started'[m] = started[m]
    BY <1>8, <1>9, <1>12
  <2>2. RunTypes' /\ OutsideTypes'
    BY <1>0, <1>2, <1>8, <1>12, <2>1 DEF RunTypes, OutsideTypes
  <2>3. h \in new.seen \ LoopIds(wf)
    BY <1>6, <1>12 DEF LoopIds
  <2>4. Counted(wf, started', walks[1].seen, looping, Unseen')
    <3>1. Unseen' = Unseen \ {h} /\ h \in Unseen
      BY <1>6, <1>8, <1>9, <1>12
    <3>2. looping.loop \in LoopIds(wf) /\ h \in BodyIn(wf, looping.loop) \cap Unseen
      BY <1>2, <1>5, <3>1 DEF l
    <3> QED
      BY <1>2, <1>9, <2>1, <3>1, <3>2, CountedInside
  <2>5. Busy' = l
    BY <1>2, <1>12 DEF Busy, l
  <2>6. Underway'
    BY <1>0, <1>2, <1>3, <1>5, <1>7, <1>8, <1>12, <2>3, <2>4, <2>5 DEF Underway, l
  <2> QED
    BY <1>0, <1>2, <1>12, <2>2, <2>6, GoesOn
<1> QED
  BY <1>1, <1>10, <1>11, <1>12 DEF TakenTo

\* Counting down changes no more of a walk than the degrees and the queue.
LEMMA DecrementFields ==
  ASSUME NEW w, NEW walk \in WalkRecords(w), NEW edges
  PROVE  decrement(walk, edges).to = walk.to /\ decrement(walk, edges).seen = walk.seen
BY DEF decrement, WalkRecords

\* Iterate, with an item left: the walk of the body begins.
LEMMA IterateAgain == ASSUME WfInv, LoopsApart(wf), Iterate, looping.left > 0, ~wfCancelled PROVE WfInv'
<1> DEFINE l    == looping.loop
           end  == node(wf, l).body_end
           walk == Walk(BodyIn(wf, l), end)
<1>1. /\ wfStep = "iterate" /\ wfStep' = "pick" /\ wfStatus' = wfStatus
      /\ looping' = [looping EXCEPT !.left = @ - 1] /\ UNCHANGED <<result, writes, firedEdges>>
      /\ walks' = Append(walks, Walk(reachable_between(wf, node(wf, l).body_start, end) \cup {node(wf, l).body_start, end}, end))
      /\ UNCHANGED <<wf, current, wfTries, started, wfToken, wfCancelled, wfRow>>
  BY DEF Iterate
<1>2. /\ Drawn /\ RunTypes /\ OutsideTypes /\ Underway /\ validate(wf) = {}
      /\ walks # <<>> /\ walks \in Seq(WalkRecords(wf))
      /\ WfIds = NodeIds(wf) /\ 0 \notin NodeIds(wf) /\ looping.left \in Nat
  BY <1>1, UnderwayFacts
<1>3. /\ Len(walks) = 1 /\ current = 0 /\ l # 0 /\ l \in LoopIds(wf) \cap walks[1].seen
      /\ Outer(wf, walks[1], result, l, firedEdges) /\ walks[1].to = 0 /\ Unseen = {} /\ wfStatus = "none"
      /\ Counted(wf, started, walks[1].seen, looping, {}) /\ started \in [NodeIds(wf) -> Nat]
      /\ \A n \in NodeIds(wf) : result[n] # "error"
  <2>1. /\ Len(walks) = 1 /\ current = 0 /\ l # 0 /\ l \in LoopIds(wf) \cap walks[1].seen /\ wfStatus = "none"
        /\ \A n \in NodeIds(wf) : result[n] # "error"
    BY <1>1, <1>2 DEF Underway
  <2>2. Busy = l /\ Unseen = {}
    BY <2>1 DEF Busy, Unseen
  <2>3. /\ Outer(wf, walks[1], result, l, firedEdges) /\ walks[1].to = 0
        /\ Counted(wf, started, walks[1].seen, looping, {})
    BY <1>2, <2>2 DEF Underway
  <2>4. started \in [NodeIds(wf) -> Nat]
    BY <1>2 DEF RunTypes
  <2> QED
    BY <2>1, <2>2, <2>3, <2>4
<1>4. /\ looping' \in [loop : NodeIds(wf) \cup {0}, left : Nat] /\ looping'.loop = l
      /\ looping'.left = looping.left - 1 /\ looping'.left \in Nat
  <2>1. looping \in [loop : NodeIds(wf) \cup {0}, left : Nat] /\ looping.left - 1 \in Nat
    BY <1>2 DEF RunTypes
  <2>2. looping' = [looping EXCEPT !.left = @ - 1]
    BY <1>1
  <2> QED
    BY <2>1, <2>2
<1>5. BodyIn(wf, l) \in SUBSET WfIds /\ end \in BodyIn(wf, l) /\ node(wf, l).body_start \in BodyIn(wf, l)
  BY <1>2, <1>3, BodyFacts DEF Drawn
<1>6. walks' = Append(walks, walk)
  <2>1. reachable_between(wf, node(wf, l).body_start, end) \cup {node(wf, l).body_start, end} = BodyIn(wf, l)
    BY <1>5 DEF BodyIn
  <2> QED
    BY <1>1, <2>1
<1>7. Inner(wf, walk, l, result, 0) /\ walk.seen = {}
  BY <1>2, <1>3, InnerBegins
<1>8. WalkTyped(wf, walk) /\ walk \in WalkRecords(wf)
  BY <1>7, GoodWalkTyped DEF Inner, WalkTyped
<1> HIDE DEF walk, end, l
<1>9. walks' \in Seq(WalkRecords(wf)) /\ Len(walks') = 2 /\ walks'[1] = walks[1] /\ walks'[2] = walk
  <2>1. walks' \in Seq(WalkRecords(wf)) /\ Len(walks') = Len(walks) + 1 /\ walks'[Len(walks) + 1] = walk
        /\ \A k \in 1..Len(walks) : walks'[k] = walks[k]
    BY <1>2, <1>6, <1>8, LastAdded
  <2> QED
    BY <1>3, <2>1
<1>10. WalksTyped(wf, walks')
  <2>1. WalkTyped(wf, walks[1])
    BY <1>2, <1>3 DEF RunTypes, WalksTyped
  <2> QED
    BY <1>8, <1>9, <2>1, TwoWalks
<1>11. RunTypes' /\ OutsideTypes'
  BY <1>1, <1>2, <1>3, <1>4, <1>10 DEF RunTypes, OutsideTypes
<1>12. Unseen' = NodeIds(wf) /\ Busy' = l
  BY <1>1, <1>3, <1>4, <1>7, <1>9 DEF Unseen, Busy
<1>13. Counted(wf, started, walks[1].seen, looping', NodeIds(wf))
  <2>1. ASSUME NEW k \in LoopIds(wf), NEW n \in BodyIn(wf, k)
        PROVE  /\ Due(wf, k, n, walks[1].seen, looping, {}) \in Nat
               /\ Due(wf, k, n, walks[1].seen, looping', NodeIds(wf)) = Due(wf, k, n, walks[1].seen, looping, {})
    <3>1. node(wf, k).max_iterations \in Nat /\ n \in NodeIds(wf)
      BY <1>2, NodeIs, BodyFacts DEF Drawn, LoopIds
    <3>2. CASE k = l
      <4>1. /\ Due(wf, k, n, walks[1].seen, looping, {}) = looping.left + 0
            /\ Due(wf, k, n, walks[1].seen, looping', NodeIds(wf)) = looping'.left + 1
        BY <1>4, <3>1, <3>2 DEF Due, l
      <4> QED
        BY <1>2, <1>4, <4>1
    <3>3. CASE k # l
      BY <1>4, <3>1, <3>3 DEF Due, l
    <3> QED
      BY <3>2, <3>3
  <2>2. \A k \in LoopIds(wf) : \A n \in BodyIn(wf, k) :
          /\ Due(wf, k, n, walks[1].seen, looping, {}) \in Nat /\ Due(wf, k, n, walks[1].seen, looping', NodeIds(wf)) \in Nat
          /\ Due(wf, k, n, walks[1].seen, looping', NodeIds(wf)) <= Due(wf, k, n, walks[1].seen, looping, {})
    <3>1. \A a, b \in Nat : a = b => a <= b
      OBVIOUS
    <3> QED
      BY <2>1, <3>1
  <2> QED
    BY <1>2, <1>3, <2>2, CountedLess
<1>14. Underway'
  <2>1. Counted(wf', started', (walks[1].seen)', looping', Unseen')
    BY <1>1, <1>9, <1>12, <1>13
  <2>2. (walks[1].to)' = 0 /\ Outer(wf', (walks[1])', result', Busy', firedEdges')
    BY <1>1, <1>3, <1>9, <1>12
  <2>3. Inner(wf', (walks[2])', looping'.loop, result', current')
    BY <1>1, <1>3, <1>4, <1>7, <1>9
  <2>4. /\ Len(walks') = 2 /\ looping'.loop \in LoopIds(wf') \cap (walks[1].seen)' /\ looping'.loop # 0
        /\ wfStep' = "pick" /\ current' = 0 /\ wfStatus' = "none" /\ \A n \in NodeIds(wf') : result'[n] # "error"
    BY <1>1, <1>3, <1>4, <1>9
  <2> QED
    BY <2>1, <2>2, <2>3, <2>4 DEF Underway
<1> QED
  BY <1>1, <1>2, <1>11, <1>14, GoesOn

\* Iterate, behind the last item: the run goes on from the end of the body.
LEMMA IterateOver == ASSUME WfInv, LoopsApart(wf), Iterate, ~(looping.left > 0) PROVE WfInv'
<1> DEFINE l     == looping.loop
           end   == node(wf, l).body_end
           edges == next_nodes(end, result[end])
           new   == decrement(walks[1], edges)
<1>1. wfStep = "iterate"
  BY DEF Iterate
<1>2. /\ Drawn /\ RunTypes /\ OutsideTypes /\ Underway /\ validate(wf) = {} /\ Top = walks[Len(walks)]
      /\ walks # <<>> /\ walks \in Seq(WalkRecords(wf)) /\ walks[1] \in WalkRecords(wf)
      /\ WfIds = NodeIds(wf) /\ 0 \notin NodeIds(wf) /\ looping.left \in Nat
  BY <1>1, UnderwayFacts
<1>3. /\ Len(walks) = 1 /\ current = 0 /\ l # 0 /\ l \in LoopIds(wf) \cap walks[1].seen
      /\ Outer(wf, walks[1], result, l, firedEdges) /\ walks[1].to = 0 /\ Unseen = {} /\ wfStatus = "none"
      /\ Counted(wf, started, walks[1].seen, looping, {}) /\ started \in [NodeIds(wf) -> Nat]
      /\ \A n \in NodeIds(wf) : result[n] # "error"
      /\ result \in [NodeIds(wf) -> {"none", "ok", "true", "false", "error"}]
  BY <1>1, <1>2 DEF Underway, Busy, Unseen, RunTypes
<1>4. l \in NodeIds(wf) /\ node(wf, l).id = l /\ Leaving(edges, end, result[end])
  BY <1>2, <1>3, NodeIs, NextEdges, EdgesFinite DEF LoopIds, Drawn
<1>5. /\ wfStep' = "pick" /\ looping' = NoLoop /\ wfStatus' = wfStatus
      /\ result' = [result EXCEPT ![l] = "ok"]
      /\ writes' = writes \cup {{i \in WfIds : result'[i] # "none"}}
      /\ walks' = [walks EXCEPT ![1] = new] /\ firedEdges' = firedEdges \cup ToSet(edges)
      /\ UNCHANGED <<wf, current, wfTries, started, wfToken, wfCancelled, wfRow>>
  BY <1>2, <1>3, <1>4 DEF Iterate, SetTop
<1> HIDE DEF edges, new
<1>6. /\ result'[l] = "ok" /\ (\A m \in NodeIds(wf) \ {l} : result'[m] = result[m])
      /\ result' \in [NodeIds(wf) -> {"none", "ok", "true", "false", "error"}]
      /\ \A n \in NodeIds(wf) : result'[n] # "error"
  BY <1>3, <1>4, <1>5
<1>7. Outer(wf, new, result', 0, firedEdges \cup ToSet(edges))
  <2>1. Leaving(edges, node(wf, l).body_end, result[node(wf, l).body_end])
    BY <1>4
  <2> HIDE DEF l
  <2> QED
    BY <1>2, <1>3, <1>6, <2>1, OuterLoops DEF new
<1>8. new.to = 0 /\ new.seen = walks[1].seen
  BY <1>2, <1>3, DecrementFields DEF new
<1>9. WalkTyped(wf, new) /\ new \in WalkRecords(wf)
  BY <1>7, GoodWalkTyped DEF Outer, WalkTyped
<1>10. walks' \in Seq(WalkRecords(wf)) /\ Len(walks') = 1 /\ walks'[1] = new
  <2>1. walks' = [walks EXCEPT ![Len(walks)] = new]
    BY <1>3, <1>5
  <2>2. walks' \in Seq(WalkRecords(wf)) /\ Len(walks') = Len(walks) /\ walks'[Len(walks)] = new
    BY <1>2, <1>9, <2>1, LastReplaced
  <2> QED
    BY <1>3, <2>2
<1>11. WalksTyped(wf, walks')
  BY <1>9, <1>10, TwoWalks
<1>12. RunTypes' /\ OutsideTypes'
  <2>1. writes' \in SUBSET (SUBSET NodeIds(wf))
    <3>1. {i \in WfIds : result'[i] # "none"} \in SUBSET NodeIds(wf)
      BY <1>2
    <3> QED
      BY <1>2, <1>5, <3>1 DEF OutsideTypes
  <2>2. looping' \in [loop : NodeIds(wf) \cup {0}, left : Nat]
    BY <1>5 DEF NoLoop
  <2> QED
    BY <1>2, <1>3, <1>5, <1>6, <1>11, <2>1, <2>2 DEF RunTypes, OutsideTypes
<1>13. looping'.loop = 0 /\ Unseen' = {} /\ Busy' = 0
  BY <1>3, <1>5, <1>10 DEF Unseen, Busy, NoLoop
<1>14. Counted(wf, started, walks[1].seen, looping', {})
  <2>1. ASSUME NEW k \in LoopIds(wf), NEW n \in BodyIn(wf, k)
        PROVE  /\ Due(wf, k, n, walks[1].seen, looping, {}) \in Nat
               /\ Due(wf, k, n, walks[1].seen, looping', {}) = Due(wf, k, n, walks[1].seen, looping, {})
    <3>1. node(wf, k).max_iterations \in Nat /\ k # 0
      BY <1>2, NodeIs DEF Drawn, LoopIds
    <3>2. CASE k = l
      <4>1. /\ Due(wf, k, n, walks[1].seen, looping, {}) = looping.left + 0
            /\ Due(wf, k, n, walks[1].seen, looping', {}) = 0
        BY <1>3, <1>13, <3>1, <3>2 DEF Due
      <4> QED
        BY <1>2, <4>1
    <3>3. CASE k # l
      BY <1>13, <3>1, <3>3 DEF Due
    <3> QED
      BY <3>2, <3>3
  <2>2. \A k \in LoopIds(wf) : \A n \in BodyIn(wf, k) :
          /\ Due(wf, k, n, walks[1].seen, looping, {}) \in Nat /\ Due(wf, k, n, walks[1].seen, looping', {}) \in Nat
          /\ Due(wf, k, n, walks[1].seen, looping', {}) <= Due(wf, k, n, walks[1].seen, looping, {})
    <3>1. \A a, b \in Nat : a = b => a <= b
      OBVIOUS
    <3> QED
      BY <2>1, <3>1
  <2> QED
    BY <1>2, <1>3, <2>2, CountedLess
<1>15. Underway'
  <2>1. Counted(wf', started', (walks[1].seen)', looping', Unseen')
    BY <1>5, <1>8, <1>10, <1>13, <1>14
  <2>2. (walks[1].to)' = 0 /\ Outer(wf', (walks[1])', result', Busy', firedEdges')
    BY <1>5, <1>7, <1>8, <1>10, <1>13
  <2>3. /\ Len(walks') = 1 /\ looping'.loop = 0 /\ wfStep' = "pick" /\ current' = 0 /\ wfStatus' = "none"
        /\ \A n \in NodeIds(wf') : result'[n] # "error"
    BY <1>3, <1>5, <1>6, <1>10, <1>13
  <2> QED
    BY <2>1, <2>2, <2>3 DEF Underway
<1> QED
  BY <1>2, <1>5, <1>12, <1>15, GoesOn

\* Iterate.
LEMMA IterateKeeps == ASSUME WfInv, LoopsApart(wf), Iterate PROVE WfInv'
<1>1. ASSUME looping.left > 0, wfCancelled PROVE WfInv'
  <2>1. /\ wfStep = "iterate" /\ wfStep' = "settle" /\ wfStatus' = "cancelled"
        /\ UNCHANGED <<wf, walks, looping, result, writes, current, wfTries, started, wfToken, wfCancelled, wfRow>>
    BY <1>1 DEF Iterate, Ends
  <2>2. Underway /\ validate(wf) = {}
    BY <2>1 DEF WfInv
  <2>3. RunTypes' /\ OutsideTypes'
    BY <2>1 DEF WfInv, RunTypes, OutsideTypes
  <2> QED
    BY <2>1, <2>2, <2>3, BrokenOff
<1> QED
  BY <1>1, IterateAgain, IterateOver

\* What execute_node returns.
LEMMA OutcomesAre == ASSUME NEW n PROVE outcomes(n) \subseteq {"ok", "true", "false", "error"}
<1> DEFINE found == IF n.type \in Sourced THEN resolve_source(n) ELSE {TRUE}
<1>1. outcomes(n) = (IF FALSE \in found \/ n.type \in Sourced THEN {"error"} ELSE {})
                      \cup (IF TRUE \notin found THEN {}
                            ELSE CASE n.type = "condition" -> {"true", "false"}
                                   [] n.type = "assert"    -> {"true"}
                                   [] OTHER                -> {"ok"})
  BY DEF outcomes
<1> HIDE DEF found
<1>2. (CASE n.type = "condition" -> {"true", "false"} [] n.type = "assert" -> {"true"} [] OTHER -> {"ok"})
        \subseteq {"ok", "true", "false"}
  <2>1. CASE n.type = "condition"
    BY <2>1
  <2>2. CASE n.type = "assert"
    BY <2>2
  <2>3. CASE n.type # "condition" /\ n.type # "assert"
    BY <2>3
  <2> QED
    BY <2>1, <2>2, <2>3
<1> QED
  BY <1>1, <1>2

\* FinishNode with this outcome, but for vars.
FinishedWith(outcome) ==
  /\ outcome \in {"ok", "true", "false", "error"}
  /\ result' = [result EXCEPT ![current] = outcome]
  /\ writes' = writes \cup {{n \in WfIds : result'[n] # "none"}}
  /\ IF outcome = "error" THEN wfStep' = "settle" /\ wfStatus' = "failed" /\ UNCHANGED <<walks, firedEdges>>
     ELSE /\ wfStatus' = wfStatus
          /\ IF current = Top.to
             THEN wfStep' = "iterate" /\ walks' = Front(walks) /\ UNCHANGED firedEdges
             ELSE /\ wfStep' = "pick" /\ walks' = SetTop(decrement(Top, next_nodes(current, outcome)))
                  /\ firedEdges' = firedEdges \cup ToSet(next_nodes(current, outcome))

\* FinishNode does one of these.
LEMMA FinishComesTo == ASSUME FinishNode PROVE \E outcome : FinishedWith(outcome)
<1>1. PICK outcome \in outcomes(node(wf, current)) \cup
                       (IF node(wf, current).type \in {"http_request", "delay"} THEN {"error"} ELSE {}) :
        /\ result' = [result EXCEPT ![current] = outcome]
        /\ writes' = writes \cup {{n \in WfIds : result'[n] # "none"}}
        /\ IF outcome = "error" THEN Ends("failed") /\ UNCHANGED <<walks, firedEdges>>
           ELSE /\ wfStatus' = wfStatus
                /\ IF current = Top.to
                   THEN wfStep' = "iterate" /\ walks' = Front(walks) /\ UNCHANGED firedEdges
                   ELSE /\ wfStep' = "pick" /\ walks' = SetTop(decrement(Top, next_nodes(current, outcome)))
                        /\ firedEdges' = firedEdges \cup ToSet(next_nodes(current, outcome))
  BY DEF FinishNode
<1>2. outcome \in {"ok", "true", "false", "error"}
  BY OutcomesAre
<1>3. FinishedWith(outcome)
  BY <1>1, <1>2 DEF FinishedWith, Ends
<1> QED
  BY <1>3

\* What FinishNode finds and what it leaves.
LEMMA FinishEffects ==
  ASSUME WfInv, LoopsApart(wf), FinishNode
  PROVE  /\ wfStep = "busy" /\ current' = 0 /\ wfTries' \in 0..HttpRetries
         /\ UNCHANGED <<wf, looping, started, wfToken, wfCancelled, wfRow>>
         /\ \E outcome : FinishedWith(outcome)
         /\ Drawn /\ RunTypes /\ OutsideTypes /\ Underway /\ validate(wf) = {} /\ Top = walks[Len(walks)]
         /\ Len(walks) \in {1, 2} /\ walks # <<>> /\ walks \in Seq(WalkRecords(wf)) /\ walks[Len(walks)] \in WalkRecords(wf)
         /\ WfIds = NodeIds(wf) /\ 0 \notin NodeIds(wf)
         /\ current \in walks[Len(walks)].seen \ LoopIds(wf) /\ current \in NodeIds(wf)
         /\ result \in [NodeIds(wf) -> {"none", "ok", "true", "false", "error"}]
         /\ \A n \in NodeIds(wf) : result[n] # "error"
<1>1. wfStep = "busy" /\ current' = 0 /\ wfTries' = 0 /\ UNCHANGED <<wf, looping, started, wfToken, wfCancelled, wfRow>>
  BY DEF FinishNode
<1>2. \E outcome : FinishedWith(outcome)
  BY FinishComesTo
<1>3. /\ Drawn /\ RunTypes /\ OutsideTypes /\ Underway /\ validate(wf) = {} /\ Top = walks[Len(walks)]
      /\ Len(walks) \in {1, 2} /\ walks # <<>> /\ walks \in Seq(WalkRecords(wf)) /\ walks[Len(walks)] \in WalkRecords(wf)
      /\ WfIds = NodeIds(wf) /\ 0 \notin NodeIds(wf)
  BY <1>1, UnderwayFacts
<1>4. /\ current \in walks[Len(walks)].seen \ LoopIds(wf) /\ current \in NodeIds(wf)
      /\ result \in [NodeIds(wf) -> {"none", "ok", "true", "false", "error"}]
      /\ \A n \in NodeIds(wf) : result[n] # "error"
  BY <1>1, <1>3 DEF Underway, RunTypes
<1>5. 0 \in 0..HttpRetries
  BY WorkflowAssumption
<1> QED
  BY <1>1, <1>2, <1>3, <1>4, <1>5

\* FinishNode keeps the types of what it does not walk.
LEMMA FinishKeepsTypes ==
  ASSUME RunTypes, OutsideTypes, current \in NodeIds(wf), FinishNode, NEW outcome, FinishedWith(outcome),
         WalksTyped(wf, walks')
  PROVE  /\ RunTypes' /\ OutsideTypes'
         /\ result'[current] = outcome /\ \A m \in NodeIds(wf) \ {current} : result'[m] = result[m]
<1>1. /\ result' = [result EXCEPT ![current] = outcome] /\ outcome \in {"ok", "true", "false", "error"}
      /\ result \in [NodeIds(wf) -> {"none", "ok", "true", "false", "error"}]
  BY DEF FinishedWith, RunTypes
<1>2. /\ result' \in [NodeIds(wf) -> {"none", "ok", "true", "false", "error"}]
      /\ result'[current] = outcome /\ \A m \in NodeIds(wf) \ {current} : result'[m] = result[m]
  BY <1>1
<1>3. writes' \in SUBSET (SUBSET NodeIds(wf))
  <2>1. {n \in WfIds : result'[n] # "none"} \in SUBSET NodeIds(wf)
    BY DEF WfIds
  <2>2. writes' = writes \cup {{n \in WfIds : result'[n] # "none"}}
    BY DEF FinishedWith
  <2> QED
    BY <2>1, <2>2 DEF OutsideTypes
<1>4. 0 \in 0..HttpRetries
  BY WorkflowAssumption
<1>5. wfStep' \in {"settle", "iterate", "pick"} /\ wfStatus' \in {"failed", wfStatus}
  BY DEF FinishedWith
<1>6. current' = 0 /\ wfTries' = 0 /\ UNCHANGED <<wf, looping, started, wfToken, wfCancelled, wfRow>>
  BY DEF FinishNode
<1> QED
  BY <1>2, <1>3, <1>4, <1>5, <1>6 DEF RunTypes, OutsideTypes

\* So it does in a run whose loops are drawn apart.
LEMMA FinishTypes ==
  ASSUME WfInv, LoopsApart(wf), FinishNode, NEW outcome, FinishedWith(outcome), WalksTyped(wf, walks')
  PROVE  /\ RunTypes' /\ OutsideTypes'
         /\ result'[current] = outcome /\ \A m \in NodeIds(wf) \ {current} : result'[m] = result[m]
<1>1. RunTypes /\ OutsideTypes /\ current \in NodeIds(wf)
  BY FinishEffects
<1> QED
  BY <1>1, FinishKeepsTypes

\* FinishNode of a node that fails.
LEMMA FinishFails ==
  ASSUME WfInv, LoopsApart(wf), FinishNode, FinishedWith("error") PROVE WfInv'
<1>1. wfStep' = "settle" /\ wfStatus' = "failed" /\ UNCHANGED <<walks, firedEdges>>
  BY DEF FinishedWith
<1>2. RunTypes /\ validate(wf) = {} /\ UNCHANGED <<wf, started>> /\ \A n \in NodeIds(wf) : result[n] # "error"
  BY FinishEffects
<1>3. RunTypes' /\ OutsideTypes'
  <2>1. WalksTyped(wf, walks')
    BY <1>1, <1>2 DEF RunTypes
  <2> QED
    BY <2>1, FinishTypes
<1>4. Once(wf', started')
  BY <1>2 DEF WfInv
<1> QED
  BY <1>1, <1>2, <1>3, <1>4 DEF WfInv

\* FinishNode outside the bodies.
LEMMA FinishOutside ==
  ASSUME WfInv, LoopsApart(wf), FinishNode, NEW outcome, FinishedWith(outcome), outcome # "error", Len(walks) = 1
  PROVE  WfInv'
<1> DEFINE edges == next_nodes(current, outcome)
           new   == decrement(walks[1], edges)
<1>1. /\ wfStep = "busy" /\ current' = 0 /\ UNCHANGED <<wf, looping, started>>
      /\ Drawn /\ Underway /\ validate(wf) = {} /\ Top = walks[1]
      /\ walks # <<>> /\ walks \in Seq(WalkRecords(wf)) /\ walks[1] \in WalkRecords(wf) /\ 0 \notin NodeIds(wf)
      /\ current \in walks[1].seen \ LoopIds(wf) /\ current \in NodeIds(wf)
      /\ result \in [NodeIds(wf) -> {"none", "ok", "true", "false", "error"}]
      /\ \A n \in NodeIds(wf) : result[n] # "error"
  BY FinishEffects
<1>2. /\ looping.loop = 0 /\ Busy = current /\ Unseen = {} /\ walks[1].to = 0 /\ wfStatus = "none"
      /\ Outer(wf, walks[1], result, current, firedEdges) /\ Counted(wf, started, walks[1].seen, looping, {})
  <2>1. looping.loop = 0 /\ walks[1].to = 0 /\ wfStatus = "none"
    BY <1>1 DEF Underway
  <2>2. Busy = current /\ Unseen = {}
    BY <2>1 DEF Busy, Unseen
  <2> QED
    BY <1>1, <2>1, <2>2 DEF Underway
<1>3. /\ outcome \in {"ok", "true", "false"} /\ wfStatus' = "none" /\ wfStep' = "pick"
      /\ walks' = [walks EXCEPT ![Len(walks)] = new] /\ firedEdges' = firedEdges \cup ToSet(edges)
  BY <1>1, <1>2 DEF FinishedWith, SetTop
<1>4. Leaving(edges, current, outcome)
  BY <1>1, NextEdges, EdgesFinite DEF Drawn
<1> HIDE DEF edges, new
<1>5. new.to = 0 /\ new.seen = walks[1].seen
  BY <1>1, <1>2, DecrementFields DEF new
<1>6. new \in WalkRecords(wf) => walks' \in Seq(WalkRecords(wf)) /\ Len(walks') = 1 /\ walks'[1] = new
  <2> SUFFICES ASSUME new \in WalkRecords(wf) PROVE walks' \in Seq(WalkRecords(wf)) /\ Len(walks') = 1 /\ walks'[1] = new
    OBVIOUS
  <2>1. walks' \in Seq(WalkRecords(wf)) /\ Len(walks') = Len(walks) /\ walks'[Len(walks)] = new
    BY <1>1, <1>3, LastReplaced
  <2> QED
    BY <2>1
<1>7. result' = [result EXCEPT ![current] = outcome]
  BY DEF FinishedWith
<1>8. result'[current] = outcome /\ \A m \in NodeIds(wf) \ {current} : result'[m] = result[m]
  BY <1>1, <1>7
<1>9. Outer(wf, new, result', 0, firedEdges \cup ToSet(edges))
  <2>1. outcome # "none"
    BY <1>3
  <2> QED
    BY <1>1, <1>2, <1>4, <1>8, <2>1, OuterFinishes DEF new
<1>10. WalkTyped(wf, new) /\ new \in WalkRecords(wf)
  BY <1>9, GoodWalkTyped DEF Outer, WalkTyped
<1>11. RunTypes' /\ OutsideTypes'
  <2>1. WalksTyped(wf, walks')
    BY <1>6, <1>10, TwoWalks
  <2> QED
    BY <2>1, FinishTypes
<1>12. Busy' = 0 /\ Unseen' = {}
  BY <1>1, <1>2, <1>6, <1>10 DEF Busy, Unseen
<1>13. Underway'
  <2>1. Counted(wf', started', (walks[1].seen)', looping', Unseen')
    BY <1>1, <1>2, <1>5, <1>6, <1>10, <1>12
  <2>2. (walks[1].to)' = 0 /\ Outer(wf', (walks[1])', result', Busy', firedEdges')
    BY <1>1, <1>3, <1>5, <1>6, <1>9, <1>10, <1>12
  <2>3. /\ Len(walks') = 1 /\ looping'.loop = 0 /\ wfStep' = "pick" /\ current' = 0 /\ wfStatus' = "none"
        /\ \A n \in NodeIds(wf') : result'[n] # "error"
    BY <1>1, <1>2, <1>3, <1>6, <1>8, <1>10
  <2> QED
    BY <2>1, <2>2, <2>3 DEF Underway
<1> QED
  BY <1>1, <1>3, <1>11, <1>13, GoesOn

\* FinishNode in a body, of its end or not.
LEMMA FinishInside ==
  ASSUME WfInv, LoopsApart(wf), FinishNode, NEW outcome, FinishedWith(outcome), outcome # "error", Len(walks) = 2
  PROVE  WfInv'
<1> DEFINE edges == next_nodes(current, outcome)
           l     == looping.loop
           new   == decrement(walks[2], edges)
<1>1. /\ wfStep = "busy" /\ current' = 0 /\ UNCHANGED <<wf, looping, started>>
      /\ Drawn /\ RunTypes /\ Underway /\ validate(wf) = {} /\ Top = walks[2]
      /\ walks # <<>> /\ walks \in Seq(WalkRecords(wf)) /\ walks[2] \in WalkRecords(wf) /\ 0 \notin NodeIds(wf)
      /\ current \in walks[2].seen \ LoopIds(wf) /\ current \in NodeIds(wf)
      /\ result \in [NodeIds(wf) -> {"none", "ok", "true", "false", "error"}]
      /\ \A n \in NodeIds(wf) : result[n] # "error"
  BY FinishEffects
<1>2. /\ l # 0 /\ l \in LoopIds(wf) \cap walks[1].seen /\ l \in NodeIds(wf) /\ Busy = l
      /\ Unseen = NodeIds(wf) \ walks[2].seen /\ walks[1].to = 0 /\ wfStatus = "none"
      /\ Outer(wf, walks[1], result, l, firedEdges) /\ Counted(wf, started, walks[1].seen, looping, Unseen)
      /\ Inner(wf, walks[2], l, result, current)
  <2>1. /\ l # 0 /\ l \in LoopIds(wf) \cap walks[1].seen /\ walks[1].to = 0 /\ wfStatus = "none"
        /\ Inner(wf, walks[2], l, result, current)
    BY <1>1 DEF Underway
  <2>2. Busy = l /\ Unseen = NodeIds(wf) \ walks[2].seen
    BY <2>1 DEF Busy, Unseen
  <2> QED
    BY <1>1, <2>1, <2>2 DEF Underway, LoopIds
<1>3. outcome \in {"ok", "true", "false"} /\ outcome # "none" /\ wfStatus' = "none"
  BY <1>2 DEF FinishedWith
<1>4. Leaving(edges, current, outcome)
  BY <1>1, NextEdges, EdgesFinite DEF Drawn
<1>5. current \in BodyIn(wf, l) /\ walks[2].to = node(wf, l).body_end
  BY <1>1, <1>2 DEF Inner, GoodWalk
<1>6. result[l] = "none"
  <2>1. l \notin Bodies(wf)
    BY <1>1, <1>2, BodiesApart DEF Drawn
  <2>2. ~(result[l] # "none")
    BY <1>2, <2>1 DEF Outer
  <2> QED
    BY <2>2
<1>7. result' = [result EXCEPT ![current] = outcome]
  BY DEF FinishedWith
<1>8. result'[current] = outcome /\ \A m \in NodeIds(wf) \ {current} : result'[m] = result[m]
  BY <1>1, <1>7
<1>9. \A n \in NodeIds(wf) : result'[n] # "error"
  BY <1>1, <1>3, <1>8
<1>10. started \in [NodeIds(wf) -> Nat] /\ looping.left \in Nat /\ WalkTyped(wf, walks[1])
  BY <1>1 DEF RunTypes, WalksTyped
<1> HIDE DEF edges, new, l
<1>11. CASE current = walks[2].to
  <2>1. wfStep' = "iterate" /\ walks' = Front(walks) /\ firedEdges' = firedEdges
    BY <1>1, <1>3, <1>11 DEF FinishedWith
  <2>2. walks' \in Seq(WalkRecords(wf)) /\ Len(walks') = 1 /\ walks'[1] = walks[1]
    <3>1. walks' \in Seq(WalkRecords(wf)) /\ Len(walks') = Len(walks) - 1 /\ \A k \in 1..(Len(walks) - 1) : walks'[k] = walks[k]
      <4>1. walks \in Seq(WalkRecords(wf)) /\ walks # <<>> /\ walks' = Front(walks)
        BY <1>1, <2>1
      <4> QED
        BY <4>1, WalkGone
    <3> QED
      BY <3>1
  <2>3. RunTypes' /\ OutsideTypes'
    <3>1. WalksTyped(wf, walks')
      BY <1>10, <2>2, TwoWalks
    <3> QED
      BY <3>1, FinishTypes
  <2>4. Outer(wf, walks[1], result', l, firedEdges)
    <3>1. \A e \in {} : wf.edges[e].to \in NodeIds(wf) => wf.edges[e].to \in BodyIn(wf, l)
      OBVIOUS
    <3>2. /\ result \in [NodeIds(wf) -> {"none", "ok", "true", "false", "error"}]
          /\ Drawn /\ l \in LoopIds(wf) /\ Outer(wf, walks[1], result, l, firedEdges)
      BY <1>1, <1>2
    <3>3. Outer(wf, walks[1], result', l, firedEdges \cup {})
      BY <1>5, <1>6, <1>8, <3>1, <3>2, OuterUnmoved
    <3>4. firedEdges \cup {} = firedEdges
      OBVIOUS
    <3> QED
      BY <3>3, <3>4
  <2>5. Busy' = l /\ Unseen' = {}
    BY <1>1, <1>2, <2>2 DEF Busy, Unseen, l
  <2>6. Counted(wf, started, walks[1].seen, looping, {})
    <3>1. \A k \in LoopIds(wf) : node(wf, k).max_iterations \in Nat
      BY <1>1, NodeIs DEF Drawn, LoopIds
    <3>2. \A k \in LoopIds(wf) : \A n \in BodyIn(wf, k) :
            /\ Due(wf, k, n, walks[1].seen, looping, Unseen) \in Nat /\ Due(wf, k, n, walks[1].seen, looping, {}) \in Nat
            /\ Due(wf, k, n, walks[1].seen, looping, {}) <= Due(wf, k, n, walks[1].seen, looping, Unseen)
      BY <1>10, <3>1 DEF Due
    <3> QED
      BY <1>1, <1>2, <1>10, <3>2, CountedLess
  <2>7. Underway'
    <3>1. Counted(wf', started', (walks[1].seen)', looping', Unseen')
      BY <1>1, <2>2, <2>5, <2>6
    <3>2. (walks[1].to)' = 0 /\ Outer(wf', (walks[1])', result', Busy', firedEdges')
      BY <1>1, <1>2, <2>1, <2>2, <2>4, <2>5
    <3>3. /\ Len(walks') = 1 /\ looping'.loop # 0 /\ looping'.loop \in LoopIds(wf') \cap (walks[1].seen)'
          /\ wfStep' = "iterate" /\ current' = 0 /\ wfStatus' = "none" /\ \A n \in NodeIds(wf') : result'[n] # "error"
      BY <1>1, <1>2, <1>3, <1>9, <2>1, <2>2 DEF l
    <3> QED
      BY <3>1, <3>2, <3>3 DEF Underway
  <2> QED
    BY <1>1, <2>1, <2>3, <2>7, GoesOn
<1>12. CASE current # walks[2].to
  <2>1. /\ wfStep' = "pick" /\ walks' = [walks EXCEPT ![Len(walks)] = new]
        /\ firedEdges' = firedEdges \cup ToSet(edges)
    BY <1>1, <1>3, <1>12 DEF FinishedWith, SetTop, new, edges
  <2>2. Inner(wf, new, l, result', 0) /\ new.seen = walks[2].seen
    <3>1. result'[current] # "none" /\ Leaving(edges, current, result'[current])
      BY <1>3, <1>4, <1>8
    <3>2. current \in walks[2].seen /\ l \in LoopIds(wf)
      BY <1>1, <1>2
    <3> QED
      BY <1>1, <1>2, <1>8, <3>1, <3>2, InnerFinishes DEF new
  <2>3. WalkTyped(wf, new) /\ new \in WalkRecords(wf)
    BY <2>2, GoodWalkTyped DEF Inner, WalkTyped
  <2>4. walks' \in Seq(WalkRecords(wf)) /\ Len(walks') = 2 /\ walks'[1] = walks[1] /\ walks'[2] = new
    <3>1. walks' \in Seq(WalkRecords(wf)) /\ Len(walks') = Len(walks) /\ walks'[Len(walks)] = new
          /\ \A k \in 1..Len(walks) : k # Len(walks) => walks'[k] = walks[k]
      BY <1>1, <2>1, <2>3, LastReplaced
    <3> QED
      BY <3>1
  <2>5. RunTypes' /\ OutsideTypes'
    <3>1. WalksTyped(wf, walks')
      BY <1>10, <2>3, <2>4, TwoWalks
    <3> QED
      BY <3>1, FinishTypes
  <2>6. Outer(wf, walks[1], result', l, firedEdges \cup ToSet(edges))
    <3>1. \A e \in ToSet(edges) : wf.edges[e].to \in NodeIds(wf) => wf.edges[e].to \in BodyIn(wf, l)
      <4> TAKE e \in ToSet(edges)
      <4>1. e \in DOMAIN wf.edges /\ wf.edges[e].from = current
        BY <1>4 DEF Leaving
      <4>2. wf.edges[e].from \in BodyIn(wf, l) \ {node(wf, l).body_end}
        BY <1>5, <1>12, <4>1
      <4>3. wf.edges[e].to \in BodyIn(wf, l)
        BY <1>1, <1>2, <4>1, <4>2, BodyFacts DEF Drawn
      <4> QED
        BY <4>3
    <3> DEFINE more == ToSet(edges)
    <3>2. \A e \in more : wf.edges[e].to \in NodeIds(wf) => wf.edges[e].to \in BodyIn(wf, l)
      BY <3>1
    <3> HIDE DEF more
    <3>3. /\ Drawn /\ l \in LoopIds(wf) /\ result[l] = "none" /\ current \in BodyIn(wf, l)
          /\ Outer(wf, walks[1], result, l, firedEdges)
          /\ result \in [NodeIds(wf) -> {"none", "ok", "true", "false", "error"}]
          /\ result'[current] = outcome /\ \A m \in NodeIds(wf) \ {current} : result'[m] = result[m]
      BY <1>1, <1>2, <1>5, <1>6, <1>8
    <3>4. Outer(wf, walks[1], result', l, firedEdges \cup more)
      BY <3>2, <3>3, OuterUnmoved
    <3> QED
      BY <3>4 DEF more
  <2>7. Busy' = l /\ Unseen' = Unseen
    BY <1>1, <1>2, <2>2, <2>4 DEF Busy, Unseen, l
  <2>8. Underway'
    <3>1. Counted(wf', started', (walks[1].seen)', looping', Unseen')
      BY <1>1, <1>2, <2>4, <2>7
    <3>2. (walks[1].to)' = 0 /\ Outer(wf', (walks[1])', result', Busy', firedEdges')
      BY <1>1, <1>2, <2>1, <2>4, <2>6, <2>7
    <3>3. /\ Len(walks') = 2 /\ looping'.loop # 0 /\ looping'.loop \in LoopIds(wf') \cap (walks[1].seen)'
          /\ wfStep' = "pick" /\ current' = 0 /\ wfStatus' = "none" /\ \A n \in NodeIds(wf') : result'[n] # "error"
      BY <1>1, <1>2, <1>3, <1>9, <2>1, <2>4 DEF l
    <3>4. Inner(wf', (walks[2])', looping'.loop, result', current')
      BY <1>1, <2>2, <2>4 DEF l
    <3> QED
      BY <3>1, <3>2, <3>3, <3>4 DEF Underway
  <2> QED
    BY <1>1, <2>1, <2>5, <2>8, GoesOn
<1> QED
  BY <1>11, <1>12

-------------------------------------------------------------------------------
(* The theorems                                                              *)

\* FinishNode.
LEMMA FinishKeeps == ASSUME WfInv, LoopsApart(wf), FinishNode PROVE WfInv'
<1>1. PICK outcome : FinishedWith(outcome)
  BY FinishEffects
<1>2. Len(walks) \in {1, 2}
  BY FinishEffects
<1>3. CASE outcome = "error"
  BY <1>1, <1>3, FinishFails
<1>4. CASE outcome # "error"
  BY <1>1, <1>2, <1>4, FinishOutside, FinishInside
<1> QED
  BY <1>3, <1>4

\* A step that changes nothing of the run.
LEMMA WfStutterKeeps == ASSUME WfInv, UNCHANGED wfVars PROVE WfInv'
<1>1. /\ UNCHANGED <<wf, walks, current, looping, result, started, firedEdges, wfStatus>> /\ wfStep' = wfStep
      /\ UNCHANGED <<wfTries, wfToken, wfCancelled, wfRow, writes>>
  BY DEF wfVars, runVars, tableVars
<1>2. wfTries' \in 0..HttpRetries /\ OutsideTypes'
  BY <1>1 DEF WfInv, RunTypes, OutsideTypes
<1> QED
  BY <1>1, <1>2, LeftAlone

\* A node in execution has what it reads: the invariant is enough for DependenciesDone.
LEMMA NothingMissing == ASSUME WfInv, LoopsApart(wf) PROVE DependenciesDone
<1> SUFFICES ASSUME wfStep = "busy", NEW f \in EdgeSet(wf), f.to = current, f.from \in DOMAIN Top.degree,
                    result[f.from] = "none"
             PROVE  \E n \in Loops : f.from \in Body(n) /\ result[n.id] # "none"
  BY DEF DependenciesDone
<1>1. /\ Drawn /\ Underway /\ Top = walks[Len(walks)] /\ Len(walks) \in {1, 2} /\ WfIds = NodeIds(wf) /\ 0 \notin NodeIds(wf)
      /\ current \in walks[Len(walks)].seen
  <2>1. wfStep \in {"pick", "busy", "iterate"}
    OBVIOUS
  <2>2. Underway /\ current \in walks[Len(walks)].seen
    BY DEF WfInv, Underway
  <2> QED
    BY <2>1, <2>2, UnderwayFacts
<1>2. PICK e \in DOMAIN wf.edges : wf.edges[e] = f
  BY DEF EdgeSet
<1>3. CASE Len(walks) = 1
  <2>1. Outer(wf, walks[1], result, Busy, firedEdges)
    BY <1>1 DEF Underway
  <2>2. GoodWalk(wf, walks[1], NodeIds(wf), EdgesFrom(wf, Done(wf, result), result))
    BY <2>1 DEF Outer
  <2>3. e \in EdgesTo(wf, current, NodeIds(wf))
    BY <1>1, <1>2, <1>3, <2>2 DEF EdgesTo, GoodWalk
  <2>4. wf.edges[e].from \in Done(wf, result)
    <3>1. wf \in Workflows /\ NodeIds(wf) \in SUBSET WfIds /\ current \in walks[1].seen
      BY <1>1, <1>3 DEF Drawn
    <3> QED
      BY <2>2, <2>3, <3>1, TakenIsReady
  <2>5. PICK l \in LoopIds(wf) : f.from = node(wf, l).body_end /\ result[l] # "none"
    BY <1>2, <2>4 DEF Done
  <2>6. node(wf, l) \in Loops /\ f.from \in Body(node(wf, l)) /\ node(wf, l).id = l
    BY <1>1, <2>5, NodeIs DEF Drawn, LoopIds, Loops, Body
  <2> QED
    BY <2>5, <2>6
<1>4. CASE Len(walks) = 2
  <2> DEFINE l == looping.loop
  <2>1. Inner(wf, walks[2], l, result, current) /\ l \in LoopIds(wf)
    BY <1>1, <1>4 DEF Underway
  <2> HIDE DEF l
  <2>2. GoodWalk(wf, walks[2], BodyIn(wf, l), EdgesFrom(wf, walks[2].seen \ {current}, result))
    BY <2>1 DEF Inner
  <2>3. e \in EdgesTo(wf, current, BodyIn(wf, l))
    BY <1>1, <1>2, <1>4, <2>2 DEF EdgesTo, GoodWalk
  <2>4. wf.edges[e].from \in walks[2].seen \ {current}
    <3>1. wf \in Workflows /\ BodyIn(wf, l) \in SUBSET WfIds /\ current \in walks[2].seen
      BY <1>1, <1>4, <2>1, BodyFacts DEF Drawn
    <3> QED
      BY <2>2, <2>3, <3>1, TakenIsReady
  <2> QED
    BY <1>2, <2>1, <2>4 DEF Inner
<1> QED
  BY <1>1, <1>3, <1>4

\* Every step of a run.
LEMMA StepKeeps == ASSUME LoopsApart(wf), WfInv, [WfNext]_wfVars PROVE WfInv'
<1>1. CASE WfCalled
  BY <1>1, CalledKeeps
<1>2. CASE SaveWfRun
  BY <1>2, SaveKeeps
<1>3. CASE TakeNode
  <2>1. wfStep = "pick"
    BY <1>3 DEF TakeNode
  <2>2. Len(walks) \in {1, 2}
    BY <2>1, UnderwayFacts
  <2> QED
    BY <1>3, <2>2, TakeOutside, TakeInside
<1>4. CASE WalkEnds
  BY <1>4, EndKeeps
<1>5. CASE FinishNode
  BY <1>5, FinishKeeps
<1>6. CASE Iterate
  BY <1>6, IterateKeeps
<1>7. CASE WfTimeout
  BY <1>7, TimeoutKeeps
<1>8. CASE RetryRequest \/ WriteProgress \/ Settle \/ RemoveToken \/ WfCancel
  BY <1>8, BesideTheRun
<1>9. CASE UNCHANGED wfVars
  BY <1>9, WfStutterKeeps
<1> QED
  BY <1>1, <1>2, <1>3, <1>4, <1>5, <1>6, <1>7, <1>8, <1>9 DEF WfNext, WfStep
-------------------------------------------------------------------------------
(* Any workflow, however its loops are drawn                                 *)

\* The nodes a loop walks, and those some loop does.
BodyOf(w, n) == reachable_between(w, n.body_start, n.body_end) \cup {n.body_start, n.body_end}
InBodies(w)  == UNION {BodyOf(w, n) : n \in {m \in ToSet(w.nodes) : m.type = "loop"}}

\* They are nodes, with what their edges lead to unless they are the end: validate has looked for both ends.
LEMMA BodyKnown ==
  ASSUME NEW w \in Workflows, validate(w) = {}, NEW l \in LoopIds(w)
  PROVE  /\ BodyOf(w, node(w, l)) \subseteq NodeIds(w) /\ BodyOf(w, node(w, l)) \subseteq InBodies(w)
         /\ node(w, l).body_end \in NodeIds(w)
         /\ \A e \in DOMAIN w.edges : w.edges[e].from \in BodyOf(w, node(w, l)) \ {node(w, l).body_end} =>
              w.edges[e].to \in BodyOf(w, node(w, l))
<1> DEFINE n     == node(w, l)
           from  == n.body_start
           to    == n.body_end
           E     == {e \in EdgeSet(w) : e.from # to}
           named == {from} \cup {e.to : e \in E}
           closed(S) == \A e \in E : e.from \in S => e.to \in S
           R     == {i \in named \cap NodeIds(w) : \A S \in SUBSET named : from \in S /\ closed(S) => i \in S}
<1>1. n \in ToSet(w.nodes) /\ n.type = "loop"
  BY NodeIs DEF LoopIds
<1>2. {from, to} \subseteq NodeIds(w)
  <2>1. w.nodes # <<>>
    BY DEF validate
  <2>2. UNION {loop_errors(w, m) : m \in {k \in ToSet(w.nodes) : k.type = "loop"}} = {}
    BY <2>1 DEF validate
  <2>3. loop_errors(w, n) = {}
    BY <1>1, <2>2
  <2> QED
    BY <2>3 DEF loop_errors
<1>3. reachable_between(w, from, to) = R
  BY DEF reachable_between, closure
<1>4. EdgesKnown(w)
  BY ValidEdges
<1>5. \A e \in E : e.to \in named /\ e.to \in NodeIds(w)
  BY <1>4 DEF EdgeSet, EdgesKnown
<1>6. from \in R /\ R \subseteq NodeIds(w)
  BY <1>2
<1>7. closed(R)
  <2> SUFFICES ASSUME NEW e \in E, e.from \in R PROVE e.to \in R
    OBVIOUS
  <2>1. \A S \in SUBSET named : from \in S /\ closed(S) => e.to \in S
    <3> TAKE S \in SUBSET named
    <3> HAVE from \in S /\ closed(S)
    <3>1. e.from \in S
      OBVIOUS
    <3> QED
      BY <3>1
  <2> QED
    BY <1>5, <2>1
<1>8. BodyOf(w, n) = R \cup {to}
  BY <1>3, <1>6 DEF BodyOf
<1>9. \A e \in DOMAIN w.edges : w.edges[e].from \in R \ {to} => w.edges[e].to \in R
  <2> TAKE e \in DOMAIN w.edges
  <2> HAVE w.edges[e].from \in R \ {to}
  <2>1. w.edges[e] \in E
    BY DEF EdgeSet
  <2> HIDE DEF R, E
  <2> QED
    BY <1>7, <2>1
<1>10. BodyOf(w, n) \subseteq InBodies(w)
  BY <1>1 DEF InBodies
<1> HIDE DEF R, E, n
<1> QED
  BY <1>2, <1>6, <1>8, <1>9, <1>10 DEF n

\* Leaving a set of edges out costs no more than those of them that are there.
LEMMA LeftOut ==
  ASSUME NEW T, NEW F, NEW X, IsFiniteSet(T)
  PROVE  /\ Cardinality(T \ F) \in Nat /\ Cardinality(T \cap X) \in Nat /\ Cardinality(T \ (F \cup X)) \in Nat
         /\ Cardinality(T \ F) <= Cardinality(T \ (F \cup X)) + Cardinality(T \cap X)
<1> DEFINE A == T \ (F \cup X)
           B == (T \cap X) \ F
<1>1. IsFiniteSet(A) /\ IsFiniteSet(B) /\ IsFiniteSet(T \cap X) /\ IsFiniteSet(T \ F)
  BY FS_Subset
<1>2. T \ F = A \cup B /\ A \cap B = {} /\ B \subseteq T \cap X
  OBVIOUS
<1>3. /\ Cardinality(A) \in Nat /\ Cardinality(B) \in Nat /\ Cardinality(T \cap X) \in Nat /\ Cardinality(T \ F) \in Nat
      /\ Cardinality(B) <= Cardinality(T \cap X)
  BY <1>1, <1>2, FS_Subset, FS_CardinalityType
<1> HIDE DEF A, B
<1>4. Cardinality(A \cup B) = Cardinality(A) + Cardinality(B) - Cardinality(A \cap B)
  BY <1>1, FS_Union
<1>5. Cardinality(A \cap B) = 0
  BY <1>2, FS_EmptySet
<1>6. Cardinality(T \ F) <= Cardinality(A) + Cardinality(T \cap X)
  <2>1. Cardinality(T \ F) = Cardinality(A) + Cardinality(B)
    <3>1. Cardinality(T \ F) = Cardinality(A \cup B)
      BY <1>2
    <3> QED
      BY <1>3, <1>4, <1>5, <3>1
  <2> QED
    BY <1>3, <2>1
<1>7. A = T \ (F \cup X)
  BY DEF A
<1> QED
  BY <1>3, <1>6, <1>7

\* The edges that lead to a node.
Into(w, n) == {e \in DOMAIN w.edges : w.edges[e].to = n}

\* The edges that fire count down what their targets owe and queue those that owe nothing any more, whatever the walk
\* has counted before.
LEMMA CountsDown ==
  ASSUME wf \in Workflows, NEW walk, WalkTyped(wf, walk), NEW edges \in Seq(DOMAIN wf.edges), Injective(edges),
         NEW new, new = decrement(walk, edges)
  PROVE  /\ WalkTyped(wf, new) /\ DOMAIN new.degree = DOMAIN walk.degree /\ new.seen = walk.seen /\ new.to = walk.to
         /\ \A n \in DOMAIN walk.degree :
              /\ walk.degree[n] \in Nat
              /\ new.degree[n] = IF Cardinality(Into(wf, n) \cap ToSet(edges)) < walk.degree[n]
                                 THEN walk.degree[n] - Cardinality(Into(wf, n) \cap ToSet(edges)) ELSE 0
              /\ n \in ToSet(walk.queue) => n \in ToSet(new.queue)
              /\ walk.degree[n] > 0 /\ new.degree[n] = 0 => n \in ToSet(new.queue)
<1> DEFINE ids == DOMAIN walk.degree
           count(n) == Cardinality({k \in DOMAIN edges : wf.edges[edges[k]].to = n})
           freed   == {n \in ids : walk.degree[n] <= count(n) /\ ~Contains(walk.queue, n)}
           targets == [k \in DOMAIN edges |-> wf.edges[edges[k]].to]
           degree  == [n \in ids |-> IF count(n) < walk.degree[n] THEN walk.degree[n] - count(n) ELSE 0]
           more    == Only(targets, freed)
           queue   == walk.queue \o more
<1>1. /\ walk \in WalkRecords(wf) /\ walk.degree \in [ids -> Nat] /\ ids \subseteq NodeIds(wf)
      /\ walk.queue \in Seq(ids) /\ walk.seen \subseteq ids /\ walk.to \in NodeIds(wf) \cup {0}
      /\ walk = [degree |-> walk.degree, seen |-> walk.seen, to |-> walk.to, queue |-> walk.queue]
  BY DEF WalkTyped, WalkRecords
<1>2. new = [walk EXCEPT !.degree = degree, !.queue = queue]
  BY DEF decrement
<1>3. new = [degree |-> degree, seen |-> walk.seen, to |-> walk.to, queue |-> queue]
  <2> HIDE DEF degree, queue
  <2> QED
    BY <1>1, <1>2
<1>4. \A n \in ids : count(n) = Cardinality(Into(wf, n) \cap ToSet(edges)) /\ count(n) \in Nat
  <2> TAKE n \in ids
  <2> DEFINE P == {e \in DOMAIN wf.edges : wf.edges[e].to = n}
  <2>1. ToSet(edges) \in SUBSET DOMAIN wf.edges
    BY DEF ToSet
  <2>2. IsFiniteSet(ToSet(edges)) /\ Cardinality(ToSet(edges) \cap P) \in Nat
    <3>1. ToSet(edges) \cap P \in SUBSET DOMAIN wf.edges
      BY <2>1
    <3> QED
      BY <2>1, <3>1, EdgesFinite
  <2>3. Cardinality({k \in DOMAIN edges : edges[k] \in P}) = Cardinality(ToSet(edges) \cap P)
    <3> HIDE DEF P
    <3> QED
      BY <2>2, PlacesCount
  <2>4. {k \in DOMAIN edges : edges[k] \in P} = {k \in DOMAIN edges : wf.edges[edges[k]].to = n}
    OBVIOUS
  <2>5. ToSet(edges) \cap P = P \cap ToSet(edges)
    OBVIOUS
  <2>6. count(n) = Cardinality(ToSet(edges) \cap P)
    BY <2>3, <2>4
  <2> HIDE DEF count, P
  <2>7. count(n) = Cardinality(P \cap ToSet(edges)) /\ count(n) \in Nat
    BY <2>2, <2>5, <2>6
  <2> QED
    BY <2>7 DEF P, Into
<1>5. degree \in [ids -> Nat]
  <2>1. \A n \in ids : walk.degree[n] \in Nat /\ count(n) \in Nat
    BY <1>1, <1>4
  <2> HIDE DEF count, ids
  <2> QED
    BY <2>1
<1>6. more \in Seq(ids) /\ ToSet(more) = ToSet(targets) \cap freed
  <2> DEFINE all == {wf.edges[e].to : e \in DOMAIN wf.edges}
  <2>1. targets \in Seq(all)
    OBVIOUS
  <2>2. freed \subseteq ids
    OBVIOUS
  <2> HIDE DEF targets, freed, all
  <2>3. more \in Seq(all) /\ ToSet(more) = ToSet(targets) \cap freed
    BY <2>1, OnlyKeeps
  <2> HIDE DEF more
  <2>4. \A k \in DOMAIN more : more[k] \in ids
    BY <2>2, <2>3 DEF ToSet
  <2> QED
    BY <2>3, <2>4
<1>7. queue \in Seq(ids) /\ ToSet(queue) = ToSet(walk.queue) \cup (ToSet(targets) \cap freed)
  <2> DEFINE q == walk.queue
             t == ToSet(targets) \cap freed
  <2>1. q \in Seq(ids) /\ more \in Seq(ids) /\ ToSet(more) = t
    BY <1>1, <1>6
  <2> HIDE DEF more, q, t, ids
  <2>2. q \o more \in Seq(ids) /\ Len(q \o more) = Len(q) + Len(more) /\ Len(q) \in Nat /\ Len(more) \in Nat
    BY <2>1
  <2>3. \A k \in 1..Len(q \o more) :
          (k \in 1..Len(q) /\ (q \o more)[k] = q[k]) \/ (k - Len(q) \in 1..Len(more) /\ (q \o more)[k] = more[k - Len(q)])
    BY <2>1, <2>2
  <2>4. \A k \in 1..Len(q) : k \in 1..Len(q \o more) /\ (q \o more)[k] = q[k]
    BY <2>1, <2>2
  <2>5. \A k \in 1..Len(more) : k + Len(q) \in 1..Len(q \o more) /\ (q \o more)[k + Len(q)] = more[k]
    BY <2>1, <2>2
  <2>6. DOMAIN q = 1..Len(q) /\ DOMAIN more = 1..Len(more) /\ DOMAIN (q \o more) = 1..Len(q \o more)
    BY <2>1, <2>2
  <2>7. ToSet(q \o more) \subseteq ToSet(q) \cup ToSet(more)
    BY <2>3, <2>6 DEF ToSet
  <2>8. ToSet(q) \subseteq ToSet(q \o more) /\ ToSet(more) \subseteq ToSet(q \o more)
    BY <2>4, <2>5, <2>6 DEF ToSet
  <2> QED
    BY <2>1, <2>2, <2>7, <2>8 DEF q, t
<1>8. \A n \in ids : n \in ToSet(targets) \/ count(n) = 0
  <2> SUFFICES ASSUME NEW n \in ids, n \notin ToSet(targets) PROVE count(n) = 0
    OBVIOUS
  <2>1. {k \in DOMAIN edges : wf.edges[edges[k]].to = n} = {}
    BY DEF ToSet
  <2> QED
    BY <2>1, FS_EmptySet DEF count
<1>9. \A n \in ids : Contains(walk.queue, n) <=> n \in ToSet(walk.queue)
  BY <1>1 DEF Contains, ToSet
<1>10. \A n \in ids : /\ n \in ToSet(walk.queue) => n \in ToSet(queue)
                      /\ walk.degree[n] > 0 /\ degree[n] = 0 => n \in ToSet(queue)
  <2> TAKE n \in ids
  <2>1. /\ degree[n] = (IF count(n) < walk.degree[n] THEN walk.degree[n] - count(n) ELSE 0)
        /\ walk.degree[n] \in Nat /\ count(n) \in Nat
    BY <1>1, <1>4
  <2>2. n \in freed <=> walk.degree[n] <= count(n) /\ n \notin ToSet(walk.queue)
    BY <1>9
  <2>3. n \in ToSet(queue) <=> n \in ToSet(walk.queue) \/ (n \in ToSet(targets) /\ n \in freed)
    BY <1>7
  <2>4. n \in ToSet(targets) \/ count(n) = 0
    BY <1>8
  <2> HIDE DEF degree, freed, queue, targets, count
  <2> QED
    BY <2>1, <2>2, <2>3, <2>4
<1>11. WalkTyped(wf, new)
  <2>1. degree \in UNION {[s -> Nat] : s \in SUBSET NodeIds(wf)}
    BY <1>1, <1>5
  <2>2. queue \in Seq(NodeIds(wf)) /\ DOMAIN degree = ids /\ queue \in Seq(ids)
    BY <1>1, <1>7
  <2> HIDE DEF degree, queue
  <2>3. walk.seen \in SUBSET NodeIds(wf)
    BY <1>1
  <2> QED
    BY <1>1, <1>3, <2>1, <2>2, <2>3 DEF WalkRecords, WalkTyped
<1>12. \A n \in ids :
         /\ walk.degree[n] \in Nat
         /\ degree[n] = IF Cardinality(Into(wf, n) \cap ToSet(edges)) < walk.degree[n]
                        THEN walk.degree[n] - Cardinality(Into(wf, n) \cap ToSet(edges)) ELSE 0
  BY <1>1, <1>4
<1>13. new.degree = degree /\ new.queue = queue /\ new.seen = walk.seen /\ new.to = walk.to /\ DOMAIN degree = ids
  BY <1>3, <1>5
<1> HIDE DEF degree, queue, ids
<1> QED
  BY <1>10, <1>11, <1>12, <1>13 DEF ids

\* The walk of the whole graph: what is neither taken nor queued has edges to wait for, and outside of the bodies of
\* loops at most those that have not fired; what was taken has its result, unless it is in execution, and outside of
\* the bodies what was not was never executed.
Walked(w, walk, came, busy, fired, times) ==
  /\ walk.to = 0 /\ DOMAIN walk.degree = NodeIds(w)
  /\ \A n \in NodeIds(w) : walk.degree[n] = 0 => n \in walk.seen \cup ToSet(walk.queue)
  /\ \A n \in walk.seen : came[n] # "none" \/ n = busy
  /\ \A n \in NodeIds(w) \ InBodies(w) :
       /\ walk.degree[n] <= Cardinality(EdgesTo(w, n, NodeIds(w)) \ fired)
       /\ times[n] <= 1 /\ (n \notin walk.seen => times[n] = 0)

\* The run under way.
Goes ==
  /\ Len(walks) \in {1, 2} /\ wfStatus = "none" /\ \A n \in NodeIds(wf) : result[n] # "error"
  /\ wfStep = "busy" <=> current # 0
  /\ current # 0 => current \in walks[Len(walks)].seen
  /\ looping.loop # 0 <=> (wfStep = "iterate" \/ Len(walks) = 2)
  /\ wfStep = "iterate" => Len(walks) = 1
  /\ looping.loop # 0 => looping.loop \in LoopIds(wf)
  /\ Len(walks) = 2 => /\ walks[2].to = node(wf, looping.loop).body_end
                       /\ DOMAIN walks[2].degree = BodyOf(wf, node(wf, looping.loop))
  /\ Walked(wf, walks[1], result, Busy, firedEdges, started)
  /\ \A n \in NodeIds(wf) : started[n] > 0 /\ result[n] = "none" => n = current

\* The row does not tell the end yet.
RowOpen == wfRow.status \in {"none", "running"}

\* What holds in every state, whatever the workflow.
AnyInv ==
  /\ RunTypes /\ OutsideTypes
  /\ wfStep \in {"called", "refused", "save"} => BeforeRun
  /\ wfStep \notin {"called", "refused"} => validate(wf) = {}
  /\ wfStep \in {"pick", "busy", "iterate"} => Goes
  /\ \A n \in NodeIds(wf) \ InBodies(wf) : started[n] <= 1
  /\ FailureIsLast /\ CompletedRanReady /\ ResultsRecorded
  /\ RowOpen \/ wfStep \in {"untoken", "ended"}

\* InBodies is InLoop.
LEMMA LoopsWalk == InLoop = InBodies(wf)
BY DEF InLoop, Loops, Body, BodyOf, InBodies

\* Nothing has happened: AnyInv as it is then.
LEMMA AnyNothing ==
  ASSUME RunTypes', OutsideTypes', BeforeRun', wfStep' \in {"called", "refused", "save"},
         wfStep' = "save" => validate(wf') = {}, RowOpen'
  PROVE  AnyInv'
<1>1. FailureIsLast' /\ CompletedRanReady' /\ ResultsRecorded'
  BY DEF FailureIsLast, CompletedRanReady, ResultsRecorded, BeforeRun, RowOpen, WfIds
<1>2. \A n \in NodeIds(wf') \ InBodies(wf') : started'[n] <= 1
  BY DEF BeforeRun
<1> QED
  BY <1>1, <1>2 DEF AnyInv

\* The run goes on.
LEMMA AnyGoesOn ==
  ASSUME wf' = wf, RunTypes', OutsideTypes', Goes', wfStep' \in {"pick", "busy", "iterate"}, validate(wf) = {}, RowOpen'
  PROVE  AnyInv'
<1>1. FailureIsLast' /\ CompletedRanReady'
  BY DEF FailureIsLast, CompletedRanReady, Goes, WfIds
<1>2. ResultsRecorded'
  <2>1. {n \in WfIds' : started'[n] > 0 /\ result'[n] = "none"} \subseteq {current'}
    BY DEF Goes, WfIds
  <2> QED
    BY <2>1 DEF ResultsRecorded, RowOpen
<1>3. \A n \in NodeIds(wf') \ InBodies(wf') : started'[n] <= 1
  BY DEF Goes, Walked
<1> QED
  BY <1>1, <1>2, <1>3 DEF AnyInv

\* The run is broken off: nothing was executed for that, and nothing has failed.
LEMMA AnyBrokenOff ==
  ASSUME AnyInv, Goes, validate(wf) = {}, UNCHANGED <<wf, result, started>>, RowOpen', RunTypes', OutsideTypes',
         wfStep' = "settle", wfStatus' \in {"failed", "cancelled", "timed_out"}, current' = current \/ wfStatus' = "timed_out"
  PROVE  AnyInv'
<1>1. FailureIsLast' /\ CompletedRanReady'
  BY DEF FailureIsLast, CompletedRanReady, Goes, WfIds
<1>2. ResultsRecorded'
  <2> DEFINE open == {n \in WfIds : started[n] > 0 /\ result[n] = "none"}
  <2>1. open \subseteq {current}
    BY DEF Goes, WfIds
  <2>2. open' = open
    BY DEF WfIds
  <2> HIDE DEF open
  <2>3. open = {} \/ open = {current}
    BY <2>1
  <2>4. open' \subseteq {current'} \/ (wfStatus' = "timed_out" /\ \E n \in open' : open' = {n})
    BY <2>2, <2>3
  <2> QED
    BY <2>4 DEF ResultsRecorded, RowOpen, open
<1>3. \A n \in NodeIds(wf') \ InBodies(wf') : started'[n] <= 1
  BY DEF AnyInv
<1> QED
  BY <1>1, <1>2, <1>3 DEF AnyInv

\* What happens beside the run leaves it as it is.
LEMMA AnyLeftAlone ==
  ASSUME AnyInv, UNCHANGED <<wf, walks, current, looping, result, started, firedEdges, wfStatus>>, wfTries' \in 0..HttpRetries,
         OutsideTypes',
         wfStep' = wfStep \/ (wfStep \in {"settle", "untoken"} /\ wfStep' \in {"untoken", "ended"}),
         \/ RowOpen'
         \/ wfStep' \in {"untoken", "ended"} /\ wfRow' = wfRow
         \/ /\ wfStep' \in {"untoken", "ended"}
            /\ wfRow' = [status |-> wfStatus, nodes |-> {n \in WfIds : result[n] # "none"}]
  PROVE  AnyInv'
<1>1. RunTypes'
  BY DEF AnyInv, RunTypes
<1>2. \A n \in NodeIds(wf') \ InBodies(wf') : started'[n] <= 1
  BY DEF AnyInv
<1>3. FailureIsLast' /\ CompletedRanReady'
  BY DEF AnyInv, FailureIsLast, CompletedRanReady, WfIds, InLoop, Loops, Body
<1>4. ResultsRecorded'
  <2> DEFINE open == {n \in WfIds : started[n] > 0 /\ result[n] = "none"}
             end  == [status |-> wfStatus, nodes |-> {n \in WfIds : result[n] # "none"}]
  <2>1. /\ open \subseteq {current} \/ (wfStatus = "timed_out" /\ \E n \in open : open = {n})
        /\ wfRow.status \notin {"none", "running"} => wfRow = end
    BY DEF AnyInv, ResultsRecorded
  <2>2. open' = open /\ end' = end /\ current' = current /\ wfStatus' = wfStatus
    BY DEF WfIds
  <2>3. wfRow'.status \notin {"none", "running"} => wfRow' = end'
    <3>1. CASE RowOpen'
      BY <3>1 DEF RowOpen
    <3>2. CASE wfRow' = wfRow
      BY <2>1, <2>2, <3>2
    <3>3. CASE wfRow' = end
      BY <2>2, <3>3
    <3> QED
      BY <3>1, <3>2, <3>3
  <2>4. open' \subseteq {current'} \/ (wfStatus' = "timed_out" /\ \E n \in open' : open' = {n})
    <3> HIDE DEF open
    <3> QED
      BY <2>1, <2>2
  <2> QED
    BY <2>3, <2>4 DEF ResultsRecorded
<1>5. RowOpen' \/ wfStep' \in {"untoken", "ended"}
  OBVIOUS
<1>6. CASE wfStep' = wfStep
  <2>1. Busy' = Busy
    BY DEF Busy
  <2>2. Goes => Goes'
    BY <1>6, <2>1 DEF Goes
  <2>3. BeforeRun => BeforeRun'
    BY DEF BeforeRun, NoLoop
  <2> QED
    BY <1>1, <1>2, <1>3, <1>4, <1>5, <1>6, <2>2, <2>3 DEF AnyInv
<1>7. CASE wfStep \in {"settle", "untoken"} /\ wfStep' \in {"untoken", "ended"}
  BY <1>1, <1>2, <1>3, <1>4, <1>5, <1>7 DEF AnyInv
<1> QED
  BY <1>6, <1>7

\* WfInit.
LEMMA AnyInit == ASSUME WfInit PROVE AnyInv
<1>1. RunTypes /\ OutsideTypes /\ BeforeRun /\ wfStep = "called"
  <2>1. WfInv
    BY InitKeeps
  <2>2. wfStep = "called"
    BY DEF WfInit
  <2> QED
    BY <2>1, <2>2 DEF WfInv
<1>2. RowOpen
  BY DEF WfInit, RowOpen
<1>3. FailureIsLast /\ CompletedRanReady /\ ResultsRecorded
  BY <1>1, <1>2 DEF FailureIsLast, CompletedRanReady, ResultsRecorded, BeforeRun, RowOpen, WfIds
<1>4. \A n \in NodeIds(wf) \ InBodies(wf) : started[n] <= 1
  BY <1>1 DEF BeforeRun
<1> QED
  BY <1>1, <1>2, <1>3, <1>4 DEF AnyInv

\* WfCalled.
LEMMA AnyCalled == ASSUME AnyInv, WfCalled PROVE AnyInv'
<1>1. /\ wfStep = "called" /\ wfStep' \in {"save", "refused"} /\ (wfStep' = "save" => validate(wf) = {})
      /\ wfToken' \in {TRUE, wfToken}
      /\ UNCHANGED <<wf, walks, current, wfTries, looping, result, started, firedEdges, wfStatus, wfCancelled, wfRow, writes>>
  BY DEF WfCalled, runVars, tableVars
<1>2. RunTypes' /\ OutsideTypes'
  BY <1>1 DEF AnyInv, RunTypes, OutsideTypes
<1>3. BeforeRun' /\ RowOpen'
  BY <1>1 DEF AnyInv, BeforeRun, NoLoop, RowOpen
<1> QED
  BY <1>1, <1>2, <1>3, AnyNothing

\* RetryRequest, WriteProgress, Settle, RemoveToken and WfCancel.
LEMMA AnyBeside ==
  ASSUME AnyInv, RetryRequest \/ WriteProgress \/ Settle \/ RemoveToken \/ WfCancel
  PROVE  AnyInv'
<1>1. /\ UNCHANGED <<wf, walks, current, looping, result, started, firedEdges, wfStatus>>
      /\ wfStep' = wfStep \/ (wfStep \in {"settle", "untoken"} /\ wfStep' \in {"untoken", "ended"})
  BY DEF RetryRequest, WriteProgress, Settle, RemoveToken, WfCancel, runVars, tableVars
<1>2. wfTries' \in 0..HttpRetries
  <2>1. wfTries \in 0..HttpRetries /\ HttpRetries \in Nat
    BY WorkflowAssumption DEF AnyInv, RunTypes
  <2> QED
    BY <2>1 DEF RetryRequest, WriteProgress, Settle, RemoveToken, WfCancel, runVars, tableVars
<1> DEFINE end == [status |-> wfStatus, nodes |-> {n \in WfIds : result[n] # "none"}]
<1>3. end.nodes \in SUBSET NodeIds(wf) /\ OutsideTypes /\ (RowOpen \/ wfStep \in {"untoken", "ended"})
  BY DEF AnyInv, WfIds
<1>4. /\ OutsideTypes'
      /\ \/ RowOpen'
         \/ wfStep' \in {"untoken", "ended"} /\ wfRow' = wfRow
         \/ wfStep' \in {"untoken", "ended"} /\ wfRow' = end
  <2>1. CASE RetryRequest
    BY <1>1, <1>3, <2>1 DEF RetryRequest, tableVars, OutsideTypes, RowOpen
  <2>2. CASE WriteProgress
    <3>1. PICK snapshot \in writes : /\ writes' = writes \ {snapshot}
                                     /\ wfRow' \in {wfRow, [status |-> "running", nodes |-> snapshot]}
      BY <2>2 DEF WriteProgress
    <3>2. UNCHANGED <<wf, wfStep, wfToken, wfCancelled, wfStatus>>
      BY <2>2 DEF WriteProgress
    <3> QED
      BY <1>3, <3>1, <3>2 DEF OutsideTypes, RowOpen
  <2>3. CASE Settle
    <3>1. wfRow' \in {wfRow, end} /\ wfStep' = "untoken" /\ UNCHANGED <<wf, wfToken, wfCancelled, wfStatus, writes>>
      BY <2>3 DEF Settle
    <3>2. end \in [status : {"none", "running", "completed", "failed", "cancelled", "timed_out"}, nodes : SUBSET NodeIds(wf)]
      BY <1>3 DEF OutsideTypes
    <3> HIDE DEF end
    <3> QED
      BY <1>3, <3>1, <3>2 DEF OutsideTypes, RowOpen
  <2>4. CASE RemoveToken
    BY <1>1, <1>3, <2>4 DEF RemoveToken, tableVars, OutsideTypes, RowOpen
  <2>5. CASE WfCancel
    BY <1>1, <1>3, <2>5 DEF WfCancel, tableVars, OutsideTypes, RowOpen
  <2> QED
    BY <2>1, <2>2, <2>3, <2>4, <2>5
<1> QED
  BY <1>1, <1>2, <1>4, AnyLeftAlone

\* A step that changes nothing of the run.
LEMMA AnyStutter == ASSUME AnyInv, UNCHANGED wfVars PROVE AnyInv'
<1>1. /\ UNCHANGED <<wf, walks, current, looping, result, started, firedEdges, wfStatus>> /\ wfStep' = wfStep
      /\ UNCHANGED <<wfTries, wfToken, wfCancelled, wfRow, writes>>
  BY DEF wfVars, runVars, tableVars
<1>2. wfTries' \in 0..HttpRetries /\ OutsideTypes' /\ (RowOpen' \/ wfStep' \in {"untoken", "ended"})
  BY <1>1 DEF AnyInv, RunTypes, OutsideTypes, RowOpen
<1> QED
  BY <1>1, <1>2, AnyLeftAlone

\* What holds of the run under way, in the words of the lemmas.
LEMMA AnyFacts ==
  ASSUME AnyInv, wfStep \in {"pick", "busy", "iterate"}
  PROVE  /\ wf \in Workflows /\ RunTypes /\ OutsideTypes /\ Goes /\ RowOpen /\ validate(wf) = {} /\ EdgesKnown(wf)
         /\ Len(walks) \in {1, 2} /\ walks # <<>> /\ DOMAIN walks = 1..Len(walks)
         /\ walks \in Seq(WalkRecords(wf)) /\ walks[1] \in WalkRecords(wf) /\ walks[Len(walks)] \in WalkRecords(wf)
         /\ \A k \in 1..Len(walks) : WalkTyped(wf, walks[k])
         /\ Top = walks[Len(walks)] /\ WfIds = NodeIds(wf) /\ 0 \notin NodeIds(wf)
         /\ current \in NodeIds(wf) \cup {0} /\ looping.left \in Nat
<1>1. RunTypes /\ OutsideTypes /\ Goes /\ RowOpen /\ validate(wf) = {}
  BY DEF AnyInv
<1>2. /\ wf \in Workflows /\ Len(walks) \in {1, 2} /\ walks \in Seq(WalkRecords(wf)) /\ looping.left \in Nat
      /\ \A k \in 1..Len(walks) : WalkTyped(wf, walks[k])
      /\ current \in NodeIds(wf) \cup {0}
  BY <1>1 DEF Goes, RunTypes, WalksTyped
<1>3. Top = walks[Len(walks)] /\ WfIds = NodeIds(wf) /\ 0 \notin NodeIds(wf)
  BY <1>2, EdgesFinite DEF Top, WfIds
<1>4. EdgesKnown(wf)
  BY <1>1, ValidEdges
<1>5. /\ walks # <<>> /\ DOMAIN walks = 1..Len(walks)
      /\ walks[1] \in WalkRecords(wf) /\ walks[Len(walks)] \in WalkRecords(wf)
  BY <1>2
<1> QED
  BY <1>1, <1>2, <1>3, <1>4, <1>5

\* SaveWfRun: the walk of the whole graph begins, with all edges to wait for.
LEMMA AnySave == ASSUME AnyInv, SaveWfRun PROVE AnyInv'
<1>1. /\ wfStep = "save" /\ wfRow' \in {wfRow, [wfRow EXCEPT !.status = "running"]}
      /\ UNCHANGED <<wf, current, wfTries, looping, vars, result, started, firedEdges, wfStatus, wfToken, wfCancelled, writes>>
  BY DEF SaveWfRun
<1>2. RunTypes /\ OutsideTypes /\ BeforeRun /\ validate(wf) = {} /\ RowOpen /\ wf \in Workflows
  BY <1>1 DEF AnyInv, RunTypes
<1>3. OutsideTypes' /\ RowOpen'
  BY <1>1, <1>2 DEF OutsideTypes, RowOpen
<1>4. CASE wfStep' = "refused" /\ UNCHANGED walks
  <2>1. RunTypes'
    BY <1>1, <1>2, <1>4 DEF RunTypes
  <2>2. BeforeRun'
    BY <1>1, <1>2, <1>4 DEF BeforeRun, NoLoop
  <2> QED
    BY <1>3, <1>4, <2>1, <2>2, AnyNothing
<1>5. CASE wfStep' = "pick" /\ walks' = <<Walk(WfIds, 0)>>
  <2> DEFINE walk == Walk(WfIds, 0)
  <2>1. GoodWalk(wf, walk, WfIds, {}) /\ walk.to = 0 /\ walk.seen = {} /\ WfIds = NodeIds(wf)
    BY <1>2, WalkBegins DEF WfIds
  <2>2. WalkTyped(wf, walk) /\ walk \in WalkRecords(wf)
    BY <2>1, GoodWalkTyped DEF WalkTyped
  <2> HIDE DEF walk
  <2>3. walks' = <<walk>> /\ walks' \in Seq(WalkRecords(wf)) /\ Len(walks') = 1 /\ walks'[1] = walk
    BY <1>5, <2>2 DEF walk
  <2>4. RunTypes'
    <3>1. WalksTyped(wf, walks')
      BY <2>2, <2>3 DEF WalksTyped
    <3> QED
      BY <1>1, <1>2, <1>5, <3>1 DEF RunTypes
  <2>5. Walked(wf, walk, result, 0, {}, started)
    <3>1. /\ walk.degree \in [NodeIds(wf) -> Nat]
          /\ \A n \in NodeIds(wf) : walk.degree[n] = 0 => n \in walk.seen \cup ToSet(walk.queue)
      BY <2>1 DEF GoodWalk
    <3>2. ASSUME NEW n \in NodeIds(wf) PROVE walk.degree[n] <= Cardinality(EdgesTo(wf, n, NodeIds(wf)) \ {})
      <4> DEFINE T == EdgesTo(wf, n, NodeIds(wf))
      <4>1. walk.degree[n] + Cardinality(T \cap {}) = Cardinality(T)
        BY <2>1 DEF GoodWalk
      <4> HIDE DEF T
      <4>2. T \cap {} = {} /\ T \ {} = T
        OBVIOUS
      <4>3. Cardinality(T \cap {}) = 0
        BY <4>2, FS_EmptySet
      <4>4. walk.degree[n] \in Nat /\ walk.degree[n] + 0 = Cardinality(T)
        BY <3>1, <4>1, <4>3
      <4>5. walk.degree[n] <= Cardinality(T)
        BY <4>4
      <4>6. Cardinality(T \ {}) = Cardinality(T)
        BY <4>2
      <4> QED
        BY <4>5, <4>6 DEF T
    <3>3. \A n \in NodeIds(wf) : started[n] = 0
      BY <1>2 DEF BeforeRun
    <3> QED
      BY <2>1, <3>1, <3>2, <3>3 DEF Walked
  <2>6. /\ current' = 0 /\ looping' = NoLoop /\ wfStatus' = "none" /\ firedEdges' = {} /\ Busy' = 0
        /\ result' = result /\ started' = started
        /\ looping'.loop = 0 /\ \A n \in NodeIds(wf) : result'[n] = "none" /\ started'[n] = 0
    BY <1>1, <1>2 DEF BeforeRun, Busy, NoLoop
  <2>7. Walked(wf', (walks[1])', result', Busy', firedEdges', started')
    BY <1>1, <2>3, <2>5, <2>6
  <2>8. Goes'
    BY <1>1, <1>5, <2>3, <2>6, <2>7 DEF Goes
  <2> QED
    BY <1>1, <1>2, <1>3, <1>5, <2>4, <2>8, AnyGoesOn
<1> QED
  BY <1>1, <1>4, <1>5 DEF SaveWfRun

\* WfTimeout.
LEMMA AnyTimeout == ASSUME AnyInv, WfTimeout PROVE AnyInv'
<1>1. /\ wfStep = "busy" /\ wfStep' = "settle" /\ wfStatus' = "timed_out" /\ current' = 0
      /\ UNCHANGED <<wf, walks, wfTries, looping, result, started, wfToken, wfCancelled, wfRow, writes>>
  BY DEF WfTimeout, Ends, tableVars
<1>2. Goes /\ validate(wf) = {} /\ RowOpen'
  BY <1>1, AnyFacts DEF RowOpen
<1>3. RunTypes' /\ OutsideTypes'
  BY <1>1 DEF AnyInv, RunTypes, OutsideTypes
<1> QED
  BY <1>1, <1>2, <1>3, AnyBrokenOff

\* WalkEnds: of the whole graph, where nothing waits any more whose edges have all fired, or of the body.
LEMMA AnyEnd == ASSUME AnyInv, WalkEnds PROVE AnyInv'
<1>1. /\ wfStep = "pick" /\ Top.queue = <<>>
      /\ UNCHANGED <<wf, current, wfTries, looping, result, started, firedEdges, wfToken, wfCancelled, wfRow, writes>>
      /\ IF Len(walks) = 1 THEN wfStep' = "settle" /\ wfStatus' = "completed" /\ walks' = walks
         ELSE wfStep' = "iterate" /\ walks' = Front(walks) /\ wfStatus' = wfStatus
  BY DEF WalkEnds, Ends, tableVars
<1>2. /\ wf \in Workflows /\ RunTypes /\ OutsideTypes /\ Goes /\ RowOpen /\ validate(wf) = {}
      /\ Len(walks) \in {1, 2} /\ walks # <<>> /\ walks \in Seq(WalkRecords(wf)) /\ Top = walks[Len(walks)]
      /\ WfIds = NodeIds(wf)
  BY <1>1, AnyFacts
<1>3. current = 0 /\ RowOpen'
  BY <1>1, <1>2 DEF Goes, RowOpen
<1>4. CASE Len(walks) = 1
  <2>1. RunTypes' /\ OutsideTypes'
    BY <1>1, <1>2, <1>4 DEF RunTypes, OutsideTypes
  <2>2. Walked(wf, walks[1], result, 0, firedEdges, started) /\ walks[1].queue = <<>>
    BY <1>1, <1>2, <1>3, <1>4 DEF Goes, Busy
  <2>3. CompletedRanReady'
    <3> SUFFICES ASSUME NEW n \in NodeIds(wf), result[n] = "none", n \notin InBodies(wf),
                        \A e \in DOMAIN wf.edges : wf.edges[e].to = n => e \in firedEdges
                 PROVE  FALSE
      BY <1>1, LoopsWalk DEF CompletedRanReady, WfIds, InLoop, Loops, Body
    <3> DEFINE T == EdgesTo(wf, n, NodeIds(wf)) \ firedEdges
    <3>1. T = {}
      BY DEF EdgesTo
    <3>2. Cardinality(T) = 0
      BY <3>1, FS_EmptySet
    <3>3. walks[1].degree[n] <= Cardinality(T)
      BY <2>2 DEF Walked
    <3>4. walks[1].degree[n] \in Nat
      <4>1. walks[1] \in WalkRecords(wf)
        BY <1>1, AnyFacts
      <4>2. DOMAIN walks[1].degree = NodeIds(wf)
        BY <2>2 DEF Walked
      <4> QED
        BY <4>1, <4>2 DEF WalkRecords
    <3>5. walks[1].degree[n] = 0
      BY <3>2, <3>3, <3>4
    <3>6. ToSet(walks[1].queue) = {}
      BY <2>2 DEF ToSet
    <3>7. n \in walks[1].seen
      BY <2>2, <3>5, <3>6 DEF Walked
    <3>8. 0 \notin NodeIds(wf)
      BY <1>2, EdgesFinite
    <3> QED
      BY <2>2, <3>7, <3>8 DEF Walked
  <2>4. FailureIsLast'
    BY <1>1, <1>2 DEF FailureIsLast, Goes, WfIds
  <2>5. ResultsRecorded'
    BY <1>1, <1>2, <1>3 DEF ResultsRecorded, Goes, WfIds, RowOpen
  <2>6. \A n \in NodeIds(wf') \ InBodies(wf') : started'[n] <= 1
    BY <1>1 DEF AnyInv
  <2> QED
    BY <1>1, <1>2, <1>3, <1>4, <2>1, <2>3, <2>4, <2>5, <2>6 DEF AnyInv
<1>5. CASE Len(walks) = 2
  <2>1. /\ walks' \in Seq(WalkRecords(wf)) /\ Len(walks') = 1 /\ walks'[1] = walks[1]
        /\ wfStep' = "iterate" /\ wfStatus' = wfStatus
    <3>1. walks' = Front(walks) /\ wfStep' = "iterate" /\ wfStatus' = wfStatus
      BY <1>1, <1>5
    <3> QED
      BY <1>2, <1>5, <3>1, WalkGone
  <2>2. RunTypes' /\ OutsideTypes'
    <3>1. WalksTyped(wf, walks')
      BY <1>2, <2>1 DEF RunTypes, WalksTyped
    <3> QED
      BY <1>1, <1>2, <2>1, <3>1 DEF RunTypes, OutsideTypes
  <2>3. Busy' = Busy
    BY <1>1 DEF Busy
  <2>4. Walked(wf', (walks[1])', result', Busy', firedEdges', started')
    BY <1>1, <1>2, <2>1, <2>3 DEF Goes
  <2>5. Goes'
    BY <1>1, <1>2, <1>3, <1>5, <2>1, <2>4 DEF Goes
  <2> QED
    BY <1>1, <1>2, <1>3, <2>1, <2>2, <2>5, AnyGoesOn
<1> QED
  BY <1>2, <1>4, <1>5

\* The head of a queue and its tail are what is in it.
LEMMA HeadQueued ==
  ASSUME NEW S, NEW q \in Seq(S), q # <<>>
  PROVE  Head(q) \in S /\ Tail(q) \in Seq(S) /\ {Head(q)} \cup ToSet(Tail(q)) = ToSet(q)
<1> DEFINE h == Head(q)
<1>1. Len(q) \in Nat /\ DOMAIN q = 1..Len(q) /\ h = q[1] /\ h \in S /\ Tail(q) \in Seq(S)
  OBVIOUS
<1>2. Len(Tail(q)) = Len(q) - 1 /\ DOMAIN Tail(q) = 1..(Len(q) - 1) /\ \A k \in 1..(Len(q) - 1) : Tail(q)[k] = q[k + 1]
  BY <1>1
<1>3. \A k \in 1..Len(q) : k = 1 \/ (k - 1 \in 1..(Len(q) - 1) /\ (k - 1) + 1 = k)
  BY <1>1
<1>4. \A k \in 1..(Len(q) - 1) : k + 1 \in 1..Len(q)
  BY <1>1
<1>5. 1 \in 1..Len(q)
  BY <1>1
<1> DEFINE t == Tail(q)
<1> HIDE DEF h, t
<1>6. ToSet(q) \subseteq {h} \cup ToSet(t)
  <2> SUFFICES ASSUME NEW k \in 1..Len(q) PROVE q[k] \in {h} \cup ToSet(t)
    BY <1>1 DEF ToSet
  <2>1. CASE k = 1
    BY <1>1, <2>1
  <2>2. CASE k # 1
    <3>1. k - 1 \in 1..(Len(q) - 1) /\ (k - 1) + 1 = k
      BY <1>3, <2>2
    <3>2. Tail(q)[k - 1] = q[k] /\ k - 1 \in DOMAIN Tail(q)
      BY <1>2, <3>1
    <3> QED
      BY <3>2 DEF ToSet, t
  <2> QED
    BY <2>1, <2>2
<1>7. {h} \cup ToSet(t) \subseteq ToSet(q)
  BY <1>1, <1>2, <1>4, <1>5 DEF ToSet, t
<1> QED
  BY <1>1, <1>6, <1>7 DEF h, t

\* A typed walk whose head was taken is one.
LEMMA TakenTyped ==
  ASSUME NEW w, NEW walk, WalkTyped(w, walk), walk.queue # <<>>, NEW h, h = Head(walk.queue)
  PROVE  /\ WalkTyped(w, Taken(walk)) /\ h \in DOMAIN walk.degree /\ h \in NodeIds(w)
         /\ Taken(walk).degree = walk.degree /\ Taken(walk).to = walk.to /\ Taken(walk).seen = walk.seen \cup {h}
         /\ Taken(walk).seen \cup ToSet(Taken(walk).queue) = walk.seen \cup ToSet(walk.queue)
<1> DEFINE new == Taken(walk)
<1>1. /\ walk \in WalkRecords(w) /\ walk.seen \subseteq DOMAIN walk.degree /\ walk.queue \in Seq(DOMAIN walk.degree)
      /\ DOMAIN walk.degree \subseteq NodeIds(w)
  BY DEF WalkTyped, WalkRecords
<1>2. h \in DOMAIN walk.degree /\ Tail(walk.queue) \in Seq(DOMAIN walk.degree) /\ {h} \cup ToSet(Tail(walk.queue)) = ToSet(walk.queue)
  BY <1>1, HeadQueued
<1>3. /\ new.degree = walk.degree /\ new.to = walk.to /\ new.queue = Tail(walk.queue)
      /\ new.seen = walk.seen \cup {h}
      /\ new = [degree |-> new.degree, seen |-> new.seen, to |-> new.to, queue |-> new.queue]
  BY <1>1, TakenFields
<1> HIDE DEF new
<1>4. new.seen \in SUBSET NodeIds(w) /\ new.queue \in Seq(NodeIds(w))
  <2>1. walk.seen \in SUBSET NodeIds(w)
    BY <1>1 DEF WalkRecords
  <2> QED
    BY <1>1, <1>2, <1>3, <2>1
<1>5. new \in WalkRecords(w)
  BY <1>1, <1>3, <1>4 DEF WalkRecords
<1>6. WalkTyped(w, new)
  BY <1>1, <1>2, <1>3, <1>5 DEF WalkTyped
<1>7. new.seen \cup ToSet(new.queue) = walk.seen \cup ToSet(walk.queue)
  BY <1>2, <1>3
<1> QED
  BY <1>1, <1>2, <1>3, <1>6, <1>7 DEF new

\* The walk of the whole graph when a node of it has come to something: its edges that fire have counted down.
LEMMA WalkedCounts ==
  ASSUME wf \in Workflows, EdgesKnown(wf), NEW walk, WalkTyped(wf, walk), NEW edges \in Seq(DOMAIN wf.edges), Injective(edges),
         NEW came, NEW busy, NEW fired, NEW times, Walked(wf, walk, came, busy, fired, times),
         NEW then, NEW next, \A n \in walk.seen : then[n] # "none" \/ n = next
  PROVE  /\ WalkTyped(wf, decrement(walk, edges))
         /\ Walked(wf, decrement(walk, edges), then, next, fired \cup ToSet(edges), times)
<1> DEFINE new == decrement(walk, edges)
<1>1. /\ WalkTyped(wf, new) /\ DOMAIN new.degree = DOMAIN walk.degree /\ new.seen = walk.seen /\ new.to = walk.to
      /\ \A n \in DOMAIN walk.degree :
           /\ walk.degree[n] \in Nat
           /\ new.degree[n] = IF Cardinality(Into(wf, n) \cap ToSet(edges)) < walk.degree[n]
                              THEN walk.degree[n] - Cardinality(Into(wf, n) \cap ToSet(edges)) ELSE 0
           /\ n \in ToSet(walk.queue) => n \in ToSet(new.queue)
           /\ walk.degree[n] > 0 /\ new.degree[n] = 0 => n \in ToSet(new.queue)
  BY CountsDown
<1>2. DOMAIN walk.degree = NodeIds(wf) /\ walk.to = 0
  BY DEF Walked
<1> HIDE DEF new
<1>3. ASSUME NEW n \in NodeIds(wf), new.degree[n] = 0 PROVE n \in new.seen \cup ToSet(new.queue)
  <2>1. CASE walk.degree[n] = 0
    BY <1>1, <1>2, <2>1 DEF Walked
  <2>2. CASE walk.degree[n] # 0
    <3>1. walk.degree[n] \in Nat /\ (walk.degree[n] > 0 /\ new.degree[n] = 0 => n \in ToSet(new.queue))
      BY <1>1, <1>2
    <3>2. walk.degree[n] > 0
      BY <2>2, <3>1
    <3> QED
      BY <1>3, <3>1, <3>2
  <2> QED
    BY <2>1, <2>2
<1>4. ASSUME NEW n \in NodeIds(wf) \ InBodies(wf)
      PROVE  new.degree[n] <= Cardinality(EdgesTo(wf, n, NodeIds(wf)) \ (fired \cup ToSet(edges)))
  <2> DEFINE T == EdgesTo(wf, n, NodeIds(wf))
             X == ToSet(edges)
             c == Cardinality(T \cap X)
             a == Cardinality(T \ fired)
             b == Cardinality(T \ (fired \cup X))
             d == walk.degree[n]
  <2>1. Into(wf, n) = T
    BY DEF Into, EdgesTo, EdgesKnown
  <2>2. IsFiniteSet(T)
    BY EdgesFinite
  <2>3. d <= a
    BY DEF Walked
  <2>4. d \in Nat /\ new.degree[n] = IF c < d THEN d - c ELSE 0
    BY <1>1, <1>2, <2>1
  <2> HIDE DEF T, X, d
  <2>5. a \in Nat /\ b \in Nat /\ c \in Nat /\ a <= b + c
    BY <2>2, LeftOut
  <2> HIDE DEF a, b, c
  <2>6. new.degree[n] <= b
    BY <2>3, <2>4, <2>5
  <2> QED
    BY <2>6 DEF b, T, X
<1>5. Walked(wf, new, then, next, fired \cup ToSet(edges), times)
  BY <1>1, <1>2, <1>3, <1>4 DEF Walked
<1> QED
  BY <1>1, <1>5 DEF new

\* And meanwhile, as nodes in bodies are executed and edges within them fire.
LEMMA WalkedMeanwhile ==
  ASSUME NEW w, NEW walk, NEW came, NEW busy, NEW fired, NEW times, Walked(w, walk, came, busy, fired, times),
         NEW then, NEW more, NEW counts,
         \A n \in walk.seen : came[n] # "none" => then[n] # "none",
         \A n \in NodeIds(w) \ InBodies(w) :
           EdgesTo(w, n, NodeIds(w)) \ more = EdgesTo(w, n, NodeIds(w)) \ fired /\ counts[n] = times[n]
  PROVE  Walked(w, walk, then, busy, more, counts)
BY DEF Walked

\* And when a node was taken.
LEMMA WalkedTakes ==
  ASSUME NEW w, NEW walk, NEW came, NEW fired, NEW times, Walked(w, walk, came, 0, fired, times), NEW h, NEW new, NEW counts,
         0 \notin walk.seen, new.degree = walk.degree, new.to = walk.to, new.seen = walk.seen \cup {h},
         new.seen \cup ToSet(new.queue) = walk.seen \cup ToSet(walk.queue),
         \A n \in NodeIds(w) \ InBodies(w) : counts[n] <= 1 /\ (n \notin new.seen => counts[n] = 0)
  PROVE  Walked(w, new, came, h, fired, counts)
<1>1. \A n \in NodeIds(w) : new.degree[n] = 0 => n \in new.seen \cup ToSet(new.queue)
  BY DEF Walked
<1>2. \A n \in new.seen : came[n] # "none" \/ n = h
  BY DEF Walked
<1>3. \A n \in NodeIds(w) \ InBodies(w) : new.degree[n] <= Cardinality(EdgesTo(w, n, NodeIds(w)) \ fired)
  BY DEF Walked
<1>4. new.to = 0 /\ DOMAIN new.degree = NodeIds(w)
  BY DEF Walked
<1> QED
  BY <1>1, <1>2, <1>3, <1>4 DEF Walked

\* TakeNode, in the walk of the whole graph.
LEMMA AnyTakesOutside == ASSUME AnyInv, TakeNode, Len(walks) = 1 PROVE AnyInv'
<1> DEFINE top == walks[1]
           h   == Head(top.queue)
           new == Taken(top)
<1>1. /\ wfStep = "pick" /\ top.queue # <<>> /\ TakenTo(h, node(wf, h), top.seen)
      /\ walks' = [walks EXCEPT ![Len(walks)] = new]
      /\ UNCHANGED <<wf, wfTries, vars, result, firedEdges, wfToken, wfCancelled, wfRow, writes>>
  BY HeadTaken
<1>2. /\ wf \in Workflows /\ RunTypes /\ OutsideTypes /\ Goes /\ RowOpen /\ validate(wf) = {}
      /\ walks # <<>> /\ walks \in Seq(WalkRecords(wf)) /\ WalkTyped(wf, top)
      /\ WfIds = NodeIds(wf) /\ 0 \notin NodeIds(wf) /\ looping.left \in Nat
  <2>1. 1 \in 1..Len(walks)
    OBVIOUS
  <2> QED
    BY <1>1, <2>1, AnyFacts
<1>3. /\ current = 0 /\ looping.loop = 0 /\ Busy = 0 /\ Walked(wf, top, result, 0, firedEdges, started) /\ wfStatus = "none"
      /\ \A n \in NodeIds(wf) : result[n] # "error" /\ ~(started[n] > 0 /\ result[n] = "none")
  BY <1>1, <1>2 DEF Goes, Busy
<1>4. /\ WalkTyped(wf, new) /\ h \in NodeIds(wf) /\ h # 0
      /\ new.degree = top.degree /\ new.to = top.to /\ new.seen = top.seen \cup {h}
      /\ new.seen \cup ToSet(new.queue) = top.seen \cup ToSet(top.queue)
  <2> HIDE DEF top
  <2> QED
    BY <1>1, <1>2, TakenTyped
<1> HIDE DEF new, h
<1>5. walks' \in Seq(WalkRecords(wf)) /\ Len(walks') = 1 /\ walks'[1] = new
  <2>1. new \in WalkRecords(wf)
    BY <1>4 DEF WalkTyped
  <2> QED
    BY <1>1, <1>2, <2>1, LastReplaced
<1> HIDE DEF top
<1>6. WalksTyped(wf, walks') /\ RowOpen'
  BY <1>1, <1>2, <1>4, <1>5, TwoWalks DEF RowOpen
<1>7. started \in [NodeIds(wf) -> Nat] /\ 0 \notin top.seen
  BY <1>2 DEF RunTypes, WalkTyped, WalkRecords
<1>8. CASE h \in top.seen /\ UNCHANGED <<wfStep, wfStatus, current, looping, started>>
  <2>1. RunTypes' /\ OutsideTypes'
    BY <1>1, <1>2, <1>6, <1>8 DEF RunTypes, OutsideTypes
  <2>2. Walked(wf, new, result, 0, firedEdges, started) /\ Busy' = 0
    BY <1>3, <1>4, <1>8 DEF Walked, Busy
  <2>3. Goes'
    BY <1>1, <1>3, <1>5, <1>8, <2>2 DEF Goes
  <2> QED
    BY <1>1, <1>2, <1>6, <1>8, <2>1, <2>3, AnyGoesOn
<1>9. CASE wfStep' = "settle" /\ wfStatus' \in {"cancelled", "failed"} /\ UNCHANGED <<current, looping, started>>
  <2>1. RunTypes' /\ OutsideTypes'
    BY <1>1, <1>2, <1>6, <1>9 DEF RunTypes, OutsideTypes
  <2> QED
    BY <1>1, <1>2, <1>6, <1>9, <2>1, AnyBrokenOff
<1>10. CASE /\ h \notin top.seen /\ node(wf, h).type # "loop" /\ wfStep' = "busy" /\ current' = h
            /\ started' = [started EXCEPT ![h] = @ + 1] /\ UNCHANGED <<wfStatus, looping>>
  <2>1. /\ started' \in [NodeIds(wf) -> Nat] /\ started'[h] = started[h] + 1
        /\ \A m \in NodeIds(wf) : m # h => started'[m] = started[m]
    BY <1>4, <1>7, <1>10
  <2>2. RunTypes' /\ OutsideTypes'
    BY <1>1, <1>2, <1>4, <1>6, <1>10, <2>1 DEF RunTypes, OutsideTypes
  <2>3. Walked(wf, new, result, h, firedEdges, started')
    <3>1. ASSUME NEW n \in NodeIds(wf) \ InBodies(wf) PROVE started'[n] <= 1 /\ (n \notin new.seen => started'[n] = 0)
      <4>1. started[n] <= 1 /\ (n \notin top.seen => started[n] = 0)
        BY <1>3 DEF Walked
      <4>2. CASE n = h
        BY <1>4, <1>10, <2>1, <4>1, <4>2
      <4>3. CASE n # h
        BY <1>4, <2>1, <4>1, <4>3
      <4> QED
        BY <4>2, <4>3
    <3> QED
      BY <1>3, <1>4, <1>7, <3>1, WalkedTakes
  <2>4. Busy' = h
    BY <1>3, <1>10 DEF Busy
  <2>5. \A n \in NodeIds(wf) : started'[n] > 0 /\ result'[n] = "none" => n = h
    BY <1>1, <1>3, <2>1
  <2>6. Goes'
    BY <1>1, <1>3, <1>4, <1>5, <1>10, <2>3, <2>4, <2>5 DEF Goes
  <2> QED
    BY <1>1, <1>2, <1>6, <1>10, <2>2, <2>6, AnyGoesOn
<1>11. CASE /\ h \notin top.seen /\ node(wf, h).type = "loop" /\ wfStep' = "iterate" /\ UNCHANGED <<wfStatus, current, started>>
            /\ \E items \in 0..MaxItems : looping' = [loop |-> h, left |-> iterations(node(wf, h), items)]
  <2>1. looping' \in [loop : NodeIds(wf) \cup {0}, left : Nat] /\ looping'.loop = h /\ h \in LoopIds(wf)
    <3>1. PICK items \in 0..MaxItems : looping' = [loop |-> h, left |-> iterations(node(wf, h), items)]
      BY <1>11
    <3>2. items \in Nat /\ node(wf, h).max_iterations \in Nat
      BY <1>2, <1>4, WorkflowAssumption, NodeIs
    <3>3. iterations(node(wf, h), items) \in Nat
      BY <3>2 DEF iterations
    <3> QED
      BY <1>4, <1>11, <3>1, <3>3 DEF LoopIds
  <2>2. RunTypes' /\ OutsideTypes'
    BY <1>1, <1>2, <1>6, <1>11, <2>1 DEF RunTypes, OutsideTypes
  <2>3. Walked(wf, new, result, h, firedEdges, started) /\ Busy' = h
    <3>1. \A n \in NodeIds(wf) \ InBodies(wf) : started[n] <= 1 /\ (n \notin new.seen => started[n] = 0)
      BY <1>3, <1>4 DEF Walked
    <3>2. Busy' = h
      BY <1>4, <2>1 DEF Busy
    <3> QED
      BY <1>3, <1>4, <1>7, <3>1, <3>2, WalkedTakes
  <2>4. Goes'
    BY <1>1, <1>3, <1>4, <1>5, <1>11, <2>1, <2>3 DEF Goes
  <2> QED
    BY <1>1, <1>2, <1>6, <1>11, <2>2, <2>4, AnyGoesOn
<1> QED
  BY <1>1, <1>8, <1>9, <1>10, <1>11 DEF TakenTo

\* The walk of the body is replaced.
LEMMA InnerReplaced ==
  ASSUME walks \in Seq(WalkRecords(wf)), walks # <<>>, Len(walks) = 2, NEW new \in WalkRecords(wf),
         walks' = [walks EXCEPT ![Len(walks)] = new]
  PROVE  walks' \in Seq(WalkRecords(wf)) /\ Len(walks') = 2 /\ walks'[2] = new /\ walks'[1] = walks[1]
<1> DEFINE S == WalkRecords(wf)
           t == walks'
<1>1. t = [walks EXCEPT ![Len(walks)] = new] /\ walks \in Seq(S) /\ new \in S
  OBVIOUS
<1> HIDE DEF S, t
<1>2. /\ t \in Seq(S) /\ Len(t) = Len(walks) /\ t[Len(walks)] = new
      /\ \A k \in 1..Len(walks) : k # Len(walks) => t[k] = walks[k]
  BY <1>1, LastReplaced
<1>3. 1 \in 1..Len(walks) /\ 1 # Len(walks)
  OBVIOUS
<1> QED
  BY <1>2, <1>3 DEF S, t

\* TakeNode, in the walk of a body.
LEMMA AnyTakesInside == ASSUME AnyInv, TakeNode, Len(walks) = 2 PROVE AnyInv'
<1> DEFINE top == walks[2]
           h   == Head(top.queue)
           new == Taken(top)
           l   == looping.loop
<1>1. /\ wfStep = "pick" /\ top.queue # <<>> /\ TakenTo(h, node(wf, h), top.seen)
      /\ walks' = [walks EXCEPT ![Len(walks)] = new]
      /\ UNCHANGED <<wf, wfTries, vars, result, firedEdges, wfToken, wfCancelled, wfRow, writes>>
  BY HeadTaken
<1>2. /\ wf \in Workflows /\ RunTypes /\ OutsideTypes /\ Goes /\ RowOpen /\ validate(wf) = {}
      /\ walks # <<>> /\ walks \in Seq(WalkRecords(wf)) /\ WalkTyped(wf, top) /\ WalkTyped(wf, walks[1])
      /\ WfIds = NodeIds(wf) /\ 0 \notin NodeIds(wf)
  <2>1. 1 \in 1..Len(walks) /\ 2 \in 1..Len(walks)
    OBVIOUS
  <2> QED
    BY <1>1, <2>1, AnyFacts
<1>3. /\ current = 0 /\ l # 0 /\ l \in LoopIds(wf) /\ Busy = l /\ Walked(wf, walks[1], result, l, firedEdges, started)
      /\ wfStatus = "none" /\ top.to = node(wf, l).body_end /\ DOMAIN top.degree = BodyOf(wf, node(wf, l))
      /\ \A n \in NodeIds(wf) : result[n] # "error" /\ ~(started[n] > 0 /\ result[n] = "none")
  BY <1>1, <1>2 DEF Goes, Busy
<1>4. /\ WalkTyped(wf, new) /\ h \in NodeIds(wf) /\ h # 0 /\ h \in DOMAIN top.degree
      /\ new.degree = top.degree /\ new.to = top.to /\ new.seen = top.seen \cup {h}
  <2> HIDE DEF top
  <2> QED
    BY <1>1, <1>2, TakenTyped
<1>5. h \in InBodies(wf)
  BY <1>2, <1>3, <1>4, BodyKnown
<1> HIDE DEF new, h
<1>6. walks' \in Seq(WalkRecords(wf)) /\ Len(walks') = 2 /\ walks'[2] = new /\ walks'[1] = walks[1]
  <2>1. new \in WalkRecords(wf)
    BY <1>4 DEF WalkTyped
  <2> QED
    BY <1>1, <1>2, <2>1, InnerReplaced
<1> HIDE DEF top, l
<1>7. WalksTyped(wf, walks') /\ RowOpen'
  BY <1>1, <1>2, <1>4, <1>6, TwoWalks DEF RowOpen
<1>8. started \in [NodeIds(wf) -> Nat]
  BY <1>2 DEF RunTypes
<1>9. CASE h \in top.seen /\ UNCHANGED <<wfStep, wfStatus, current, looping, started>>
  <2>1. RunTypes' /\ OutsideTypes'
    BY <1>1, <1>2, <1>7, <1>9 DEF RunTypes, OutsideTypes
  <2>2. Busy' = l
    BY <1>3, <1>9 DEF Busy, l
  <2>3. Goes'
    BY <1>1, <1>3, <1>4, <1>6, <1>9, <2>2 DEF Goes, l
  <2> QED
    BY <1>1, <1>2, <1>7, <1>9, <2>1, <2>3, AnyGoesOn
<1>10. CASE wfStep' = "settle" /\ wfStatus' \in {"cancelled", "failed"} /\ UNCHANGED <<current, looping, started>>
  <2>1. RunTypes' /\ OutsideTypes'
    BY <1>1, <1>2, <1>7, <1>10 DEF RunTypes, OutsideTypes
  <2> QED
    BY <1>1, <1>2, <1>7, <1>10, <2>1, AnyBrokenOff
<1>11. CASE /\ h \notin top.seen /\ wfStep' = "busy" /\ current' = h
            /\ started' = [started EXCEPT ![h] = @ + 1] /\ UNCHANGED <<wfStatus, looping>>
  <2>1. /\ started' \in [NodeIds(wf) -> Nat] /\ started'[h] = started[h] + 1
        /\ \A m \in NodeIds(wf) : m # h => started'[m] = started[m]
    BY <1>4, <1>8, <1>11
  <2>2. RunTypes' /\ OutsideTypes'
    BY <1>1, <1>2, <1>4, <1>7, <1>11, <2>1 DEF RunTypes, OutsideTypes
  <2>3. Walked(wf, walks[1], result, l, firedEdges, started')
    BY <1>3, <1>5, <2>1, WalkedMeanwhile
  <2>4. Busy' = l
    BY <1>3, <1>11 DEF Busy, l
  <2>5. \A n \in NodeIds(wf) : started'[n] > 0 /\ result'[n] = "none" => n = h
    BY <1>1, <1>3, <2>1
  <2>6. Goes'
    BY <1>1, <1>3, <1>4, <1>6, <1>11, <2>3, <2>4, <2>5 DEF Goes, l
  <2> QED
    BY <1>1, <1>2, <1>7, <1>11, <2>2, <2>6, AnyGoesOn
<1> QED
  BY <1>1, <1>9, <1>10, <1>11 DEF TakenTo
\* What FinishNode finds and what it leaves.
LEMMA AnyFinishes ==
  ASSUME AnyInv, FinishNode
  PROVE  /\ wfStep = "busy" /\ current' = 0 /\ UNCHANGED <<wf, looping, started, wfToken, wfCancelled, wfRow>>
         /\ \E outcome : FinishedWith(outcome)
         /\ wf \in Workflows /\ RunTypes /\ OutsideTypes /\ Goes /\ RowOpen' /\ validate(wf) = {} /\ EdgesKnown(wf)
         /\ wf.edges \in Seq(EdgeSet(wf))
         /\ Len(walks) \in {1, 2} /\ walks # <<>> /\ walks \in Seq(WalkRecords(wf))
         /\ WalkTyped(wf, walks[1]) /\ (Len(walks) = 2 => WalkTyped(wf, walks[2]))
         /\ Top = walks[Len(walks)] /\ WfIds = NodeIds(wf) /\ 0 \notin NodeIds(wf)
         /\ current \in NodeIds(wf) /\ current # 0 /\ wfStatus = "none"
         /\ result \in [NodeIds(wf) -> {"none", "ok", "true", "false", "error"}]
         /\ \A n \in NodeIds(wf) : result[n] # "error" /\ (started[n] > 0 /\ result[n] = "none" => n = current)
<1>1. wfStep = "busy" /\ current' = 0 /\ UNCHANGED <<wf, looping, started, wfToken, wfCancelled, wfRow>>
  BY DEF FinishNode
<1>2. \E outcome : FinishedWith(outcome)
  BY FinishComesTo
<1>3. /\ wf \in Workflows /\ RunTypes /\ OutsideTypes /\ Goes /\ RowOpen /\ validate(wf) = {} /\ EdgesKnown(wf)
      /\ Len(walks) \in {1, 2} /\ walks # <<>> /\ walks \in Seq(WalkRecords(wf))
      /\ \A k \in 1..Len(walks) : WalkTyped(wf, walks[k])
      /\ Top = walks[Len(walks)] /\ WfIds = NodeIds(wf) /\ 0 \notin NodeIds(wf) /\ current \in NodeIds(wf) \cup {0}
  BY <1>1, AnyFacts
<1>4. WalkTyped(wf, walks[1]) /\ (Len(walks) = 2 => WalkTyped(wf, walks[2]))
  <2>1. 1 \in 1..Len(walks) /\ (Len(walks) = 2 => 2 \in 1..Len(walks))
    BY <1>3
  <2> QED
    BY <1>3, <2>1
<1>5. /\ current # 0 /\ wfStatus = "none"
      /\ \A n \in NodeIds(wf) : result[n] # "error" /\ (started[n] > 0 /\ result[n] = "none" => n = current)
  BY <1>1, <1>3 DEF Goes
<1>6. wf.edges \in Seq(EdgeSet(wf))
  BY <1>3, EdgesFinite
<1>7. RowOpen' /\ result \in [NodeIds(wf) -> {"none", "ok", "true", "false", "error"}]
  BY <1>1, <1>3 DEF RowOpen, RunTypes
<1> QED
  BY <1>1, <1>2, <1>3, <1>4, <1>5, <1>6, <1>7

\* FinishNode of a node that fails: it is the last one, and what was executed has its result.
LEMMA AnyFinishFails == ASSUME AnyInv, FinishNode, FinishedWith("error") PROVE AnyInv'
<1>1. wfStep' = "settle" /\ wfStatus' = "failed" /\ UNCHANGED <<walks, firedEdges>>
  BY DEF FinishedWith
<1>2. /\ RunTypes /\ OutsideTypes /\ validate(wf) = {} /\ UNCHANGED <<wf, started>> /\ RowOpen' /\ current' = 0
      /\ current \in NodeIds(wf) /\ WfIds = NodeIds(wf)
      /\ \A n \in NodeIds(wf) : result[n] # "error" /\ (started[n] > 0 /\ result[n] = "none" => n = current)
  BY AnyFinishes
<1>3. WalksTyped(wf, walks')
  BY <1>1, <1>2 DEF RunTypes
<1>4. /\ RunTypes' /\ OutsideTypes' /\ result'[current] = "error"
      /\ \A m \in NodeIds(wf) \ {current} : result'[m] = result[m]
  BY <1>2, <1>3, FinishKeepsTypes
<1>5. FailureIsLast' /\ CompletedRanReady'
  <2>1. \A n \in NodeIds(wf) : result'[n] = "error" => n = current
    BY <1>2, <1>4
  <2> QED
    BY <1>1, <1>2, <2>1 DEF FailureIsLast, CompletedRanReady, WfIds
<1>6. ResultsRecorded'
  <2>1. \A n \in NodeIds(wf) : ~(started'[n] > 0 /\ result'[n] = "none")
    BY <1>2, <1>4
  <2> QED
    BY <1>1, <1>2, <2>1 DEF ResultsRecorded, WfIds, RowOpen
<1>7. \A n \in NodeIds(wf') \ InBodies(wf') : started'[n] <= 1
  BY <1>2 DEF AnyInv
<1> QED
  BY <1>1, <1>2, <1>4, <1>5, <1>6, <1>7 DEF AnyInv

\* FinishNode in the walk of the whole graph: its edges that fire are counted.
LEMMA AnyFinishOutside ==
  ASSUME AnyInv, FinishNode, NEW outcome, FinishedWith(outcome), outcome # "error", Len(walks) = 1
  PROVE  AnyInv'
<1> DEFINE edges == next_nodes(current, outcome)
           new   == decrement(walks[1], edges)
<1>1. /\ wfStep = "busy" /\ current' = 0 /\ UNCHANGED <<wf, looping, started>>
      /\ wf \in Workflows /\ RunTypes /\ OutsideTypes /\ Goes /\ RowOpen' /\ validate(wf) = {} /\ EdgesKnown(wf)
      /\ wf.edges \in Seq(EdgeSet(wf)) /\ walks # <<>> /\ walks \in Seq(WalkRecords(wf)) /\ WalkTyped(wf, walks[1])
      /\ Top = walks[1] /\ WfIds = NodeIds(wf) /\ 0 \notin NodeIds(wf) /\ current \in NodeIds(wf) /\ wfStatus = "none"
      /\ \A n \in NodeIds(wf) : result[n] # "error" /\ (started[n] > 0 /\ result[n] = "none" => n = current)
  BY AnyFinishes
<1>2. looping.loop = 0 /\ Busy = current /\ walks[1].to = 0 /\ Walked(wf, walks[1], result, current, firedEdges, started)
  <2>1. looping.loop = 0
    BY <1>1 DEF Goes
  <2>2. Busy = current
    BY <2>1 DEF Busy
  <2> QED
    BY <1>1, <2>1, <2>2 DEF Goes, Walked
<1>3. Leaving(edges, current, outcome)
  BY <1>1, NextEdges
<1>4. /\ outcome \in {"ok", "true", "false"} /\ wfStatus' = "none" /\ wfStep' = "pick"
      /\ walks' = [walks EXCEPT ![Len(walks)] = new] /\ firedEdges' = firedEdges \cup ToSet(edges)
      /\ result' = [result EXCEPT ![current] = outcome]
  BY <1>1, <1>2 DEF FinishedWith, SetTop
<1> HIDE DEF edges, new
<1>5. result'[current] = outcome /\ \A m \in NodeIds(wf) \ {current} : result'[m] = result[m]
  BY <1>1, <1>4 DEF RunTypes
<1>6. WalkTyped(wf, new) /\ Walked(wf, new, result', 0, firedEdges', started')
  <2>1. edges \in Seq(DOMAIN wf.edges) /\ Injective(edges)
    BY <1>3 DEF Leaving
  <2>2. \A n \in walks[1].seen : result'[n] # "none" \/ n = 0
    <3>1. walks[1].seen \subseteq NodeIds(wf) /\ \A n \in walks[1].seen : result[n] # "none" \/ n = current
      BY <1>1, <1>2 DEF Walked, WalkTyped, WalkRecords
    <3> QED
      BY <1>4, <1>5, <3>1
  <2> DEFINE walk == walks[1]
             then == result'
  <2>3. wf \in Workflows /\ EdgesKnown(wf) /\ WalkTyped(wf, walk) /\ Walked(wf, walk, result, current, firedEdges, started)
    BY <1>1, <1>2
  <2>4. (\A n \in walk.seen : then[n] # "none" \/ n = 0) /\ new = decrement(walk, edges)
    BY <2>2 DEF new
  <2> HIDE DEF walk, then
  <2>5. WalkTyped(wf, new) /\ Walked(wf, new, then, 0, firedEdges \cup ToSet(edges), started)
    BY <2>1, <2>3, <2>4, WalkedCounts
  <2> QED
    BY <1>1, <1>4, <2>5 DEF then
<1>7. walks' \in Seq(WalkRecords(wf)) /\ Len(walks') = 1 /\ walks'[1] = new
  <2>1. new \in WalkRecords(wf)
    BY <1>6 DEF WalkTyped
  <2> QED
    BY <1>1, <1>4, <2>1, LastReplaced
<1>8. RunTypes' /\ OutsideTypes'
  <2>1. WalksTyped(wf, walks')
    BY <1>6, <1>7, TwoWalks
  <2> QED
    BY <1>1, <2>1, FinishKeepsTypes
<1>9. Goes'
  <2>1. Busy' = 0 /\ looping'.loop = 0
    BY <1>1, <1>2 DEF Busy
  <2>2. \A n \in NodeIds(wf) : result'[n] # "error" /\ ~(started'[n] > 0 /\ result'[n] = "none")
    BY <1>1, <1>4, <1>5
  <2>3. Walked(wf', (walks[1])', result', Busy', firedEdges', started')
    BY <1>1, <1>6, <1>7, <2>1
  <2> QED
    BY <1>1, <1>4, <1>7, <2>1, <2>2, <2>3 DEF Goes
<1> QED
  BY <1>1, <1>4, <1>8, <1>9, AnyGoesOn

\* FinishNode in the walk of a body: the edges that fire stay in it, and at its end the walk is over.
LEMMA AnyFinishInside ==
  ASSUME AnyInv, FinishNode, NEW outcome, FinishedWith(outcome), outcome # "error", Len(walks) = 2
  PROVE  AnyInv'
<1> DEFINE edges == next_nodes(current, outcome)
           l     == looping.loop
           new   == decrement(walks[2], edges)
<1>1. /\ wfStep = "busy" /\ current' = 0 /\ UNCHANGED <<wf, looping, started>>
      /\ wf \in Workflows /\ RunTypes /\ OutsideTypes /\ Goes /\ RowOpen' /\ validate(wf) = {} /\ EdgesKnown(wf)
      /\ wf.edges \in Seq(EdgeSet(wf)) /\ walks # <<>> /\ walks \in Seq(WalkRecords(wf))
      /\ WalkTyped(wf, walks[1]) /\ WalkTyped(wf, walks[2])
      /\ Top = walks[2] /\ WfIds = NodeIds(wf) /\ 0 \notin NodeIds(wf) /\ current \in NodeIds(wf) /\ wfStatus = "none"
      /\ \A n \in NodeIds(wf) : result[n] # "error" /\ (started[n] > 0 /\ result[n] = "none" => n = current)
  BY AnyFinishes
<1>2. /\ l # 0 /\ l \in LoopIds(wf) /\ walks[2].to = node(wf, l).body_end /\ DOMAIN walks[2].degree = BodyOf(wf, node(wf, l))
      /\ current \in walks[2].seen /\ Busy = l /\ Walked(wf, walks[1], result, l, firedEdges, started)
  <2>1. l # 0
    BY <1>1 DEF Goes
  <2>2. Busy = l
    BY <2>1 DEF Busy
  <2> QED
    BY <1>1, <2>1, <2>2 DEF Goes
<1>3. Leaving(edges, current, outcome)
  BY <1>1, NextEdges
<1>4. /\ outcome \in {"ok", "true", "false"} /\ wfStatus' = "none" /\ result' = [result EXCEPT ![current] = outcome]
      /\ IF current = walks[2].to
         THEN wfStep' = "iterate" /\ walks' = Front(walks) /\ UNCHANGED firedEdges
         ELSE /\ wfStep' = "pick" /\ walks' = [walks EXCEPT ![Len(walks)] = new]
              /\ firedEdges' = firedEdges \cup ToSet(edges)
  BY <1>1 DEF FinishedWith, SetTop
<1>5. current \in BodyOf(wf, node(wf, l))
  BY <1>1, <1>2 DEF WalkTyped
<1> HIDE DEF edges, new, l
<1>6. result'[current] = outcome /\ \A m \in NodeIds(wf) \ {current} : result'[m] = result[m]
  BY <1>1, <1>4 DEF RunTypes
<1>7. \A n \in NodeIds(wf) : /\ result'[n] # "error" /\ ~(started'[n] > 0 /\ result'[n] = "none")
                             /\ result[n] # "none" => result'[n] # "none"
  BY <1>1, <1>4, <1>6
<1>8. walks[1].seen \subseteq NodeIds(wf)
  BY <1>1 DEF WalkTyped, WalkRecords
<1>9. Busy' = l /\ looping'.loop = l
  BY <1>1, <1>2 DEF Busy, l
<1>10. CASE current = walks[2].to
  <2>1. walks' \in Seq(WalkRecords(wf)) /\ Len(walks') = 1 /\ walks'[1] = walks[1] /\ wfStep' = "iterate" /\ firedEdges' = firedEdges
    <3>1. walks' = Front(walks) /\ wfStep' = "iterate" /\ firedEdges' = firedEdges
      BY <1>4, <1>10
    <3> QED
      BY <1>1, <3>1, WalkGone
  <2>2. RunTypes' /\ OutsideTypes'
    <3>1. WalksTyped(wf, walks')
      BY <1>1, <2>1, TwoWalks
    <3> QED
      BY <1>1, <3>1, FinishKeepsTypes
  <2>3. Walked(wf, walks[1], result', l, firedEdges, started)
    BY <1>2, <1>7, <1>8, WalkedMeanwhile
  <2>4. Walked(wf', (walks[1])', result', Busy', firedEdges', started')
    BY <1>1, <1>9, <2>1, <2>3
  <2>5. Goes'
    BY <1>1, <1>2, <1>4, <1>7, <1>9, <2>1, <2>4 DEF Goes
  <2> QED
    BY <1>1, <2>1, <2>2, <2>5, AnyGoesOn
<1>11. CASE current # walks[2].to
  <2>1. wfStep' = "pick" /\ walks' = [walks EXCEPT ![Len(walks)] = new] /\ firedEdges' = firedEdges \cup ToSet(edges)
    BY <1>4, <1>11
  <2>2. WalkTyped(wf, new) /\ DOMAIN new.degree = DOMAIN walks[2].degree /\ new.to = walks[2].to
    <3>1. edges \in Seq(DOMAIN wf.edges) /\ Injective(edges)
      BY <1>3 DEF Leaving
    <3> QED
      BY <1>1, <3>1, CountsDown DEF new
  <2>3. walks' \in Seq(WalkRecords(wf)) /\ Len(walks') = 2 /\ walks'[2] = new /\ walks'[1] = walks[1]
    <3>1. new \in WalkRecords(wf)
      BY <2>2 DEF WalkTyped
    <3> QED
      BY <1>1, <2>1, <3>1, InnerReplaced
  <2>4. RunTypes' /\ OutsideTypes'
    <3>1. WalksTyped(wf, walks')
      BY <1>1, <2>2, <2>3, TwoWalks
    <3> QED
      BY <1>1, <3>1, FinishKeepsTypes
  <2>5. Walked(wf, walks[1], result', l, firedEdges', started)
    <3>1. \A e \in DOMAIN wf.edges : e \in ToSet(edges) => wf.edges[e].to \in InBodies(wf)
      <4>1. \A e \in DOMAIN wf.edges : e \in ToSet(edges) => wf.edges[e].from = current
        BY <1>3 DEF Leaving
      <4>2. current \in BodyOf(wf, node(wf, l)) \ {node(wf, l).body_end}
        BY <1>2, <1>5, <1>11
      <4>3. BodyOf(wf, node(wf, l)) \subseteq InBodies(wf)
        BY <1>1, <1>2, BodyKnown
      <4>4. \A e \in DOMAIN wf.edges : wf.edges[e].from \in BodyOf(wf, node(wf, l)) \ {node(wf, l).body_end} =>
              wf.edges[e].to \in BodyOf(wf, node(wf, l))
        BY <1>1, <1>2, BodyKnown
      <4> QED
        BY <4>1, <4>2, <4>3, <4>4
    <3>2. \A n \in NodeIds(wf) \ InBodies(wf) :
            EdgesTo(wf, n, NodeIds(wf)) \ firedEdges' = EdgesTo(wf, n, NodeIds(wf)) \ firedEdges
      <4> TAKE n \in NodeIds(wf) \ InBodies(wf)
      <4>1. \A e \in EdgesTo(wf, n, NodeIds(wf)) : e \in DOMAIN wf.edges /\ wf.edges[e].to = n
        BY DEF EdgesTo
      <4>2. \A e \in EdgesTo(wf, n, NodeIds(wf)) : e \notin ToSet(edges)
        BY <3>1, <4>1
      <4> QED
        BY <2>1, <4>2
    <3> QED
      BY <1>2, <1>7, <1>8, <3>2, WalkedMeanwhile
  <2>6. Walked(wf', (walks[1])', result', Busy', firedEdges', started')
    BY <1>1, <1>9, <2>3, <2>5
  <2>7. Goes'
    BY <1>1, <1>2, <1>4, <1>7, <1>9, <2>1, <2>2, <2>3, <2>6 DEF Goes
  <2> QED
    BY <1>1, <2>1, <2>4, <2>7, AnyGoesOn
<1> QED
  BY <1>10, <1>11

\* FinishNode.
LEMMA AnyFinish == ASSUME AnyInv, FinishNode PROVE AnyInv'
<1>1. PICK outcome : FinishedWith(outcome)
  BY FinishComesTo
<1>2. Len(walks) \in {1, 2}
  BY AnyFinishes
<1> QED
  BY <1>1, <1>2, AnyFinishFails, AnyFinishOutside, AnyFinishInside
\* Iterate, when the run is cancelled.
LEMMA AnyIterateCancelled == ASSUME AnyInv, Iterate, looping.left > 0, wfCancelled PROVE AnyInv'
<1>1. /\ wfStep = "iterate" /\ wfStep' = "settle" /\ wfStatus' = "cancelled"
      /\ UNCHANGED <<wf, walks, looping, result, writes, firedEdges, current, wfTries, started, wfToken, wfCancelled, wfRow>>
  BY DEF Iterate, Ends
<1>2. RunTypes /\ OutsideTypes /\ Goes /\ RowOpen /\ validate(wf) = {}
  BY <1>1, AnyFacts
<1>3. RunTypes' /\ OutsideTypes' /\ RowOpen'
  BY <1>1, <1>2 DEF RunTypes, OutsideTypes, RowOpen
<1> QED
  BY <1>1, <1>2, <1>3, AnyBrokenOff

\* Iterate, with an item left: the walk of the body begins.
LEMMA AnyIterateAgain == ASSUME AnyInv, Iterate, looping.left > 0, ~wfCancelled PROVE AnyInv'
<1> DEFINE l    == looping.loop
           end  == node(wf, l).body_end
           body == BodyOf(wf, node(wf, l))
           walk == Walk(body, end)
<1>1. /\ wfStep = "iterate" /\ wfStep' = "pick" /\ wfStatus' = wfStatus
      /\ looping' = [looping EXCEPT !.left = @ - 1] /\ UNCHANGED <<result, writes, firedEdges>>
      /\ walks' = Append(walks, walk)
      /\ UNCHANGED <<wf, current, wfTries, started, wfToken, wfCancelled, wfRow>>
  BY DEF Iterate, BodyOf
<1>2. /\ wf \in Workflows /\ RunTypes /\ OutsideTypes /\ Goes /\ RowOpen /\ validate(wf) = {}
      /\ walks # <<>> /\ walks \in Seq(WalkRecords(wf)) /\ WfIds = NodeIds(wf) /\ looping.left \in Nat
      /\ \A k \in 1..Len(walks) : WalkTyped(wf, walks[k])
  BY <1>1, AnyFacts
<1>3. /\ Len(walks) = 1 /\ current = 0 /\ l # 0 /\ l \in LoopIds(wf) /\ wfStatus = "none"
      /\ Walked(wf, walks[1], result, l, firedEdges, started)
      /\ \A n \in NodeIds(wf) : result[n] # "error" /\ ~(started[n] > 0 /\ result[n] = "none")
  <2>1. /\ Len(walks) = 1 /\ current = 0 /\ l # 0 /\ l \in LoopIds(wf) /\ wfStatus = "none"
        /\ Walked(wf, walks[1], result, Busy, firedEdges, started)
    BY <1>1, <1>2 DEF Goes
  <2>2. Busy = l
    BY <2>1 DEF Busy
  <2>3. \A n \in NodeIds(wf) : result[n] # "error" /\ ~(started[n] > 0 /\ result[n] = "none")
    <3>1. 0 \notin NodeIds(wf)
      BY <1>2, EdgesFinite
    <3> QED
      BY <1>2, <2>1, <3>1 DEF Goes
  <2> QED
    BY <2>1, <2>2, <2>3
<1>4. looping' \in [loop : NodeIds(wf) \cup {0}, left : Nat] /\ looping'.loop = l
  <2>1. looping \in [loop : NodeIds(wf) \cup {0}, left : Nat] /\ looping.left - 1 \in Nat
    BY <1>2 DEF RunTypes
  <2> QED
    BY <1>1, <2>1
<1>5. body \in SUBSET WfIds /\ end \in WfIds
  BY <1>2, <1>3, BodyKnown
<1>6. GoodWalk(wf, walk, body, {}) /\ walk.to = end /\ walk.seen = {}
  <2> HIDE DEF body, end
  <2> QED
    BY <1>2, <1>5, WalkBegins
<1>7. WalkTyped(wf, walk) /\ walk \in WalkRecords(wf) /\ DOMAIN walk.degree = body
  <2> HIDE DEF walk, body
  <2>1. WalkTyped(wf, walk)
    BY <1>6, GoodWalkTyped
  <2> QED
    BY <1>6, <2>1 DEF GoodWalk, WalkTyped
<1> HIDE DEF walk, end, body, l
<1>8. walks' \in Seq(WalkRecords(wf)) /\ Len(walks') = 2 /\ walks'[1] = walks[1] /\ walks'[2] = walk
  <2>1. walks' \in Seq(WalkRecords(wf)) /\ Len(walks') = Len(walks) + 1 /\ walks'[Len(walks) + 1] = walk
        /\ \A k \in 1..Len(walks) : walks'[k] = walks[k]
    BY <1>1, <1>2, <1>7, LastAdded
  <2> QED
    BY <1>3, <2>1
<1>9. WalksTyped(wf, walks')
  <2>1. WalkTyped(wf, walks[1])
    BY <1>2, <1>3
  <2> QED
    BY <1>7, <1>8, <2>1, TwoWalks
<1>10. RunTypes' /\ OutsideTypes' /\ RowOpen'
  BY <1>1, <1>2, <1>4, <1>9 DEF RunTypes, OutsideTypes, RowOpen
<1>11. Goes'
  <2>1. Busy' = l
    BY <1>3, <1>4 DEF Busy
  <2>2. Walked(wf', (walks[1])', result', Busy', firedEdges', started')
    BY <1>1, <1>3, <1>8, <2>1
  <2>3. walks'[2].to = node(wf', looping'.loop).body_end /\ DOMAIN walks'[2].degree = BodyOf(wf', node(wf', looping'.loop))
    BY <1>1, <1>4, <1>6, <1>7, <1>8 DEF end, body
  <2> QED
    BY <1>1, <1>3, <1>4, <1>8, <2>2, <2>3 DEF Goes
<1> QED
  BY <1>1, <1>2, <1>10, <1>11, AnyGoesOn

\* Iterate, behind the last item: the loop has its result, and the edges from the end of its body are counted.
LEMMA AnyIterateOver == ASSUME AnyInv, Iterate, ~(looping.left > 0) PROVE AnyInv'
<1> DEFINE l     == looping.loop
           end   == node(wf, l).body_end
           edges == next_nodes(end, result[end])
           new   == decrement(walks[1], edges)
<1>1. wfStep = "iterate"
  BY DEF Iterate
<1>2. /\ wf \in Workflows /\ RunTypes /\ OutsideTypes /\ Goes /\ RowOpen /\ validate(wf) = {} /\ EdgesKnown(wf)
      /\ walks # <<>> /\ walks \in Seq(WalkRecords(wf)) /\ WfIds = NodeIds(wf) /\ 0 \notin NodeIds(wf) /\ Top = walks[Len(walks)]
      /\ \A k \in 1..Len(walks) : WalkTyped(wf, walks[k])
  BY <1>1, AnyFacts
<1>3. /\ Len(walks) = 1 /\ current = 0 /\ l # 0 /\ l \in LoopIds(wf) /\ wfStatus = "none" /\ WalkTyped(wf, walks[1])
      /\ Walked(wf, walks[1], result, l, firedEdges, started)
      /\ \A n \in NodeIds(wf) : result[n] # "error" /\ ~(started[n] > 0 /\ result[n] = "none")
      /\ result \in [NodeIds(wf) -> {"none", "ok", "true", "false", "error"}]
  <2>1. /\ Len(walks) = 1 /\ current = 0 /\ l # 0 /\ l \in LoopIds(wf) /\ wfStatus = "none"
        /\ Walked(wf, walks[1], result, Busy, firedEdges, started)
    BY <1>1, <1>2 DEF Goes
  <2>2. Busy = l /\ WalkTyped(wf, walks[1])
    BY <1>2, <2>1 DEF Busy
  <2>3. \A n \in NodeIds(wf) : result[n] # "error" /\ ~(started[n] > 0 /\ result[n] = "none")
    BY <1>2, <2>1 DEF Goes
  <2> QED
    BY <1>2, <2>1, <2>2, <2>3 DEF RunTypes
<1>4. l \in NodeIds(wf) /\ node(wf, l).id = l /\ edges \in Seq(DOMAIN wf.edges) /\ Injective(edges)
  <2>1. wf.edges \in Seq(EdgeSet(wf))
    BY <1>2, EdgesFinite
  <2>2. Leaving(edges, end, result[end])
    BY <2>1, NextEdges
  <2>3. l \in NodeIds(wf) /\ node(wf, l).id = l
    BY <1>2, <1>3, NodeIs DEF LoopIds
  <2> QED
    BY <2>2, <2>3 DEF Leaving
<1>5. /\ wfStep' = "pick" /\ looping' = NoLoop /\ wfStatus' = wfStatus
      /\ result' = [result EXCEPT ![l] = "ok"]
      /\ writes' = writes \cup {{i \in WfIds : result'[i] # "none"}}
      /\ walks' = [walks EXCEPT ![1] = new] /\ firedEdges' = firedEdges \cup ToSet(edges)
      /\ UNCHANGED <<wf, current, wfTries, started, wfToken, wfCancelled, wfRow>>
  BY <1>2, <1>3, <1>4 DEF Iterate, SetTop
<1> HIDE DEF edges, new, l
<1>6. /\ result'[l] = "ok" /\ (\A m \in NodeIds(wf) \ {l} : result'[m] = result[m])
      /\ result' \in [NodeIds(wf) -> {"none", "ok", "true", "false", "error"}]
  BY <1>3, <1>4, <1>5
<1>7. \A n \in NodeIds(wf) : result'[n] # "error" /\ ~(started'[n] > 0 /\ result'[n] = "none")
  BY <1>3, <1>5, <1>6
<1>8. WalkTyped(wf, new) /\ Walked(wf, new, result', 0, firedEdges', started')
  <2>1. \A n \in walks[1].seen : result'[n] # "none" \/ n = 0
    <3>1. walks[1].seen \subseteq NodeIds(wf) /\ \A n \in walks[1].seen : result[n] # "none" \/ n = l
      BY <1>3 DEF Walked, WalkTyped, WalkRecords
    <3> QED
      BY <1>6, <3>1
  <2> DEFINE walk == walks[1]
             then == result'
  <2>2. (\A n \in walk.seen : then[n] # "none" \/ n = 0) /\ new = decrement(walk, edges)
    BY <2>1 DEF new
  <2>3. WalkTyped(wf, walk) /\ Walked(wf, walk, result, l, firedEdges, started)
    BY <1>3
  <2> HIDE DEF walk, then
  <2>4. WalkTyped(wf, new) /\ Walked(wf, new, then, 0, firedEdges \cup ToSet(edges), started)
    BY <1>2, <1>4, <2>2, <2>3, WalkedCounts
  <2> QED
    BY <1>5, <2>4 DEF then
<1>9. walks' \in Seq(WalkRecords(wf)) /\ Len(walks') = 1 /\ walks'[1] = new
  <2>1. new \in WalkRecords(wf)
    BY <1>8 DEF WalkTyped
  <2>2. walks' = [walks EXCEPT ![Len(walks)] = new]
    BY <1>3, <1>5
  <2> QED
    BY <1>2, <1>3, <2>1, <2>2, LastReplaced
<1>10. RunTypes' /\ OutsideTypes' /\ RowOpen'
  <2>1. WalksTyped(wf, walks')
    BY <1>8, <1>9, TwoWalks
  <2>2. looping' \in [loop : NodeIds(wf) \cup {0}, left : Nat]
    BY <1>5 DEF NoLoop
  <2>3. writes' \in SUBSET (SUBSET NodeIds(wf))
    <3>1. {i \in WfIds : result'[i] # "none"} \in SUBSET NodeIds(wf)
      BY <1>2
    <3> QED
      BY <1>2, <1>5, <3>1 DEF OutsideTypes
  <2> QED
    BY <1>2, <1>3, <1>5, <1>6, <2>1, <2>2, <2>3 DEF RunTypes, OutsideTypes, RowOpen
<1>11. Goes'
  <2>1. Busy' = 0 /\ looping'.loop = 0
    BY <1>3, <1>5 DEF Busy, NoLoop
  <2>2. Walked(wf', (walks[1])', result', Busy', firedEdges', started')
    BY <1>5, <1>8, <1>9, <2>1
  <2> QED
    BY <1>3, <1>5, <1>7, <1>9, <2>1, <2>2 DEF Goes
<1> QED
  BY <1>2, <1>5, <1>10, <1>11, AnyGoesOn

\* Every step keeps it.
LEMMA AnyStep == ASSUME AnyInv, [WfNext]_wfVars PROVE AnyInv'
<1>1. CASE WfCalled \/ WfTimeout \/ WalkEnds \/ SaveWfRun
  BY <1>1, AnyCalled, AnyTimeout, AnyEnd, AnySave
<1>2. CASE RetryRequest \/ WriteProgress \/ Settle \/ RemoveToken \/ WfCancel
  BY <1>2, AnyBeside
<1>3. CASE TakeNode
  <2>1. Len(walks) \in {1, 2}
    <3>1. wfStep = "pick"
      BY <1>3 DEF TakeNode
    <3> QED
      BY <3>1, AnyFacts
  <2> QED
    BY <1>3, <2>1, AnyTakesOutside, AnyTakesInside
<1>4. CASE FinishNode
  BY <1>4, AnyFinish
<1>5. CASE Iterate
  BY <1>5, AnyIterateCancelled, AnyIterateAgain, AnyIterateOver
<1>6. CASE UNCHANGED wfVars
  BY <1>6, AnyStutter
<1> QED
  BY <1>1, <1>2, <1>3, <1>4, <1>5, <1>6 DEF WfNext, WfStep
-------------------------------------------------------------------------------
(* The order of a run                                                        *)

\* The workflow of a run stays what it was.
LEMMA WfStays == ASSUME [WfNext]_wfVars PROVE wf' = wf
BY DEF WfNext, WfStep, WfCalled, SaveWfRun, TakeNode, WalkEnds, RetryRequest, FinishNode, Iterate, WfTimeout,
       WriteProgress, Settle, RemoveToken, WfCancel, wfVars, runVars

\* Whatever the workflow: outside the loops a node is executed once at most, none is after one that failed, what was
\* executed has its result, and a run that completes has left nothing out all of whose edges fired.  If its loops are
\* drawn as LoopsApart says, none is executed before those with an edge to it have finished or were skipped, and those
\* in a loop are executed once per item at most.
THEOREM WalksKeepOrder == WfSpec => []WalkInOrder
<1> DEFINE Both == AnyInv /\ (LoopsApart(wf) => WfInv)
<1>1. WfInit => Both
  BY AnyInit, InitKeeps
<1>2. Both /\ [WfNext]_wfVars => Both'
  <2> SUFFICES ASSUME AnyInv, LoopsApart(wf) => WfInv, [WfNext]_wfVars PROVE Both'
    OBVIOUS
  <2>1. AnyInv'
    BY AnyStep
  <2>2. ASSUME LoopsApart(wf)' PROVE WfInv'
    <3>1. LoopsApart(wf)' <=> LoopsApart(wf')
      OBVIOUS
    <3>2. LoopsApart(wf)
      BY <2>2, <3>1, WfStays
    <3> QED
      BY <3>2, StepKeeps
  <2> QED
    BY <2>1, <2>2
<1>3. Both => WalkInOrder
  <2> SUFFICES ASSUME AnyInv, LoopsApart(wf) => WfInv PROVE WalkInOrder
    OBVIOUS
  <2>1. WfTypeOK
    <3>1. /\ Len(walks) <= 2 /\ \A k \in DOMAIN walks : walks[k].seen \subseteq DOMAIN walks[k].degree
      <4>1. WalksTyped(wf, walks)
        BY DEF AnyInv, RunTypes
      <4>2. DOMAIN walks = 1..Len(walks)
        BY <4>1 DEF WalksTyped
      <4> QED
        BY <4>1, <4>2 DEF WalksTyped, WalkTyped
    <3>2. wfRow.nodes \subseteq NodeIds(wf)
      BY DEF AnyInv, OutsideTypes
    <3> QED
      BY <3>1, <3>2 DEF AnyInv, RunTypes, OutsideTypes, WfTypeOK, WfIds
  <2>2. OncePerWalk
    <3>1. \A n \in WfIds : n \notin InLoop => started[n] <= 1
      BY LoopsWalk DEF AnyInv, WfIds
    <3>2. ASSUME LoopsApart(wf), NEW n \in WfIds, started[n] > 1
          PROVE  \E l \in Loops : n \in Body(l) /\ started[n] <= l.max_iterations
      BY <3>2 DEF WfInv, Once, Loops, Body, WfIds
    <3> QED
      BY <3>1, <3>2 DEF OncePerWalk
  <2>3. DependenciesDone
    <3>1. CASE LoopsApart(wf)
      BY <3>1, NothingMissing
    <3>2. CASE ~LoopsApart(wf)
      BY <3>2 DEF DependenciesDone
    <3> QED
      BY <3>1, <3>2
  <2>4. FailureIsLast /\ CompletedRanReady /\ ResultsRecorded
    BY DEF AnyInv
  <2> QED
    BY <2>1, <2>2, <2>3, <2>4 DEF WalkInOrder
<1> QED
  BY <1>1, <1>2, <1>3, PTL DEF WfSpec

-------------------------------------------------------------------------------
(* The end of a run                                                          *)

\* What of a walk has not been taken.
Untaken(walk) == Cardinality(DOMAIN walk.degree \ walk.seen)

\* The stages of a run that are left.
Stages(step) ==
  CASE step = "called" -> 5
    [] step = "save" -> 4
    [] step \in {"pick", "busy", "iterate"} -> 3
    [] step = "settle" -> 2
    [] step = "untoken" -> 1
    [] OTHER -> 0

\* What the walk of the graph has left, the iterations of the loop under way, the walk of its body, the tries of
\* the node in execution, and what is queued, some of it for the second time.
OuterLeft == IF walks = <<>> THEN 0 ELSE Untaken(walks[1])
LoopLeft  == IF looping.loop # 0 THEN 1 + looping.left ELSE 0
InnerLeft == IF Len(walks) = 2 THEN 1 + Untaken(walks[2]) ELSE 0
BusyLeft  == IF wfStep = "busy" THEN 1 + (HttpRetries - wfTries) ELSE 0
QueueLeft == IF walks = <<>> THEN 0 ELSE Len(Top.queue)

WfLeft == <<Stages(wfStep), OuterLeft, LoopLeft, InnerLeft, BusyLeft, QueueLeft>>

\* Each step of the run takes it on; what others do does not take it back.
WfDescends == NotAbove(WfLeft', WfLeft) /\ (WfStep => Below(WfLeft', WfLeft))

\* Of six numbers each, one less at the first difference.
LEMMA BelowSix ==
  ASSUME NEW a1, NEW a2, NEW a3, NEW a4, NEW a5, NEW a6, NEW b1, NEW b2, NEW b3, NEW b4, NEW b5, NEW b6,
         \/ a1 < b1
         \/ a1 = b1 /\ a2 < b2
         \/ a1 = b1 /\ a2 = b2 /\ a3 < b3
         \/ a1 = b1 /\ a2 = b2 /\ a3 = b3 /\ a4 < b4
         \/ a1 = b1 /\ a2 = b2 /\ a3 = b3 /\ a4 = b4 /\ a5 < b5
         \/ a1 = b1 /\ a2 = b2 /\ a3 = b3 /\ a4 = b4 /\ a5 = b5 /\ a6 < b6
  PROVE  Below(<<a1, a2, a3, a4, a5, a6>>, <<b1, b2, b3, b4, b5, b6>>)
<1> DEFINE x == <<a1, a2, a3, a4, a5, a6>>
           y == <<b1, b2, b3, b4, b5, b6>>
<1>1. /\ DOMAIN y = 1..6
      /\ x[1] = a1 /\ x[2] = a2 /\ x[3] = a3 /\ x[4] = a4 /\ x[5] = a5 /\ x[6] = a6
      /\ y[1] = b1 /\ y[2] = b2 /\ y[3] = b3 /\ y[4] = b4 /\ y[5] = b5 /\ y[6] = b6
  OBVIOUS
<1> HIDE DEF x, y
<1>2. PICK i \in 1..6 : x[i] < y[i] /\ \A k \in 1..6 : k < i => x[k] = y[k]
  <2>1. \A k \in 1..6 : /\ k < 1 => FALSE
                        /\ k < 2 => k = 1
                        /\ k < 3 => k \in {1, 2}
                        /\ k < 4 => k \in {1, 2, 3}
                        /\ k < 5 => k \in {1, 2, 3, 4}
                        /\ k < 6 => k \in {1, 2, 3, 4, 5}
    OBVIOUS
  <2>2. 1 \in 1..6 /\ 2 \in 1..6 /\ 3 \in 1..6 /\ 4 \in 1..6 /\ 5 \in 1..6 /\ 6 \in 1..6
    OBVIOUS
  <2>3. CASE a1 < b1
    BY <1>1, <2>1, <2>2, <2>3
  <2>4. CASE a1 = b1 /\ a2 < b2
    BY <1>1, <2>1, <2>2, <2>4
  <2>5. CASE a1 = b1 /\ a2 = b2 /\ a3 < b3
    BY <1>1, <2>1, <2>2, <2>5
  <2>6. CASE a1 = b1 /\ a2 = b2 /\ a3 = b3 /\ a4 < b4
    BY <1>1, <2>1, <2>2, <2>6
  <2>7. CASE a1 = b1 /\ a2 = b2 /\ a3 = b3 /\ a4 = b4 /\ a5 < b5
    BY <1>1, <2>1, <2>2, <2>7
  <2>8. CASE a1 = b1 /\ a2 = b2 /\ a3 = b3 /\ a4 = b4 /\ a5 = b5 /\ a6 < b6
    BY <1>1, <2>1, <2>2, <2>8
  <2> QED
    BY <2>3, <2>4, <2>5, <2>6, <2>7, <2>8
<1>3. Below(x, y)
  BY <1>1, <1>2 DEF Below
<1> QED
  BY <1>3 DEF x, y

\* A workflow has finitely many nodes.
LEMMA NodesFinite == ASSUME NEW w \in Workflows PROVE IsFiniteSet(NodeIds(w))
<1> DEFINE f == [i \in DOMAIN w.nodes |-> w.nodes[i].id]
<1>1. DOMAIN w.nodes = 1..Len(w.nodes) /\ Len(w.nodes) \in Nat
  BY EdgesFinite
<1>2. IsFiniteSet(DOMAIN w.nodes)
  BY <1>1, FS_Interval
<1>3. f \in Surjection(DOMAIN w.nodes, NodeIds(w))
  <2>1. f \in [DOMAIN w.nodes -> NodeIds(w)]
    BY DEF NodeIds
  <2>2. \A t \in NodeIds(w) : \E i \in DOMAIN w.nodes : f[i] = t
    BY DEF NodeIds
  <2> HIDE DEF f
  <2> QED
    BY <2>1, <2>2 DEF Surjection
<1> HIDE DEF f
<1> QED
  BY <1>2, <1>3, FS_Surjection

\* So what a walk has left is a number; a node that was not taken yet makes it less.
LEMMA UntakenCounts ==
  ASSUME NEW w \in Workflows, NEW walk \in WalkRecords(w)
  PROVE  /\ Untaken(walk) \in Nat /\ Len(walk.queue) \in Nat
         /\ \A new : new.degree = walk.degree /\ new.seen = walk.seen => Untaken(new) = Untaken(walk)
         /\ \A new, h : /\ new.degree = walk.degree /\ new.seen = walk.seen \cup {h}
                        /\ h \in DOMAIN walk.degree \ walk.seen
                        => Untaken(new) < Untaken(walk)
<1>1. DOMAIN walk.degree \subseteq NodeIds(w) /\ Len(walk.queue) \in Nat
  BY DEF WalkRecords
<1>2. IsFiniteSet(DOMAIN walk.degree \ walk.seen)
  BY <1>1, NodesFinite, FS_Subset
<1>3. Untaken(walk) \in Nat
  BY <1>2, FS_CardinalityType DEF Untaken
<1>4. ASSUME NEW new, NEW h, new.degree = walk.degree, new.seen = walk.seen \cup {h}, h \in DOMAIN walk.degree \ walk.seen
      PROVE  Untaken(new) < Untaken(walk)
  <2> DEFINE left == DOMAIN walk.degree \ walk.seen
  <2>1. Untaken(walk) = Cardinality(left) /\ Untaken(new) = Cardinality(left \ {h})
    <3>1. DOMAIN new.degree \ new.seen = left \ {h}
      BY <1>4
    <3> QED
      BY <3>1 DEF Untaken
  <2> HIDE DEF left
  <2>2. Cardinality(left \ {h}) = Cardinality(left) - 1
    BY <1>2, <1>4, FS_RemoveElement DEF left
  <2> QED
    BY <1>3, <2>1, <2>2
<1> QED
  BY <1>1, <1>3, <1>4 DEF Untaken

\* The measure consists of numbers.
LEMMA WfLeftTyped ==
  ASSUME AnyInv
  PROVE  /\ Stages(wfStep) \in 0..5 /\ OuterLeft \in Nat /\ LoopLeft \in Nat /\ InnerLeft \in Nat /\ BusyLeft \in Nat
         /\ QueueLeft \in Nat /\ WfLeft \in Nat \X Nat \X Nat \X Nat \X Nat \X Nat
<1>1. /\ wf \in Workflows /\ walks \in Seq(WalkRecords(wf)) /\ Len(walks) <= 2 /\ looping.left \in Nat
      /\ wfTries \in 0..HttpRetries /\ HttpRetries \in Nat
  BY WorkflowAssumption DEF AnyInv, RunTypes, WalksTyped
<1>2. Stages(wfStep) \in 0..5
  BY DEF Stages
<1>3. walks # <<>> => Len(walks) \in Nat \ {0} /\ walks[1] \in WalkRecords(wf) /\ Top \in WalkRecords(wf)
  BY <1>1 DEF Top
<1>4. Len(walks) = 2 => walks[2] \in WalkRecords(wf)
  <2>1. \A k \in 1..Len(walks) : walks[k] \in WalkRecords(wf)
    BY <1>1
  <2> QED
    BY <2>1
<1>5. OuterLeft \in Nat /\ InnerLeft \in Nat /\ QueueLeft \in Nat
  BY <1>1, <1>3, <1>4, UntakenCounts DEF OuterLeft, InnerLeft, QueueLeft
<1>6. LoopLeft \in Nat /\ BusyLeft \in Nat
  BY <1>1 DEF LoopLeft, BusyLeft
<1> QED
  BY <1>2, <1>5, <1>6 DEF WfLeft

\* A stage less is less.
LEMMA StageLess == ASSUME Stages(wfStep') < Stages(wfStep) PROVE Below(WfLeft', WfLeft)
BY BelowSix DEF WfLeft

\* The walk on top is replaced, or goes; what is left of the others stays.
LEMMA TopReplaced ==
  ASSUME walks \in Seq(WalkRecords(wf)), walks' \in Seq(WalkRecords(wf)), Len(walks) \in {1, 2}, NEW new,
         walks' = [walks EXCEPT ![Len(walks)] = new]
  PROVE  /\ Len(walks') = Len(walks) /\ walks' # <<>> /\ walks'[Len(walks)] = new /\ Top' = new
         /\ Len(walks) = 2 => walks'[1] = walks[1]
<1>1. DOMAIN walks = 1..Len(walks) /\ DOMAIN walks' = 1..Len(walks') /\ DOMAIN walks' = DOMAIN walks
  OBVIOUS
<1>2. Len(walks') = Len(walks)
  BY <1>1
<1>3. walks'[Len(walks)] = new /\ (Len(walks) = 2 => walks'[1] = walks[1])
  BY <1>1
<1> QED
  BY <1>2, <1>3 DEF Top

\* TakeNode: the node was not taken before, or it is queued once less.
LEMMA TakeDescends == ASSUME AnyInv, AnyInv', TakeNode PROVE Below(WfLeft', WfLeft)
<1> DEFINE top == walks[Len(walks)]
           h   == Head(top.queue)
           new == Taken(top)
<1>1. /\ wfStep = "pick" /\ top.queue # <<>> /\ TakenTo(h, node(wf, h), top.seen)
      /\ walks' = [walks EXCEPT ![Len(walks)] = new] /\ wf' = wf /\ wfTries' = wfTries
  BY HeadTaken
<1>2. /\ wf \in Workflows /\ WalkTyped(wf, top) /\ Len(walks) \in {1, 2} /\ walks # <<>> /\ walks \in Seq(WalkRecords(wf))
      /\ top \in WalkRecords(wf) /\ walks[1] \in WalkRecords(wf) /\ Top = top
  <2>1. Len(walks) \in 1..Len(walks)
    BY <1>1, AnyFacts
  <2> QED
    BY <1>1, <2>1, AnyFacts
<1>3. walks' \in Seq(WalkRecords(wf)) /\ wf \in Workflows
  BY <1>1, <1>2 DEF AnyInv, RunTypes, WalksTyped
<1>4. h \in DOMAIN top.degree /\ top.queue \in Seq(DOMAIN top.degree)
  BY <1>1, <1>2, TakenTyped DEF WalkTyped
<1>5. new.degree = top.degree /\ new.seen = top.seen \cup {h} /\ new.queue = Tail(top.queue)
  BY <1>2, TakenFields
<1>6. Len(new.queue) < Len(top.queue)
  BY <1>1, <1>4, <1>5
<1>7. /\ Len(walks') = Len(walks) /\ walks' # <<>> /\ walks'[Len(walks)] = new /\ Top' = new
      /\ Len(walks) = 2 => walks'[1] = walks[1]
  BY <1>1, <1>2, <1>3, TopReplaced
<1> HIDE DEF top, h, new
<1>8. CASE h \in top.seen /\ UNCHANGED <<wfStep, wfStatus, current, looping, started>>
  <2>1. new.seen = top.seen
    BY <1>5, <1>8
  <2>2. Untaken(new) = Untaken(top)
    BY <1>2, <1>3, <1>5, <2>1, UntakenCounts
  <2>3. OuterLeft' = OuterLeft
    BY <1>2, <1>7, <2>2 DEF OuterLeft, top
  <2>4. InnerLeft' = InnerLeft
    BY <1>2, <1>7, <2>2 DEF InnerLeft, top
  <2>5. Stages(wfStep') = Stages(wfStep) /\ LoopLeft' = LoopLeft /\ BusyLeft' = BusyLeft
    BY <1>1, <1>8 DEF LoopLeft, BusyLeft
  <2>6. QueueLeft' < QueueLeft
    BY <1>2, <1>6, <1>7 DEF QueueLeft
  <2> QED
    BY <2>3, <2>4, <2>5, <2>6, BelowSix DEF WfLeft
<1>9. CASE wfStep' = "settle"
  BY <1>1, <1>9, StageLess DEF Stages
<1>10. CASE h \notin top.seen /\ wfStep' = "busy" /\ looping' = looping
  <2>1. Untaken(new) < Untaken(top) /\ Untaken(top) \in Nat
    BY <1>2, <1>3, <1>4, <1>5, <1>10, UntakenCounts
  <2>2. Stages(wfStep') = Stages(wfStep) /\ LoopLeft' = LoopLeft
    BY <1>1, <1>10 DEF LoopLeft, Stages
  <2>3. CASE Len(walks) = 1
    <3>1. OuterLeft' < OuterLeft
      BY <1>2, <1>7, <2>1, <2>3 DEF OuterLeft, top
    <3> QED
      BY <2>2, <3>1, BelowSix DEF WfLeft
  <2>4. CASE Len(walks) = 2
    <3>1. OuterLeft' = OuterLeft
      BY <1>2, <1>7, <2>4 DEF OuterLeft
    <3>2. InnerLeft' = 1 + Untaken(new) /\ InnerLeft = 1 + Untaken(top)
      BY <1>7, <2>4 DEF InnerLeft, top
    <3>3. Untaken(new) \in Nat
      BY <1>3, <1>7, <2>4, UntakenCounts
    <3>4. InnerLeft' < InnerLeft
      BY <2>1, <3>2, <3>3
    <3> QED
      BY <2>2, <3>1, <3>4, BelowSix DEF WfLeft
  <2> QED
    BY <1>2, <2>3, <2>4
<1>11. CASE h \notin top.seen /\ Len(walks) = 1 /\ wfStep' = "iterate"
  <2>1. Untaken(new) < Untaken(top)
    BY <1>2, <1>3, <1>4, <1>5, <1>11, UntakenCounts
  <2>2. OuterLeft' < OuterLeft
    BY <1>2, <1>7, <1>11, <2>1 DEF OuterLeft, top
  <2>3. Stages(wfStep') = Stages(wfStep)
    BY <1>1, <1>11 DEF Stages
  <2> QED
    BY <2>2, <2>3, BelowSix DEF WfLeft
<1> QED
  BY <1>1, <1>8, <1>9, <1>10, <1>11 DEF TakenTo

\* The walk of a body goes, with all that it had left.
LEMMA BodyEnds ==
  ASSUME AnyInv, wfStep \in {"pick", "busy"}, Len(walks) = 2, walks' = Front(walks), wfStep' = "iterate",
         UNCHANGED <<wf, looping>>
  PROVE  Below(WfLeft', WfLeft)
<1>1. walks \in Seq(WalkRecords(wf)) /\ walks # <<>> /\ wf \in Workflows
  BY AnyFacts
<1>2. walks' \in Seq(WalkRecords(wf)) /\ Len(walks') = 1 /\ walks'[1] = walks[1]
  BY <1>1, WalkGone
<1>3. Untaken(walks[2]) \in Nat
  BY <1>1, UntakenCounts
<1>4. InnerLeft' = 0 /\ InnerLeft = 1 + Untaken(walks[2])
  BY <1>2 DEF InnerLeft
<1>5. OuterLeft' = OuterLeft
  <2>1. walks' # <<>>
    BY <1>2
  <2> QED
    BY <1>1, <1>2, <2>1 DEF OuterLeft
<1>6. Stages(wfStep') = Stages(wfStep) /\ LoopLeft' = LoopLeft
  BY DEF Stages, LoopLeft
<1>7. InnerLeft' < InnerLeft
  BY <1>3, <1>4
<1> QED
  BY <1>5, <1>6, <1>7, BelowSix DEF WfLeft

\* WalkEnds.
LEMMA EndDescends == ASSUME AnyInv, WalkEnds PROVE Below(WfLeft', WfLeft)
<1>1. /\ wfStep = "pick" /\ UNCHANGED <<wf, looping>>
      /\ IF Len(walks) = 1 THEN wfStep' = "settle" ELSE wfStep' = "iterate" /\ walks' = Front(walks)
  BY DEF WalkEnds, Ends
<1>2. Len(walks) \in {1, 2}
  BY <1>1, AnyFacts
<1>3. CASE Len(walks) = 1
  BY <1>1, <1>3, StageLess DEF Stages
<1>4. CASE Len(walks) = 2
  BY <1>1, <1>4, BodyEnds
<1> QED
  BY <1>2, <1>3, <1>4

\* RetryRequest.
LEMMA RetryDescends == ASSUME AnyInv, RetryRequest PROVE Below(WfLeft', WfLeft)
<1>1. /\ wfStep = "busy" /\ wfTries < HttpRetries /\ wfTries' = wfTries + 1 /\ UNCHANGED <<wf, wfStep, walks, looping>>
  BY DEF RetryRequest
<1>2. wfTries \in 0..HttpRetries /\ HttpRetries \in Nat
  BY WorkflowAssumption DEF AnyInv, RunTypes
<1>3. BusyLeft' < BusyLeft
  BY <1>1, <1>2 DEF BusyLeft
<1>4. OuterLeft' = OuterLeft /\ LoopLeft' = LoopLeft /\ InnerLeft' = InnerLeft
  BY <1>1 DEF OuterLeft, LoopLeft, InnerLeft
<1> QED
  BY <1>1, <1>3, <1>4, BelowSix DEF WfLeft

\* A walk whose in-degrees are counted down has as much left.
LEMMA CountedDownAsFar == ASSUME NEW walk \in WalkRecords(wf), NEW edges PROVE Untaken(decrement(walk, edges)) = Untaken(walk)
<1>1. DOMAIN decrement(walk, edges).degree = DOMAIN walk.degree /\ decrement(walk, edges).seen = walk.seen
  BY DEF decrement, WalkRecords
<1> QED
  BY <1>1 DEF Untaken

\* FinishNode: the node is no longer in execution.
LEMMA FinishDescends == ASSUME AnyInv, AnyInv', FinishNode PROVE Below(WfLeft', WfLeft)
<1> DEFINE top == walks[Len(walks)]
<1>1. /\ wfStep = "busy" /\ current' = 0 /\ UNCHANGED <<wf, looping>> /\ (\E outcome : FinishedWith(outcome))
      /\ Goes /\ Top = top /\ Len(walks) \in {1, 2} /\ walks # <<>> /\ walks \in Seq(WalkRecords(wf))
      /\ top \in WalkRecords(wf) /\ current # 0
  BY AnyFinishes DEF WalkTyped
<1>2. PICK outcome : FinishedWith(outcome)
  BY <1>1
<1>3. CASE outcome = "error"
  <2>1. wfStep' = "settle"
    BY <1>2, <1>3 DEF FinishedWith
  <2> QED
    BY <1>1, <2>1, StageLess DEF Stages
<1>4. CASE outcome # "error" /\ current = Top.to
  <2>1. wfStep' = "iterate" /\ walks' = Front(walks)
    BY <1>2, <1>4 DEF FinishedWith
  <2>2. Len(walks) = 2
    BY <1>1, <1>4 DEF Goes, Walked
  <2> QED
    BY <1>1, <2>1, <2>2, BodyEnds
<1>5. CASE outcome # "error" /\ current # Top.to
  <2> DEFINE new == decrement(top, next_nodes(current, outcome))
  <2>1. wfStep' = "pick" /\ walks' = [walks EXCEPT ![Len(walks)] = new]
    BY <1>1, <1>2, <1>5 DEF FinishedWith, SetTop
  <2>2. Untaken(new) = Untaken(top)
    BY <1>1, CountedDownAsFar
  <2>3. walks' \in Seq(WalkRecords(wf))
    BY <1>1 DEF AnyInv, RunTypes, WalksTyped
  <2> HIDE DEF new
  <2>4. Len(walks') = Len(walks) /\ walks' # <<>> /\ walks'[Len(walks)] = new /\ (Len(walks) = 2 => walks'[1] = walks[1])
    BY <1>1, <2>1, <2>3, TopReplaced
  <2> HIDE DEF top
  <2>5. OuterLeft' = OuterLeft
    BY <1>1, <2>2, <2>4 DEF OuterLeft, top
  <2>6. InnerLeft' = InnerLeft
    BY <1>1, <2>2, <2>4 DEF InnerLeft, top
  <2>7. Stages(wfStep') = Stages(wfStep) /\ LoopLeft' = LoopLeft
    BY <1>1, <2>1 DEF Stages, LoopLeft
  <2>8. BusyLeft' < BusyLeft
    <3>1. wfTries \in 0..HttpRetries /\ HttpRetries \in Nat
      BY WorkflowAssumption DEF AnyInv, RunTypes
    <3> QED
      BY <1>1, <2>1, <3>1 DEF BusyLeft
  <2> QED
    BY <2>5, <2>6, <2>7, <2>8, BelowSix DEF WfLeft
<1> QED
  BY <1>3, <1>4, <1>5

\* Iterate: an iteration less, or the loop is over.
LEMMA IterateDescends == ASSUME AnyInv, AnyInv', Iterate PROVE Below(WfLeft', WfLeft)
<1>1. wfStep = "iterate"
  BY DEF Iterate
<1>2. /\ Goes /\ walks # <<>> /\ walks \in Seq(WalkRecords(wf)) /\ walks[1] \in WalkRecords(wf) /\ looping.left \in Nat
      /\ Top = walks[Len(walks)]
  BY <1>1, AnyFacts
<1>3. Len(walks) = 1 /\ looping.loop # 0 /\ wf' = wf /\ looping \in [loop : NodeIds(wf) \cup {0}, left : Nat]
  BY <1>1, <1>2 DEF Goes, Iterate, AnyInv, RunTypes
<1>4. walks' \in Seq(WalkRecords(wf))
  BY <1>3 DEF AnyInv, RunTypes, WalksTyped
<1>5. LoopLeft = 1 + looping.left
  BY <1>3 DEF LoopLeft
<1>6. CASE looping.left > 0 /\ wfCancelled
  <2>1. wfStep' = "settle"
    BY <1>6 DEF Iterate, Ends
  <2> QED
    BY <1>1, <2>1, StageLess DEF Stages
<1>7. CASE looping.left > 0 /\ ~wfCancelled
  <2>1. PICK walk : walks' = Append(walks, walk) /\ wfStep' = "pick" /\ looping' = [looping EXCEPT !.left = @ - 1]
    BY <1>7 DEF Iterate
  <2>2. walks' # <<>> /\ walks'[1] = walks[1]
    BY <1>2, <1>3, <2>1
  <2>3. looping'.loop = looping.loop /\ looping'.left = looping.left - 1
    BY <1>3, <2>1
  <2>4. OuterLeft' = OuterLeft
    BY <1>2, <2>2 DEF OuterLeft
  <2>5. LoopLeft' < LoopLeft
    BY <1>2, <1>3, <1>5, <2>3 DEF LoopLeft
  <2> QED
    BY <1>1, <2>1, <2>4, <2>5, BelowSix DEF WfLeft, Stages
<1>8. CASE ~(looping.left > 0)
  <2>1. PICK edges : walks' = [walks EXCEPT ![Len(walks)] = decrement(walks[1], edges)] /\ wfStep' = "pick" /\ looping' = NoLoop
    BY <1>2, <1>3, <1>8 DEF Iterate, SetTop
  <2> DEFINE new == decrement(walks[1], edges)
  <2>2. Untaken(new) = Untaken(walks[1])
    BY <1>2, CountedDownAsFar
  <2> HIDE DEF new
  <2>3. Len(walks') = Len(walks) /\ walks' # <<>> /\ walks'[Len(walks)] = new
    BY <1>2, <1>3, <1>4, <2>1, TopReplaced DEF new
  <2>4. OuterLeft' = OuterLeft
    BY <1>2, <1>3, <2>2, <2>3 DEF OuterLeft
  <2>5. LoopLeft' < LoopLeft
    BY <1>2, <1>5, <2>1 DEF LoopLeft, NoLoop
  <2> QED
    BY <1>1, <2>1, <2>4, <2>5, BelowSix DEF WfLeft, Stages
<1> QED
  BY <1>6, <1>7, <1>8

\* A run comes to its end by its own steps (WfEnds), whatever its nodes do, however often it is cancelled and
\* whether or not its time runs out: each step leaves fewer stages, nodes, iterations, tries or queued nodes, and
\* nothing that happens beside the run gives it more.
THEOREM RunsRunOut ==
  WfSpec => [](WfLeft \in Nat \X Nat \X Nat \X Nat \X Nat \X Nat) /\ [][WfDescends]_wfVars
<1>1. WfInit => AnyInv
  BY AnyInit
<1>2. AnyInv /\ [WfNext]_wfVars => AnyInv'
  BY AnyStep
<1>3. AnyInv => WfLeft \in Nat \X Nat \X Nat \X Nat \X Nat \X Nat
  BY WfLeftTyped
<1>4. AnyInv /\ AnyInv' /\ [WfNext]_wfVars => [WfDescends]_wfVars
  <2> SUFFICES ASSUME AnyInv, AnyInv', WfNext PROVE WfDescends
    OBVIOUS
  <2>1. CASE SaveWfRun \/ Settle \/ RemoveToken \/ WfCalled \/ WfTimeout
    <3>1. Stages(wfStep') < Stages(wfStep)
      BY <2>1 DEF SaveWfRun, Settle, RemoveToken, WfCalled, WfTimeout, Ends, Stages
    <3> QED
      BY <3>1, StageLess DEF WfDescends, NotAbove
  <2>2. CASE TakeNode \/ WalkEnds \/ RetryRequest \/ FinishNode \/ Iterate
    BY <2>2, TakeDescends, EndDescends, RetryDescends, FinishDescends, IterateDescends DEF WfDescends, NotAbove
  <2>3. CASE WfStep
    BY <2>1, <2>2, <2>3 DEF WfStep
  <2>4. CASE ~WfStep /\ (WriteProgress \/ WfCancel)
    <3>1. UNCHANGED <<wfStep, walks, looping, wfTries>>
      BY <2>4 DEF WriteProgress, WfCancel, runVars
    <3>2. WfLeft' = WfLeft
      BY <3>1 DEF WfLeft, OuterLeft, LoopLeft, InnerLeft, BusyLeft, QueueLeft, Top
    <3> QED
      BY <2>4, <3>2 DEF WfDescends, NotAbove
  <2> QED
    BY <2>1, <2>3, <2>4 DEF WfNext
<1> QED
  BY <1>1, <1>2, <1>3, <1>4, PTL DEF WfSpec
=================================================================================
