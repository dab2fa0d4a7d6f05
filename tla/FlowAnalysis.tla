----------------------------- MODULE FlowAnalysis -----------------------------
(***************************************************************************)
(* crates/analysis: noise.rs, token_extractor.rs, dependency_mapper.rs,    *)
(* flow_sequencer.rs and flow_graph.rs, what depends on what among the     *)
(* captured flows.  Pure functions over sequences of flows.                *)
(***************************************************************************)
LOCAL INSTANCE Naturals
LOCAL INSTANCE Sequences
LOCAL INSTANCE FiniteSets
LOCAL INSTANCE SequencesExt
LOCAL INSTANCE FiniteSetsExt

(* A flow is [id, print, key, noise, body, headers, cookies, uses, time]: its *)
(* number, the number of its fingerprint, what it is deduplicated by (method  *)
(* and path without query, the host left out), whether its host or path is    *)
(* noise, what its response carries and the token values its request holds.   *)
(* body: "text" and `jwts`, the JWTs in it, and `json`, the string fields of  *)
(* its objects, as [key, value, long].                                        *)

TokenKeys  == {"access_token", "token", "id_token", "refresh_token", "csrf_token", "csrf", "api_key", "apiKey"}
AuthKeys   == {"authorization", "x-api-key", "x-auth-token"}
CookieKeys == {"session", "sessionid", "jwt", "csrf", "csrftoken", "token"}

\* extract_from_flow: the values of the tokens a response hands out, with no text twice that
\* only its form makes a token.
extract_from_flow(f) ==
  LET fields  == SelectSeq(f.body.json, LAMBDA m : m.long /\ m.key \in TokenKeys)
      named   == {fields[i].value : i \in DOMAIN fields}
      headers == {h \in f.headers : h.key \in AuthKeys}
      cookies == {c \in f.cookies : c.long /\ c.key \in CookieKeys}
  IN  named \cup f.body.jwts \cup {t.value : t \in headers \cup cookies}

\* filter_for_analysis_with_counts: the first flow of each key that is no noise, with how many
\* there were; filter_for_analysis leaves the counts out.
filter_with_counts(flows) ==
  LET kept     == SelectSeq(flows, LAMBDA f : ~f.noise)
      first(i) == \A j \in 1..(i - 1) : kept[j].key # kept[i].key
      at       == SetToSortSeq({i \in DOMAIN kept : first(i)}, <)
  IN  [k \in DOMAIN at |-> <<kept[at[k]], Cardinality({j \in DOMAIN kept : kept[j].key = kept[at[k]].key})>>]

Prints(flows) == {flows[i].print : i \in DOMAIN flows}

\* build_graph: from the flow that hands a token out to those whose requests hold it.  Two flows
\* of one fingerprint are the same to it.
build_graph(flows) ==
  {<<a, b>> \in Prints(flows) \X Prints(flows) :
     /\ a # b
     /\ \E i, j \in DOMAIN flows : /\ flows[i].print = a /\ flows[j].print = b
                                   /\ extract_from_flow(flows[i]) \cap flows[j].uses # {}}

\* One turn of Kahn's loop: the smallest of the queue goes out, and what now waits for nothing
\* is queued.
SortTurn(graph, s) ==
  IF s.queue = {} THEN s
  ELSE LET id    == Min(s.queue)
           left  == s.left \ {id}
           freed == {b \in left \ s.queue : \A a \in left : <<a, b>> \notin graph} IN
       [queue |-> (s.queue \ {id}) \cup freed, left |-> left, order |-> Append(s.order, id)]

\* topological_sort: the order, and behind it, in the order they came, the flows a cycle left.
\* Of flows with one fingerprint the last stands for all.
topological_sort(flows, graph) ==
  LET ids   == Prints(flows)
      edges == {e \in graph : e[1] \in ids /\ e[2] \in ids /\ e[1] # e[2]}
      start == [queue |-> {b \in ids : \A a \in ids : <<a, b>> \notin edges}, left |-> ids, order |-> <<>>]
      end   == FoldLeft(LAMBDA s, f : SortTurn(edges, s), start, flows)
      last(p) == flows[Max({i \in DOMAIN flows : flows[i].print = p})]
      sorted  == [k \in DOMAIN end.order |-> last(end.order[k])]
  IN  [flows |-> sorted \o SelectSeq(flows, LAMBDA f : f.print \notin ToSet(end.order)),
       cycles_detected |-> Len(flows) - Len(end.order)]

\* build_timeline_graph: in the order of time, the parents of a flow are those before it whose
\* tokens its request holds, or else the one before it; children are the parents read backwards.
build_timeline_graph(flows) ==
  LET order == SetToSortSeq(DOMAIN flows, LAMBDA i, j : \/ flows[i].time < flows[j].time
                                                        \/ flows[i].time = flows[j].time /\ i < j)
      at(k) == flows[order[k]]
      used(k)    == {at(j).id : j \in {i \in 1..(k - 1) : extract_from_flow(at(i)) \cap at(k).uses # {}}}
      parents(k) == IF used(k) # {} \/ k = 1 THEN used(k) ELSE {at(k - 1).id}
  IN  [k \in DOMAIN order |->
         [id |-> at(k).id, parents |-> parents(k),
          children |-> {at(j).id : j \in {i \in DOMAIN order : at(k).id \in parents(i)}}]]
===============================================================================
