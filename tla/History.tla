-------------------------------- MODULE History --------------------------------
(***************************************************************************)
(* What the server shows of the captured flows: how the rows of the store  *)
(* and the flows in memory make one list (apps/api-tester-server:          *)
(* backend.rs, dashboard.rs; crates/storage/src/sqlite.rs), and how a list *)
(* is filtered and becomes a site map (serialization.rs).                  *)
(***************************************************************************)
LOCAL INSTANCE Naturals
LOCAL INSTANCE Sequences
LOCAL INSTANCE FiniteSets
LOCAL INSTANCE SequencesExt
LOCAL INSTANCE FiniteSetsExt

(* A flow is [id, session, time, duration, method, status, scheme, host,      *)
(* path, query, noise, body, len, stored, chars]: its path is the sequence of *)
(* its segments, "" between two slashes; its body is "full" or "none", its    *)
(* headers with it; stored and chars are the length of the text that is kept  *)
(* of the body, in bytes and in characters.  The table of flows is a set of   *)
(* flows, those in memory a sequence.                                         *)

strip_flow(f)         == [f EXCEPT !.body = "none"]
\* The durations are not stored, and the length is that of the text.
flow_from_row(f)      == [f EXCEPT !.duration = 0, !.len = f.stored]
flow_meta_from_row(f) == [f EXCEPT !.duration = 0, !.len = f.chars, !.body = "none"]

newest_first(S) == SetToSortSeq(S, LAMBDA f, g : f.time > g.time)
oldest_first(S) == SetToSortSeq(S, LAMBDA f, g : f.time < g.time)
limited(seq, n) == SubSeq(seq, 1, Min({Len(seq), n}))
mapped(seq, Op(_)) == [i \in DOMAIN seq |-> Op(seq[i])]

\* SqliteFlowRepository: list_recent, list_recent_meta, list_by_session, list_by_session_meta
list_recent(table, n)      == mapped(limited(newest_first(table), n), flow_from_row)
list_recent_meta(table, n) == mapped(limited(newest_first(table), n), flow_meta_from_row)
Of(table, sid)             == {f \in table : f.session = sid}
list_by_session(table, sid)         == mapped(oldest_first(Of(table, sid)), flow_from_row)
list_by_session_meta(table, sid, n) == mapped(limited(newest_first(Of(table, sid)), n), flow_meta_from_row)

Ids(seq) == {seq[i].id : i \in DOMAIN seq}

\* The rows, and behind them what is in memory and not among them.
with_unsaved(found, memory) == found \o SelectSeq(memory, LAMBDA f : f.id \notin Ids(found))

\* bug: the flow in memory stands for its row only at the end of the list
replaced_bug(found, memory) == found \o memory

\* The rows, each given way to the flow in memory that has its id.
replaced(found, memory) ==
  with_unsaved([i \in DOMAIN found |-> LET same == SelectSeq(memory, LAMBDA f : f.id = found[i].id) IN
                                       IF same = <<>> THEN found[i] ELSE Last(same)], memory)

\* flows_for_session_meta and flows_for_session: the one shows the newest first, the other keeps
\* the first of them in time.
flows_for_session_meta(table, memory, sid, rows) ==
  newest_first(ToSet(with_unsaved(list_by_session_meta(table, sid, rows), SelectSeq(memory, LAMBDA f : f.session = sid))))
flows_for_session(table, memory, sid, limit) ==
  limited(oldest_first(ToSet(with_unsaved(list_by_session(table, sid), SelectSeq(memory, LAMBDA f : f.session = sid)))), limit)

\* full_flows_for_analysis
full_flows_for_analysis(table, memory, limit) ==
  limited(oldest_first(ToSet(replaced(list_recent(table, limit), memory))), limit)

\* all_flows
all_flows(table, memory, rows) == newest_first(ToSet(replaced(list_recent_meta(table, rows), memory)))

\* flow_by_id: the row, or else the flow in memory; <<>> when there is neither.
flow_by_id(table, memory, id) ==
  LET rows == {f \in table : f.id = id}
      held == SelectSeq(memory, LAMBDA f : f.id = id)
  IN  IF rows # {} THEN SetToSeq(rows) ELSE limited(held, 1)

\* app_health
flow_count(table, memory) == Max({Cardinality(table), Len(memory)})

\* filter_flows: a filter that is empty filters nothing, but for that of the session ("any").
filter_flows(flows, filters) ==
  SelectSeq(flows, LAMBDA f : /\ filters.session \in {"any", f.session}
                              /\ filters.method \in {"", f.method}
                              /\ filters.host \in {"", f.host}
                              /\ filters.q = "" \/ filters.q = f.host \/ filters.q \in ToSet(f.path))

\* AppState::list_flows
list_flows(table, memory, filters, rows) ==
  filter_flows(IF filters.session = "any" THEN all_flows(table, memory, rows)
               ELSE flows_for_session_meta(table, memory, filters.session, rows), filters)

filter_noise(flows) == SelectSeq(flows, LAMBDA f : ~f.noise)

------------------------------------------------------------------------------
(* The site map.                                                             *)

\* The directories and the name of the endpoint of a flow; empty segments count for nothing.
place(f) == LET segments == SelectSeq(f.path, LAMBDA s : s # "") IN
            IF segments = <<>> THEN [dirs |-> <<>>, name |-> "/"] ELSE [dirs |-> Front(segments), name |-> Last(segments)]

\* EndpointAcc of the flows of one endpoint: the sample is the first of the newest.
endpoint(flows) ==
  LET newest == Max({flows[i].time : i \in DOMAIN flows}) IN
  [count |-> Len(flows), methods |-> {flows[i].method : i \in DOMAIN flows},
   statuses |-> {flows[i].status : i \in DOMAIN flows}, last_seen |-> newest,
   sample_flow_id |-> flows[Min({i \in DOMAIN flows : flows[i].time = newest})].id,
   has_params |-> \E i \in DOMAIN flows : flows[i].query]

RECURSIVE build_dir_children(_, _, _)

\* build_dir_children: the directories below `prefix` and the endpoints in it; the root is "/",
\* and an annotation is looked up by the path without the query.
build_dir_children(flows, prefix, annotations) ==
  LET below(f)  == IsPrefix(prefix, place(f).dirs)
      dirs      == {place(f).dirs[Len(prefix) + 1] : f \in {g \in ToSet(flows) : below(g) /\ place(g).dirs # prefix}}
      names     == {place(f).name : f \in {g \in ToSet(flows) : place(g).dirs = prefix}}
      path(n)   == IF n = "/" THEN <<>> ELSE Append(prefix, n)
  IN  {[name |-> d, kind |-> "dir", path |-> Append(prefix, d),
        children |-> build_dir_children(flows, Append(prefix, d), annotations)] : d \in dirs}
      \cup
      {[name |-> n, kind |-> "endpoint", path |-> path(n), children |-> {}, annotated |-> path(n) \in annotations,
        acc |-> endpoint(SelectSeq(flows, LAMBDA f : place(f) = [dirs |-> prefix, name |-> n]))] : n \in names}

\* build_sitemap_tree: a tree for each scheme and host; an annotation is <<scheme, host, path>>.
build_sitemap_tree(flows, annotations) ==
  LET site(f) == <<f.scheme, f.host>> IN
  {[scheme |-> s[1], host |-> s[2],
    children |-> build_dir_children(SelectSeq(flows, LAMBDA f : site(f) = s), <<>>,
                                   {a[3] : a \in {b \in annotations : <<b[1], b[2]>> = s}})]
     : s \in {site(flows[i]) : i \in DOMAIN flows}}

\* AppState::sitemap, of the flows of a session or of all.
sitemap(table, memory, session, rows, annotations) ==
  build_sitemap_tree(filter_noise(IF session = "any" THEN all_flows(table, memory, rows)
                                  ELSE flows_for_session_meta(table, memory, session, rows)), annotations)

RECURSIVE endpoints(_)
endpoints(nodes) == {n \in nodes : n.kind = "endpoint"} \cup UNION {endpoints(n.children) : n \in nodes}

\* flatten_sitemap_tree: per host a line for each endpoint, whatever the scheme.
flatten_sitemap_tree(tree) ==
  LET lines(s) == LET of == SetToSeq(endpoints(s.children)) IN
                  [i \in DOMAIN of |-> <<of[i].path, of[i].acc.count, of[i].acc.methods>>]
      sites(h) == SetToSeq({s \in tree : s.host = h})
  IN  [h \in {s.host : s \in tree} |-> FlattenSeq([i \in DOMAIN sites(h) |-> lines(sites(h)[i])])]
===============================================================================
