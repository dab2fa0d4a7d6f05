------------------------------ MODULE MCFunctions ------------------------------
(***************************************************************************)
(* The program's pure algorithms against reference definitions: a state is *)
(* one input of one of them, and the invariants evaluate them on it.       *)
(***************************************************************************)
EXTENDS Naturals, Sequences, FiniteSets, SequencesExt
Q == INSTANCE QueryLanguage

VARIABLE input

(* Queries: trees of two levels over a few comparisons, written as text.    *)
Atoms ==
  { [field |-> "method", op |-> <<>>, value |-> <<"GET">>],
    [field |-> "method", op |-> <<"!=">>, value |-> <<"GET">>],
    [field |-> "resp.status", op |-> <<">=">>, value |-> <<"404">>],
    [field |-> "resp.status", op |-> <<>>, value |-> <<"200">>],
    [field |-> "path", op |-> <<>>, value |-> <<"/api">>],
    [field |-> "path", op |-> <<>>, value |-> <<"/api", "?">>] }
Leaf(a)       == [of |-> "atom", atom |-> a]
Leaves        == {Leaf(a) : a \in Atoms}
Pairs(S, T)   == {[of |-> o, left |-> l, right |-> r] : o \in {"&", "|"}, l \in S, r \in T}
QueryTrees    == Pairs(Leaves, Leaves) \cup Pairs(Leaves, Pairs(Leaves, Leaves))

\* The text of a tree: an alternative below a conjunction is put in parentheses.
RECURSIVE Written(_)
Written(t) ==
  LET part(p) == IF t.of = "&" /\ p.of = "|" THEN <<"(">> \o Written(p) \o <<")">> ELSE Written(p) IN
  IF t.of = "atom" THEN <<t.atom.field, ":">> \o t.atom.op \o t.atom.value
  ELSE part(t.left) \o <<t.of>> \o part(t.right)

\* What a tree says of a flow.
RECURSIVE Says(_, _)
Says(t, f) ==
  CASE t.of = "&" -> Says(t.left, f) /\ Says(t.right, f)
    [] t.of = "|" -> Says(t.left, f) \/ Says(t.right, f)
    [] OTHER ->
         CASE t.atom.field = "path" -> LET text == f["path"].text IN
                IF t.atom.value = <<"/api">> THEN text[1] = "/api" ELSE \E c \in Q!Characters : text = <<"/api", c>>
           [] t.atom.field = "method" -> (f["method"].text = t.atom.value) = (t.atom.op = <<>>)
           [] OTHER -> LET n == f["resp.status"].n
                           m == Q!NumberOf[t.atom.value[1]] IN
                IF t.atom.op = <<>> THEN n = m ELSE n >= m

\* Every method, path and status.
QueryFlows == [i \in 1..18 |->
  [g \in Q!Fields |-> CASE g = "method" -> Q!Text(<< <<"GET", "POST">>[1 + (i % 2)] >>)
                        [] g = "path" -> Q!Text(<< <<"/api", "/users">>, <<"/static">>, <<"/api", "a">> >>[1 + ((i \div 2) % 3)])
                        [] g = "resp.status" -> Q!Number(<<200, 404, 500>>[1 + ((i - 1) \div 6)])
                        [] OTHER -> [kind |-> "null"]]]

\* A query text keeps the flows its tree describes: & binds tighter than |, parentheses
\* override it, a question mark stands for one character, several lines are all required, and
\* a comment says nothing.  (crates/query/src/parser.rs)
QuerySays ==
  input.part = "query" =>
    LET query == Q!parse(<<Written(input.tree), <<>>, <<"#", "method", ":", "POST">>, Written(input.also)>>)
    IN  Q!execute(QueryFlows, query) = SelectSeq(QueryFlows, LAMBDA f : Says(input.tree, f) /\ Says(input.also, f))

------------------------------------------------------------------------------
(* Exposure: values of three levels on the surfaces a body may carry them.   *)

E == INSTANCE Exposure WITH MAX_ITEMS_PER_ARRAY <- 2, MAX_WALKED_NODES <- 5, MAX_ROWS <- 2

ExposureCfg == [excluded |-> {"legacy"}, extra |-> {"sotaikhoan"}, oversized |-> 100, mass_entities |-> 1]
KeyNames == "password" :> {"password"} @@ "answerToken" :> {"answer", "token"} @@ "isPrivate" :> {"private"}
            @@ "legacyAnswer" :> {"legacy", "answer"} @@ "so_tai_khoan" :> {} @@ "child" :> {}
ExposureKeys == [k \in DOMAIN KeyNames |->
                   [holds |-> KeyNames[k], ends |-> {},
                    compact |-> IF k = "so_tai_khoan" THEN {"sotaikhoan"} ELSE {}]]

Object(k, v)  == [kind |-> "object", fields |-> << [key |-> k, val |-> v] >>]
Array(items)  == [kind |-> "array", items |-> items]
Meant         == [kind |-> "string", is |-> {"meaningful"}]
Objects0 == {Object("password", Meant), Object("answerToken", Meant), Object("legacyAnswer", Meant),
             Object("so_tai_khoan", Meant), Object("isPrivate", [kind |-> "bool"])}
Values1  == {Object("child", o) : o \in Objects0} \cup {Array(<<o>>) : o \in Objects0}
            \cup {Array(<<Array(<<>>), o>>) : o \in Objects0}
Values2  == {Array(<<v, o>>) : v \in Values1, o \in Objects0} \cup {Object("child", v) : v \in Values1}
            \cup {Array(<<o, Array(<<v>>)>>) : v \in Values1, o \in Objects0}
            \cup {Array(<<v, v, o>>) : v \in Values1, o \in Objects0}
ExposureValues == Objects0 \cup Values1 \cup Values2

\* A body that carries the value v on a surface.
ExposureBody(v, surface, text) ==
  [kind |-> IF surface = "json" THEN "data" ELSE surface, size |-> 10, pages |-> {}, chunks |-> <<{}>>,
   text |-> text \cup (IF surface = "json" THEN {"is_json"} ELSE {}),
   values |-> IF surface = "json" THEN <<v>> ELSE <<>>,
   pushes |-> IF surface = "html" THEN << <<[kind |-> "unparsed"], v>> >> ELSE <<>>,
   rows   |-> IF surface = "x-component" THEN <<[kind |-> "unparsed"], v>> ELSE <<>>]

Children(v) == CASE E!IsArray(v) -> v.items
                 [] E!IsObject(v) -> [i \in DOMAIN v.fields |-> v.fields[i].val]
                 [] OTHER -> <<>>
RECURSIVE Within(_)
Within(v) == {v} \cup UNION {Within(Children(v)[i]) : i \in DOMAIN Children(v)}
RECURSIVE Size(_)
Size(v) == IF E!Nested(v) THEN LET c == Children(v) IN
             1 + (IF c = <<>> THEN 0 ELSE Size(c[1]) + (IF Len(c) > 1 THEN Size(c[2]) ELSE 0)) ELSE 0

\* The groups by name, highest claim first.
ExpectedGroup(k) == CASE k = "password" -> "credential" [] k = "answerToken" -> "token"
                      [] k = "so_tai_khoan" -> "custom" [] OTHER -> "none"

\* Every object of a body within the bounds of the walk has its say, however deep it lies and
\* on whichever surface the body carries it, nothing is found that no object says, excluded
\* keys stay silent, and a body with exposed values never passes as unsuspicious.
\* (crates/analysis/src/overfetching.rs, sensitive_taxonomy.rs)
ObjectsSay(v, out) ==
    LET inside == Within(v)
        keys   == {o.fields[1].key : o \in {n \in inside : n.kind = "object"}}
        found  == {k \in keys : \E s \in out.signals : s[2] = k /\ s[1] = "sensitive_field:" \o ExpectedGroup(k)}
        said   == {k \in keys : ExpectedGroup(k) # "none"}
        whole  == Size(v) <= 5 /\ \A n \in inside : n.kind = "array" => Len(n.items) <= 2
    IN  /\ found \subseteq said
        /\ whole => found = said
        /\ \A s \in out.signals : s[2] # "legacyAnswer"
        /\ whole => out.passwords = keys \cap {"password", "so_tai_khoan"}
        /\ out.passwords # {} => out.is_suspicious
        /\ (\E n \in inside : n.kind = "array" /\ Cardinality({i \in DOMAIN n.items : E!IsObject(n.items[i])}) > 1)
             /\ whole => <<"mass_exposure", "">> \in out.signals

ValuesSeen ==
  ObjectsSay(input.value,
             E!analyze_with_config(ExposureBody(input.value, input.surface, input.text), ExposureKeys, ExposureCfg))

(* Texts: arrays of strings with what follows them, entities, and card numbers. *)

Literals   == UNION {[1..n -> {"]", "[", "\"", "\\", "&", "<", "lt;"}] : n \in 0..2}
TextInputs == [part : {"text"}, one : Literals, two : Literals]
CardInputs == [part : {"card"}, len : 12..20, seed : 1..9, change : 1..9]

\* A string literal, its quotes and backslashes escaped.
Quoted(s)  == <<"\"">> \o FlattenSeq([i \in DOMAIN s |-> IF s[i] \in {"\"", "\\"} THEN <<"\\", s[i]>> ELSE <<s[i]>>]) \o <<"\"">>
Encoded(s) == FlattenSeq([i \in DOMAIN s |-> CASE s[i] = "&" -> <<"&", "amp;">> [] s[i] = "<" -> <<"&", "lt;">>
                                               [] s[i] = "\"" -> <<"&", "quot;">> [] OTHER -> <<s[i]>>])

\* The end of a push is found whatever its strings hold and whatever comes after it, and
\* what was put into entities once comes out of them once.
\* (overfetching.rs, rsc_chunks.rs)
TextsRead(one, two) ==
  LET array == <<"[">> \o Quoted(one) \o <<"[">> \o Quoted(two) \o <<"]", "]">> IN
  /\ E!balanced_bracket_end(<<"x">> \o array \o two, 2) = Len(array) + 2
  /\ E!balanced_bracket_end(Front(array), 1) = 0
  /\ E!html_decode(Encoded(one \o two)) = one \o two

\* One last digit makes a card number valid, any other digit in its place makes it invalid
\* again, and so does a change of one digit elsewhere.  (sensitive_taxonomy.rs)
CardsChecked(len, seed, change) ==
  LET card(d) == [i \in 1..len |-> IF i = len THEN d ELSE (i * seed) % 10]
      valid   == {d \in 0..9 : E!luhn_valid(card(d))} IN
  IF len \in 13..19
  THEN /\ Cardinality(valid) = 1
       /\ \A d \in valid, i \in 1..len : ~E!luhn_valid([card(d) EXCEPT ![i] = (@ + change) % 10])
  ELSE valid = {}

ExposureSeen ==
  /\ input.part = "exposure" => ValuesSeen
  /\ input.part = "text" => TextsRead(input.one, input.two)
  /\ input.part = "card" => CardsChecked(input.len, input.seed, input.change)

------------------------------------------------------------------------------
(* What depends on what: three flows that hand out and use two tokens.        *)

G == INSTANCE FlowAnalysis

Tokens == {"t1", "t2"}
FlowRole == [gives : {{}} \cup {{t} : t \in Tokens}, uses : {{}} \cup {{t} : t \in Tokens}]
NoTokens == [jwts |-> {}, json |-> <<>>]

\* The i-th flow hands its tokens out in its own way.
RoledFlow(i, r, print, time) ==
  LET field(t) == [key |-> "token", value |-> t, long |-> TRUE] IN
  [id |-> i, print |-> print, key |-> print, noise |-> FALSE, uses |-> r.uses, time |-> time,
   body    |-> IF i = 1 THEN [NoTokens EXCEPT !.jwts = r.gives]
               ELSE IF i = 2 THEN [NoTokens EXCEPT !.json = SetToSeq({field(t) : t \in r.gives})] ELSE NoTokens,
   headers |-> {}, cookies |-> IF i = 3 THEN {field(t) : t \in r.gives} ELSE {}]
RoledFlows(in) ==
  << RoledFlow(1, in.roles[1], in.prints[1], in.times[1]), RoledFlow(2, in.roles[2], in.prints[2], in.times[2]),
     RoledFlow(3, in.roles[3], in.prints[3], in.times[3]) >>
GraphInputs == [part : {"graph"}, roles : [1..3 -> FlowRole], prints : {<<1, 2, 3>>, <<3, 1, 2>>, <<1, 2, 1>>},
                times : {<<1, 2, 3>>, <<2, 1, 1>>}]

\* The edges of paths of any length.
RECURSIVE Reach(_)
Reach(edges) ==
  LET more == edges \cup {<<e[1], f[2]>> : <<e, f>> \in {p \in edges \X edges : p[1][2] = p[2][1]}} IN
  IF more = edges THEN edges ELSE Reach(more)

\* A request comes behind every request whose token it uses unless a cycle leads to it, no kind
\* of request is left out, those a cycle holds up stand at the end, and the order in which
\* requests without a double were captured does not matter.  (flow_sequencer.rs, dependency_mapper.rs)
SequenceRight(flows) ==
  LET graph  == G!build_graph(flows)
      result == G!topological_sort(flows, graph).flows
      prints == [k \in DOMAIN result |-> result[k].print]
      behind == {p \in G!Prints(flows) : \E q \in G!Prints(flows) : <<q, q>> \in Reach(graph)
                                                                 /\ (p = q \/ <<q, p>> \in Reach(graph))}
      place(p) == CHOOSE k \in DOMAIN prints : prints[k] = p
  IN  /\ {prints[k] : k \in DOMAIN prints} = G!Prints(flows)
      /\ \A p \in behind, q \in G!Prints(flows) \ behind : place(q) < place(p)
      /\ \A e \in graph : e[2] \notin behind => place(e[1]) < place(e[2])
      /\ Cardinality(G!Prints(flows)) = 3 =>
           LET turned == <<flows[3], flows[1], flows[2]>>
               other  == G!topological_sort(turned, G!build_graph(turned)).flows
           IN  \A k \in 1..(3 - Cardinality(behind)) : other[k] = result[k]

\* Every flow is on the timeline once; a parent is an earlier flow, which handed out a token the
\* flow uses if any earlier flow did; children and parents are two views of the same edges.
\* (flow_graph.rs)
TimelineRight(flows) ==
  LET nodes == G!build_timeline_graph(flows)
      flow(n) == CHOOSE f \in {flows[i] : i \in DOMAIN flows} : f.id = n.id
      linked(a, b) == G!extract_from_flow(flow(a)) \cap flow(b).uses # {}
  IN  /\ {n.id : n \in {nodes[k] : k \in DOMAIN nodes}} = {1, 2, 3} /\ Len(nodes) = 3
      /\ \A j, k \in DOMAIN nodes :
           /\ nodes[j].id \in nodes[k].parents =>
                /\ j < k /\ flow(nodes[j]).time <= flow(nodes[k]).time
                /\ (\E i \in 1..(k - 1) : linked(nodes[i], nodes[k])) => linked(nodes[j], nodes[k])
           /\ nodes[j].id \in nodes[k].parents <=> nodes[k].id \in nodes[j].children
           /\ k > 1 => nodes[k].parents # {}

\* The counts of the requests that are kept add up to all that are no noise.  (noise.rs)
CountsRight(flows) ==
  LET counted == G!filter_with_counts([flows EXCEPT ![2].noise = (flows[1].print = 3)]) IN
  /\ \A j, k \in DOMAIN counted : counted[j][1].key = counted[k][1].key => j = k
  /\ LET sum[k \in 0..Len(counted)] == IF k = 0 THEN 0 ELSE counted[k][2] + sum[k - 1]
     IN  sum[Len(counted)] = IF flows[1].print = 3 THEN 2 ELSE 3

DependenciesRight ==
  input.part = "graph" => LET flows == RoledFlows(input) IN
                          SequenceRight(flows) /\ TimelineRight(flows) /\ CountsRight(flows)

------------------------------------------------------------------------------
(* What a mutation changes, of a flow with a JSON body.                       *)

M == INSTANCE Mutations

Payload == "V"
Fields2(k, v, l, w) == [kind |-> "object", fields |-> << <<k, v>>, <<l, w>> >>]
Listing(seq)          == [kind |-> "array", items |-> seq]
Key1 == <<"k">>
Key2 == <<"l">>
Dotted == <<"k", "l">>
Scalars == {M!Text("1"), M!Text("v")}
JsonObjects == {Fields2(k, v, Key2, w) : k \in {Key1, Dotted}, v \in Scalars, w \in Scalars}
JsonBodies ==
  {M!None} \cup JsonObjects
  \cup {Fields2(Key1, o, Key2, v) : o \in JsonObjects \cup {Listing(<<p>>) : p \in JsonObjects}, v \in Scalars}
  \cup {Fields2(Key2, Listing(<<M!Text("1"), Listing(<<o, p>>)>>), Key1, p) : o \in JsonObjects, p \in JsonObjects}
MutationInputs ==
  [part : {"mutation"}, body : JsonBodies,
   path : {<< <<"api">> >>, << <<"api">>, <<"1">> >>, << <<"1">>, <<"2", "1">> >>, << <<"2">>, <<"1">>, <<"v", "1">> >>},
   query : {<<>>, << <<"k", "1">>, <<"l", "v">> >>, << <<"k", "1">>, <<"k", "v">> >>},
   headers : {<<>>, << <<"cookie", "a">>, <<"content-type", "json">>, <<"authorization", "b">> >>}]

RECURSIVE HasDotted(_)
HasDotted(v) ==
  CASE v.kind = "object" -> \E j \in DOMAIN v.fields : Len(v.fields[j][1]) > 1 \/ HasDotted(v.fields[j][2])
    [] v.kind = "array"  -> \E j \in DOMAIN v.items : HasDotted(v.items[j])
    [] OTHER -> FALSE

\* Where a mutation is known to miss its parameter: the first of two parameters of one name is
\* hit, a key with a dot is taken for a path, and a number stands wherever its digits do.
Ambiguous(flow, params, p) ==
  \/ Cardinality({k \in DOMAIN params : params[k].location = p.location /\ params[k].name = p.name}) > 1
  \/ p.location = "body_json" /\ HasDotted(flow.body)
  \/ /\ p.location = "path"
     /\ \E j \in DOMAIN flow.path : flow.path[j] # p.sample /\ p.sample \in SubSeqs(flow.path[j])

\* A mutation puts its payload in the place of one parameter and leaves every other parameter,
\* and the parts of the request it is not in, as they were; and when the limit leaves room for
\* all payloads, every parameter is tried with every payload of every skill.
\* (crates/scanner/src/mutation_engine.rs, crates/analysis/src/param_analyzer.rs)
MutationHits(flow) ==
  LET params == M!analyze_flow(flow)
      skills == <<"sqli", "xss">>
      payloads == [s \in {"sqli", "xss"} |-> IF s = "sqli" THEN <<"V", "W">> ELSE <<"V">>]
      every  == {<<p, s, v>> \in (DOMAIN params) \X {"sqli", "xss"} \X {"V", "W"} : v = "V" \/ s = "sqli"}
  IN  /\ \A k \in DOMAIN params :
           LET p     == params[k]
               sent  == M!mutate(flow, p, Payload)
               now   == ToSet(M!analyze_flow(sent))
               moved == [p EXCEPT !.sample = Payload]
           IN  /\ ~Ambiguous(flow, params, p) =>
                    IF p.location # "path" THEN now = (ToSet(params) \ {p}) \cup {moved}
                    ELSE /\ now = ToSet(params) \ {p}
                         /\ sent.path = [j \in DOMAIN flow.path |->
                                           IF flow.path[j] = p.sample THEN <<Payload>> ELSE flow.path[j]]
               /\ p.location # "query" => sent.query = flow.query
               /\ p.location # "body_json" => sent.body = flow.body
               /\ p.location # "path" => sent.path = flow.path
               /\ p.location \in {"query", "path"} => sent.headers = flow.headers
      /\ ToSet(M!mutations_for(params, skills, payloads, 3)) = every
      /\ \A limit \in 0..2 : LET some == M!mutations_for(params, skills, payloads, limit) IN
           ToSet(some) \subseteq every /\ Cardinality(ToSet(some)) = Len(some)

------------------------------------------------------------------------------
(* Security tests: what is sent, and what the answer is taken for.            *)

V == INSTANCE SecurityVerdict

Locations == [at : {"", "query", "body", "path", "header", "cookie"}, name : {M!NoName, "", "k"}]
TargetInputs ==
  [part : {"target"}, flaw : {"xss", "idor", "open_redirect"}, payload : {"", "V"}, is_json : BOOLEAN, location : Locations,
   path : {<< <<>> >>, << <<"api">> >>, << <<"api">>, <<"1">>, <<>> >>, << <<"api">>, <<"redirect">> >>},
   query : {<<>>, << <<"k", "1">> >>, << <<"k", "callbackUrl">> >>}]

\* The payload of a test is in its request once, in the place the test names if the name is of
\* a form the executor knows and in the query otherwise, and nothing else of the target changes
\* with it; without a payload the target alone changes, by a parameter more or in its one last
\* value, and no second redirect is added.  Nothing is asked of a payload for the path when the
\* path has no segment.  (executor.rs mutate_target)
TargetHits(test) ==
  LET sent   == M!mutate_target(test)
      loc    == test.location
      full   == IF loc.name = M!NoName THEN loc.at \in {"query", "body", "path"} ELSE loc.at \in {"query", "body", "header", "cookie"}
      place  == IF full THEN loc.at ELSE "query"
      holds(seq) == Cardinality({k \in DOMAIN seq : Last(seq[k]) = Payload})
      held   == [query |-> holds(sent.query), path |-> holds(SelectSeq(sent.path, LAMBDA s : s # <<>>)),
                 body |-> Cardinality({k \in DOMAIN sent.body : sent.body[k] = Payload}),
                 header |-> holds(SelectSeq(sent.headers, LAMBDA h : h[1] # "cookie")),
                 cookie |-> holds(SelectSeq(sent.headers, LAMBDA h : h[1] = "cookie"))]
  IN  (test.payload = "" \/ place # "path" \/ \E j \in DOMAIN test.path : test.path[j] # <<>>) =>
        /\ \A p \in DOMAIN held : held[p] = IF test.payload # "" /\ p = place THEN 1 ELSE 0
        /\ IF test.payload = ""
           THEN /\ sent.headers = <<>> /\ sent.body = <<>>
                /\ test.flaw = "idor" => (sent.path = test.path) = (sent.query # test.query) /\ Len(sent.query) = Len(test.query)
                /\ test.flaw # "idor" => sent.path = test.path /\ IsPrefix(test.query, sent.query)
                /\ test.flaw = "open_redirect" => M!redirects([test EXCEPT !.path = sent.path, !.query = sent.query])
                /\ M!redirects(test) /\ test.flaw = "open_redirect" => sent.query = test.query
           ELSE /\ place # "path" => sent.path = test.path
                /\ place = "query" => sent.query = Append(test.query, Last(sent.query))
                /\ place # "query" => sent.query = test.query
                /\ place = "path" => IsPrefix(Front(sent.path), test.path)

Facts == {"token", "secret", "is_json", "markup", "redirect", "reflected"}
VerdictInputs ==
  [part : {"verdict"}, flaw : {"jwt_exposure", "idor", "xss", "csrf", "open_redirect", "auth_bypass", "rate_limit", "sqli"},
   path_facts : {{}, {"_rsc"}, {"login"}}, status : {200, 401, 500}, facts : SUBSET Facts,
   oracle : [status : {0, 200}, contains : {"", "token"}]]

\* A test that got no answer, whatever its oracle asks, neither passes nor reports; a leak in the
\* answer to a test of an object or of a form is reported, whatever the oracle says; a test that
\* passed is not a potential finding as well; and more found in an answer to a mutation never
\* lowers what it is taken for.
\* (executor.rs:734-800)
VerdictsGrounded(t, status, facts) ==
  LET unanswered == [status |-> 0, facts |-> {}, error |-> TRUE]
      r == [status |-> status, facts |-> facts, error |-> FALSE] IN
  /\ ~V!passed(t, unanswered) /\ V!finding(t, unanswered) = "none"
  /\ t.flaw \in {"idor", "csrf"} /\ "secret" \in facts => V!finding(t, r) # "none"
  /\ V!passed(t, r) => ~V!potential(t, r)
  /\ \A less \in SUBSET facts :
       LET rank(s) == CASE s = "High" -> 2 [] s = "Warning" -> 1 [] OTHER -> 0
           of(found) == rank(M!classify(t.flaw, [status |-> status, facts |-> found]))
       IN  of(less) <= of(facts)

\* Whether a plan may run does not depend on the order of its tests, no id of a plan that may
\* run is there twice, and what is only doubtful keeps no plan from running.  (validator.rs)
PlansValidated(t) ==
  LET test(id, path, severity) ==
        [id |-> id, flaw |-> t.flaw, method |-> "GET", path |-> path, payload |-> "", severity |-> severity,
         path_facts |-> IF path = "api" THEN {} ELSE {"absolute"}, oracle |-> t.oracle]
      tests == {test(id, path, "Sure") : id \in {"a", "b", ""}, path \in {"/api", "api"}}
      valid(plan) == V!validate_plan([base_url |-> "http", tests |-> plan], 2).errors = {}
  IN  \A x, y \in tests :
        /\ valid(<<x, y>>) <=> valid(<<y, x>>)
        /\ valid(<<x, y>>) <=> valid(<<x>>) /\ valid(<<y>>) /\ x.id # y.id
        /\ ~valid(<<x, y, x>>) /\ ~valid(<<>>)

------------------------------------------------------------------------------
(* The rules of the user and the scope.                                       *)

R == INSTANCE RequestRules

Always   == [on |-> "always"]
IfHeader == [on |-> "header", header |-> "h", pattern |-> {"1"}]
Set(h, v) == [do |-> "set_header", header |-> h, value |-> v]
RuleOf(name, c, a) == [name |-> name, direction |-> "request", condition |-> c, action |-> a]
BodyTo(p, v) == [do |-> "replace_body", pattern |-> p, value |-> v]
UserRules ==
  { RuleOf("set", Always, Set("h", "1")), RuleOf("chain", IfHeader, Set("g", "2")),
    RuleOf("unset", IfHeader, [do |-> "remove_header", header |-> "h"]),
    RuleOf("broken", Always, Set("bad", "1")), RuleOf("nothing", [on |-> "path", pattern |-> {"bad", "/"}], Set("h", "3")),
    [RuleOf("back", Always, Set("g", "9")) EXCEPT !.direction = "response"],
    RuleOf("mask", [on |-> "body", pattern |-> {"b1"}], BodyTo({"b1"}, "b2")), RuleOf("again", Always, BodyTo({"b2"}, "b3")),
    RuleOf("moved", Always, [do |-> "replace_url", pattern |-> {"u1"}, value |-> "u2"]) }
RuleInputs  == [part : {"rules"}, first : UserRules, then : UserRules, last : UserRules]
ScopeInputs == [part : {"scope"}, include_hosts : SUBSET {{"h1"}, {"h1", "h2"}}, exclude_hosts : SUBSET {{"h1"}, {"h2"}},
                include_paths : SUBSET {{"/a"}}, exclude_paths : SUBSET {{"/b"}}]

\* Rules act one after the other, each on what the rules before it left; a rule that does not
\* compile or is for the other direction changes nothing, and one that is taken out again
\* leaves no trace.  (match_replace.rs)
RulesCompose(first, then, last) ==
  LET rules == <<first, then, last>>
      plain == "g" :> <<"0">> @@ "h" :> <<"0", "1">> @@ "bad" :> <<>>
      heads(rs, h) == R!apply_to_headers(rs, "request", h, "/", "b1")
      bodies(rs, b) == R!apply_to_body(rs, "request", plain, "/", b)
      none  == {"broken", "nothing", "back"}
      live  == SelectSeq(rules, LAMBDA r : r.name \notin none)
  IN  /\ heads(rules, plain) = heads(<<last>>, heads(<<then>>, heads(<<first>>, plain)))
      /\ bodies(rules, "b1") = bodies(<<last>>, bodies(<<then>>, bodies(<<first>>, "b1")))
      /\ heads(live, plain) = heads(rules, plain) /\ bodies(live, "b1") = bodies(rules, "b1")
      /\ \A h \in {"g", "h"} : heads(rules, plain)[h] # plain[h] => Len(heads(rules, plain)[h]) <= 1
      /\ last \notin {first, then} => R!remove_rule(R!add_rule(<<first, then>>, last), last.name) = <<first, then>>
      /\ R!apply_to_url(rules, "u1", plain, "/", "b1") = (IF "moved" \in {first.name, then.name, last.name} THEN "u2" ELSE "u1")

\* The scope is monotone: a pattern more to exclude captures nothing new, and so does a pattern
\* less to include as long as one is left.  (scope.rs)
ScopeMonotone(scope) ==
  LET captured(s) == {t \in {"h1", "h2", "h3"} \X {"/a", "/b", "/c"} : R!should_capture(s, t[1], t[2])} IN
  /\ R!scope_filter([f \in (DOMAIN scope) \ {"part"} |-> scope[f]])
  /\ captured([scope EXCEPT !.exclude_hosts = @ \cup {{"h3"}}]) = {t \in captured(scope) : t[1] # "h3"}
  /\ \A p \in scope.include_hosts : scope.include_hosts # {p} =>
       captured([scope EXCEPT !.include_hosts = @ \ {p}]) \subseteq captured(scope)

------------------------------------------------------------------------------
(* From the bytes of an exchange to the flow that is kept of it.              *)

H == INSTANCE HttpCodec

Header(n, v)  == [is |-> "header", name |-> n, value |-> v]
Length(v)     == Header("content-length", v)
RawBytes         == {[is |-> "byte"], H!Eol}
Seqs(S, from, to) == UNION {[1..n -> S] : n \in from..to}
MessageInputs == [part : {"message"}, rest : Seqs(RawBytes, 0, 3),
                  headers : Seqs({Length(H!None), Length(H!Some(1)), Length(H!Some(2)), Header("x", H!None)}, 0, 2)]
ChunkInputs   == [part : {"chunks"}, chunks : Seqs(Seqs(RawBytes, 1, 2), 0, 3)]

Cookie(n, v)  == [name |-> n, value |-> v]
CookieLines   == {<<Cookie("a", H!Some("1"))>>, <<Cookie("a", H!None)>>, <<Cookie("a", H!Some("2")), Cookie("b", H!None)>>}
CaptureInputs ==
  [part : {"capture"}, request : Seqs({Header("cookie", l) : l \in CookieLines} \cup {Header("x", <<>>)}, 0, 2),
   response : Seqs({Header("set-cookie", SubSeq(l, 1, 1)) : l \in CookieLines} \cup {Header("x", <<>>)}, 0, 1),
   encoding : {"gzip", "zstd"}, plain : Seqs({"p"}, 0, 4), whole : BOOLEAN, max : 1..3]

\* A message is read once it is complete, not before, and the same whatever follows it.
MessageRead(headers, rest) ==
  LET head == <<[is |-> "start"], H!Eol>> \o FlattenSeq([i \in DOMAIN headers |-> <<headers[i], H!Eol>>]) \o <<H!Eol>>
      own  == H!content_length(headers)
      all  == head \o rest
      read == H!parse_request(all) IN
  /\ read.some <=> Len(rest) >= own
  /\ read.some => /\ read.is.headers = headers /\ read.is.consumed = Len(head) + own
                  /\ read.is.body = IF own = 0 THEN H!None ELSE H!Some(SubSeq(rest, 1, own))
  /\ \A n \in 0..Len(all) : H!parse_request(SubSeq(all, 1, n)) = IF n < Len(head) + own THEN H!None ELSE read

\* Chunks are put together to what was sent, whatever it holds; an answer that breaks off gives
\* the first part of it or nothing.
ChunksRead(chunks) ==
  LET framed(c) == <<[is |-> "size", n |-> Len(c)], H!Eol>> \o c \o <<H!Eol>>
      bytes == FlattenSeq([i \in DOMAIN chunks |-> framed(chunks[i])]) \o framed(<<>>)
      head  == <<[is |-> "start"], H!Eol, Header("transfer-encoding", "chunked"), H!Eol, H!Eol>> IN
  /\ \A after \in Seqs(RawBytes, 0, 1) : H!parse_response(head \o bytes \o after).is.body = H!Some(FlattenSeq(chunks))
  /\ \A n \in 0..Len(bytes) : LET got == H!decode_chunked(SubSeq(bytes, 1, n)) IN
                              got.some => IsPrefix(got.is, FlattenSeq(chunks))

\* A flow keeps at most the first `max` bytes of a body, unpacked where that is known and works,
\* every value of every header, and a value for each cookie that has one.
CaptureKeeps(c) ==
  LET raw  == <<"r", "r">>
      body == [raw |-> raw, plain |-> c.plain, whole |-> c.whole, text |-> {s \in Seqs({"p", "r"}, 0, 3) : Len(s) # 1}]
      headers == Append(c.response, Header("content-encoding", c.encoding))
      flow == H!capture(c.request, headers, H!Some(body), c.max)
      kept == flow.response_body.is.bytes
      values(map, h) == IF h.name \in DOMAIN map THEN ToSet(map[h.name]) ELSE {}
  IN  /\ Len(kept) <= c.max /\ (IsPrefix(kept, raw) \/ IsPrefix(kept, c.plain))
      /\ c.encoding = "zstd" \/ (~c.whole /\ Len(c.plain) <= c.max) => IsPrefix(kept, raw)
      /\ c.encoding = "gzip" /\ c.whole => kept = SubSeq(c.plain, 1, IF Len(c.plain) < c.max THEN Len(c.plain) ELSE c.max)
      /\ flow.response_body.is.dump <=> Len(kept) = 1
      /\ DOMAIN flow.request_cookie_values = flow.request_cookies
      /\ DOMAIN flow.response_cookie_values \subseteq flow.response_cookies
      /\ \A i \in DOMAIN headers : headers[i].value \in values(flow.response_headers, headers[i])
      /\ \A i \in DOMAIN c.request : Len(flow.request_headers[c.request[i].name])
                                     = Cardinality({j \in DOMAIN c.request : c.request[j].name = c.request[i].name})

\* What goes over the wire is read and kept as it was sent.  (crates/proxy/src/http, flow.rs)
CodecReads ==
  /\ input.part = "message" => MessageRead(input.headers, input.rest)
  /\ input.part = "chunks" => ChunksRead(input.chunks)
  /\ input.part = "capture" => CaptureKeeps(input)

------------------------------------------------------------------------------
(* The lists and the site map that are made of the flows.                     *)

Y == INSTANCE History

\* Where each of three flows is, whose it is, and when it was.
HistoryInputs == [part : {"history"}, at : [1..3 -> {"table", "memory", "both", "none"}], session : [1..3 -> {"s1", "s2"}],
                  time : {<<1, 2, 3>>, <<1, 3, 2>>, <<2, 1, 3>>, <<2, 3, 1>>, <<3, 1, 2>>, <<3, 2, 1>>}]
SiteInputs == [part : {"site"}, path : [1..3 -> {<<>>, <<"a">>, <<"a", "b">>, <<"a", "", "b">>, <<"b">>}],
               scheme : [1..3 -> {"http", "https"}], host : [1..2 -> {"h", "g"}]]

ShownFlow(i, session, time) ==
  [id |-> i, session |-> session, time |-> time, duration |-> 7, method |-> <<"GET", "POST", "GET">>[i], status |-> 200,
   scheme |-> "http", host |-> "h", path |-> <<"a">>, query |-> FALSE, noise |-> FALSE, body |-> "full",
   len |-> 3, stored |-> 4, chars |-> 2]

\* The lists of all flows and of a session show a flow once, newest first, wherever it is kept,
\* and leave out only rows behind the limit; a flow that is stored is found by its id with its
\* body, and in the list of its session; the list for the analysis is in the order of time,
\* with the bodies of the flows that only the store has.
ListsComplete(at, session, time) ==
  LET flows   == [i \in 1..3 |-> ShownFlow(i, session[i], time[i])]
      table   == {flows[i] : i \in {j \in 1..3 : at[j] \in {"table", "both"}}}
      memory  == SelectSeq([i \in 1..3 |-> Y!strip_flow(flows[i])], LAMBDA f : at[f.id] \in {"memory", "both"})
      stored  == {f.id : f \in table}
      known   == {i \in 1..3 : at[i] # "none"}
      newer(f, g)   == f.time > g.time
      older(f, g)   == f.time < g.time
      sorted(s, Before(_, _)) == \A j, k \in DOMAIN s : j < k => Before(s[j], s[k])
      \* The rows of S behind the n newest of them.
      cut(S, n) == {f.id : f \in {g \in S : Cardinality({h \in S : newer(h, g)}) >= n}}
      any     == [session |-> "any", method |-> "", host |-> "", q |-> ""]
  IN  \A n \in 1..3 :
        LET shown == Y!list_flows(table, memory, any, n)
            full  == Y!full_flows_for_analysis(table, memory, n) IN
        /\ sorted(shown, newer) /\ Y!Ids(shown) = {i \in known : i \notin cut(table, n) \/ at[i] # "table"}
        /\ sorted(full, older) /\ Len(full) <= n
        /\ Cardinality(known) <= n => Y!Ids(full) = known
        /\ \A k \in DOMAIN full : at[full[k].id] = "table" => full[k].body = "full"
        /\ \A s \in {"s1", "s2"} :
             LET own  == {i \in known : session[i] = s}
                 list == Y!list_flows(table, memory, [any EXCEPT !.session = s], n)
                 whole == Y!flows_for_session(table, memory, s, n)
             IN  /\ sorted(list, newer)
                 /\ Y!Ids(list) = {i \in own : i \notin cut({f \in table : f.session = s}, n) \/ at[i] # "table"}
                 /\ sorted(whole, older) /\ Y!Ids(whole) \subseteq own
                 /\ Cardinality(own) <= n => Y!Ids(whole) = own
                 /\ \A k \in DOMAIN whole : whole[k].body = "full" <=> whole[k].id \in stored
        /\ \A i \in 1..3 : LET found == Y!flow_by_id(table, memory, i) IN
             /\ found # <<>> <=> i \in known
             /\ i \in stored => found[1].body = "full"
        /\ Y!flow_count(table, memory) <= Cardinality(known) /\ (stored = known => Y!flow_count(table, memory) = Cardinality(known))

RECURSIVE Nodes(_)
Nodes(S) == S \cup UNION {Nodes(n.children) : n \in S}

\* Every flow counts once in the site map, at the endpoint of its own path on its own site, with
\* its method; the sample of an endpoint is the newest flow of it; no directory is empty; an
\* annotation marks its own endpoint; and the flat list counts the same flows.
SiteMapRight(path, scheme, host) ==
  LET flows == [i \in 1..3 |-> [ShownFlow(i, "s1", 4 - i) EXCEPT !.path = path[i], !.scheme = scheme[i],
                                 !.host = IF i = 3 THEN "h" ELSE host[i], !.noise = (i = 3 /\ path[1] = <<"b">>)]]
      segments(f) == SelectSeq(f.path, LAMBDA s : s # "")
      seen  == {f \in ToSet(flows) : ~f.noise}
      note  == <<"http", "h", <<"a">> >>
      tree  == Y!sitemap(ToSet(flows), <<>>, "any", 3, {note})
      flat  == Y!flatten_sitemap_tree(tree)
      of(s, e) == {f \in seen : f.scheme = s.scheme /\ f.host = s.host /\ segments(f) = e.path}
  IN  /\ \A f \in seen : \E s \in tree : \E e \in Y!endpoints(s.children) : f \in of(s, e)
      /\ \A s, t \in tree : s.scheme = t.scheme /\ s.host = t.host => s = t
      /\ \A s \in tree : \A e \in Y!endpoints(s.children) :
           /\ e.acc.count = Cardinality(of(s, e)) /\ e.acc.count > 0
           /\ e.acc.methods = {f.method : f \in of(s, e)}
           /\ \E f \in of(s, e) : f.id = e.acc.sample_flow_id /\ \A g \in of(s, e) : g.time <= f.time
           /\ e.annotated <=> <<s.scheme, s.host, e.path>> = note
           /\ \A d \in Y!endpoints(s.children) : d.path = e.path => d = e
      /\ \A s \in tree : \A n \in Nodes(s.children) : n.kind = "dir" => n.children # {}
      /\ \A h \in DOMAIN flat :
           LET sum[k \in 0..Len(flat[h])] == IF k = 0 THEN 0 ELSE flat[h][k][2] + sum[k - 1]
           IN  sum[Len(flat[h])] = Cardinality({f \in seen : f.host = h})

\* The flows of memory and store make one history.  (backend.rs, sqlite.rs, serialization.rs)
HistoryTold ==
  /\ input.part = "history" => ListsComplete(input.at, input.session, input.time)
  /\ input.part = "site" => SiteMapRight(input.path, input.scheme, input.host)

\* The user is told of the flows what was captured: their bytes are read as they were sent,
\* every list shows each of them once, a query keeps those it describes, and the order that is
\* made of them respects what each depends on.
FlowsTold == CodecReads /\ HistoryTold /\ QuerySays /\ DependenciesRight

\* What is sent is what was meant: of a parameter, a test, and the rules of the user.
RequestsMeant ==
  /\ input.part = "mutation" => MutationHits(input)
  /\ input.part = "target" => TargetHits(input)
  /\ input.part = "verdict" => VerdictsGrounded(input, input.status, input.facts)
                                /\ (input.facts = {} => PlansValidated(input))
  /\ input.part = "rules" => RulesCompose(input.first, input.then, input.last)
  /\ input.part = "scope" => ScopeMonotone(input)

FnInit ==
  \/ input \in [part : {"query"}, tree : QueryTrees, also : Leaves]
  \/ input \in [part : {"exposure"}, value : ExposureValues, surface : {"json", "html", "x-component"},
                text : SUBSET {"embedded_large", "answer_key"}]
  \/ input \in TextInputs
  \/ input \in CardInputs
  \/ input \in GraphInputs
  \/ input \in MutationInputs
  \/ input \in TargetInputs
  \/ input \in VerdictInputs
  \/ input \in RuleInputs
  \/ input \in ScopeInputs
  \/ input \in MessageInputs
  \/ input \in ChunkInputs
  \/ input \in CaptureInputs
  \/ input \in HistoryInputs
  \/ input \in SiteInputs
===============================================================================
