----------------------------- MODULE QueryLanguage -----------------------------
(***************************************************************************)
(* crates/query: the HTTPQL filter over flows, from its text to the flows  *)
(* it keeps.  A line is a sequence of symbols: the signs of the language   *)
(* and words, whose spelling matters only where NumberOf gives a value.    *)
(* A flow is a function from the fields to values.                         *)
(***************************************************************************)
LOCAL INSTANCE Naturals
LOCAL INSTANCE Sequences
LOCAL INSTANCE SequencesExt
LOCAL INSTANCE TLC

Fields    == {"method", "path", "host", "resp.status", "req.body", "resp.body", "content-type"}
Operators == {">=", "<=", "!=", ">", "<", "="}

\* The words that are all digits; -1: more than an i64 holds.
NumberOf == "200" :> 200 @@ "404" :> 404 @@ "10000000000000000000" :> -1

\* The symbols that are one character of the text; a word is more than one.
Characters == {"a", "b"}

\* A value of a flow: [kind |-> "text", text |-> symbols], [kind |-> "number", n |-> ..]
\* or [kind |-> "null"].
Text(s)   == [kind |-> "text", text |-> s]
Number(n) == [kind |-> "number", n |-> n]

\* A condition is a record, `c` saying of which kind.
err == [c |-> "error"]

\* The parts of `line` between the signs `sep` that no parenthesis encloses.
split_top_level(line, sep) ==
  LET depth(i) == FoldLeft(LAMBDA d, t : CASE t = "(" -> d + 1 [] t = ")" -> d - 1 [] OTHER -> d,
                           0, SubSeq(line, 1, i))
      cuts == {i \in DOMAIN line : line[i] = sep /\ depth(i) = 0}
      at   == SetToSortSeq(cuts \cup {0, Len(line) + 1}, <)
  IN  [k \in 1..(Len(at) - 1) |-> SubSeq(line, at[k] + 1, at[k + 1] - 1)]

is_all_digits(value) == Len(value) = 1 /\ value[1] \in DOMAIN NumberOf

\* Regex::new on the pattern: "*" stands for any text and "?" for one character, and what else means something to a
\* regex is kept, so that "|" divides the pattern; without its closing parenthesis it is no
\* pattern at all.
regex(field, value) ==
  IF Len(SelectSeq(value, LAMBDA t : t = "(")) # Len(SelectSeq(value, LAMBDA t : t = ")"))
  THEN [c |-> "nomatch"] ELSE [c |-> "regex", field |-> field, pattern |-> value]

build_condition(field, value) ==
  LET wild == ToSet(value) \cap {"*", "?"} # {} IN
  CASE wild -> regex(field, value)
    [] ~wild /\ field = "path" -> [c |-> "contains", field |-> field, needle |-> value]
    [] OTHER -> [c |-> "=", field |-> field,
                 value |-> IF is_all_digits(value) /\ NumberOf[value[1]] >= 0
                           THEN Number(NumberOf[value[1]]) ELSE Text(value)]

apply_operator(field, op, value) ==
  IF is_all_digits(value)
  THEN IF NumberOf[value[1]] < 0 THEN err
       ELSE [c |-> op, field |-> field, value |-> Number(NumberOf[value[1]])]
  ELSE IF op \in {"=", "!="} THEN [c |-> op, field |-> field, value |-> Text(value)] ELSE err

\* field:value, field:op value; what stands behind the first colon is the value, signs and all.
parse_field_line(line) ==
  IF ~(Len(line) >= 2 /\ line[1] \in Fields /\ line[2] = ":") THEN err
  ELSE LET rest == SubSeq(line, 3, Len(line)) IN
       IF rest # <<>> /\ Head(rest) \in Operators
       THEN apply_operator(line[1], Head(rest), Tail(rest))
       ELSE build_condition(line[1], rest)

\* The alternatives of a split when each of them parses, and otherwise what `whole` says.
AllOr(c, parts, whole) ==
  IF Len(parts) > 1 /\ \A k \in DOMAIN parts : parts[k] # err THEN [c |-> c, of |-> parts] ELSE whole

RECURSIVE parse_line(_)

\* An atom in parentheses is a line of its own.
parse_atom(atom) ==
  CASE atom = <<>> -> err
    [] atom # <<>> /\ Head(atom) = "(" ->
         IF Len(atom) > 1 /\ Last(atom) = ")" THEN parse_line(SubSeq(atom, 2, Len(atom) - 1)) ELSE err
    [] OTHER -> parse_field_line(atom)

\* A line whose parts do not all parse is read as one atom.
parse_and(line) ==
  LET parts == split_top_level(line, "&") IN
  AllOr("and", [k \in DOMAIN parts |-> parse_atom(parts[k])], parse_atom(line))

parse_line(line) ==
  LET parts == split_top_level(line, "|") IN
  AllOr("or", [k \in DOMAIN parts |-> parse_and(parts[k])], parse_and(line))

\* parse: every line must parse and every line must match; empty lines and comments are passed over.
parse(lines) ==
  LET full == SelectSeq(lines, LAMBDA l : l # <<>> /\ Head(l) # "#")
      conditions == [k \in DOMAIN full |-> parse_line(full[k])]
  IN  IF \E k \in DOMAIN conditions : conditions[k] = err THEN err ELSE [c |-> "and", of |-> conditions]

compare_eq(value, expected) == value.kind = expected.kind /\ value = expected

compare_ordered(value, expected, less) ==
  /\ value.kind = "number" /\ expected.kind = "number"
  /\ IF less THEN value.n < expected.n ELSE value.n > expected.n

\* One alternative of a pattern on a text: "*" is any run of symbols and "?" one
\* character, and only the first alternative is bound to the start of the text and only the
\* last to its end.
RECURSIVE AtStart(_, _, _)
AtStart(pattern, text, bound) ==
  CASE pattern = <<>> -> ~bound \/ text = <<>>
    [] pattern # <<>> /\ Head(pattern) = "*" ->
         \E k \in 0..Len(text) : AtStart(Tail(pattern), SubSeq(text, k + 1, Len(text)), bound)
    [] OTHER -> /\ text # <<>>
                /\ IF Head(pattern) = "?" THEN Head(text) \in Characters ELSE Head(text) = Head(pattern)
                /\ AtStart(Tail(pattern), Tail(text), bound)

is_match(pattern, text) ==
  LET alts == split_top_level(pattern, "|") IN
  \E k \in DOMAIN alts : \E from \in 0..(IF k = 1 THEN 0 ELSE Len(text)) :
     AtStart(alts[k], SubSeq(text, from + 1, Len(text)), k = Len(alts))

RECURSIVE matches(_, _)
matches(cond, flow) ==
  CASE cond.c = "and" -> \A k \in DOMAIN cond.of : matches(cond.of[k], flow)
    [] cond.c = "or"  -> \E k \in DOMAIN cond.of : matches(cond.of[k], flow)
    [] cond.c = "nomatch" -> FALSE
    [] cond.c = "contains" -> /\ flow[cond.field].kind = "text"
                              /\ cond.needle \in SubSeqs(flow[cond.field].text)
    [] cond.c = "regex" -> LET v == flow[cond.field] IN
                           /\ v.kind # "number"
                           /\ is_match(cond.pattern, IF v.kind = "text" THEN v.text ELSE <<>>)
    [] cond.c = "="  -> compare_eq(flow[cond.field], cond.value)
    [] cond.c = "!=" -> ~compare_eq(flow[cond.field], cond.value)
    [] cond.c \in {">", ">="} -> \/ compare_ordered(flow[cond.field], cond.value, FALSE)
                                 \/ cond.c = ">=" /\ compare_eq(flow[cond.field], cond.value)
    [] cond.c \in {"<", "<="} -> \/ compare_ordered(flow[cond.field], cond.value, TRUE)
                                 \/ cond.c = "<=" /\ compare_eq(flow[cond.field], cond.value)

\* QueryExecutor::execute
execute(flows, cond) == SelectSeq(flows, LAMBDA f : matches(cond, f))
===============================================================================
