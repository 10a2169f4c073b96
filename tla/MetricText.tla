------------------------------- MODULE MetricText -------------------------------
(***************************************************************************)
(* metric.py: the expression of a metric is read from the json file by way of       *)
(* Python's own parser, simplified, and written for perf's parser; and expressions    *)
(* are rewritten in terms of other metrics.                                        *)
(*                                                                         *)
(* Numbers are integers, and / is division without remainder.  Of the operators, | is *)
(* simplified like +, / and & like -, and ^ like %, which has no form for a number on   *)
(* its left.  Python gives comparisons another precedence than perf beside | ^ and &,   *)
(* and reads a chain of them in another way; texts that mix or chain them are left out, *)
(* as are literals, the escapes in names and how a text is taken apart.             *)
(***************************************************************************)
EXTENDS Integers, Sequences, FiniteSets, SequencesExt

CONSTANTS
  Names,     \* of events
  Values,    \* that a count may have
  Texts,     \* what json files hold: sequences of tokens
  Metrics    \* sequences of metrics [name, expr], to be rewritten

VARIABLE st

-----------------------------------------------------------------------------
(* Expressions are trees [op, name, n, kids]; tokens are leaves and symbols.          *)
Event(name) == [op |-> "event", name |-> name, n |-> 0, kids |-> <<>>]
Constant(n) == [op |-> "constant", name |-> "", n |-> n, kids |-> <<>>]
Sym(s) == [op |-> "symbol", name |-> s, n |-> 0, kids |-> <<>>]
Node(op, kids) == [op |-> op, name |-> "", n |-> 0, kids |-> kids]
Raised == Node("raise", <<>>)

Operators == {"<", ">", "+", "-", "*", "%"}
Functions == {"min", "d_ratio"}
Precedence == [op \in Operators |-> CASE op \in {"<", ">"} -> 3 [] op \in {"*", "%"} -> 5 [] OTHER -> 4]
IsConstant(e) == e.op = "constant"

Apply(op, l, r) ==
  CASE op = "+" -> l + r
    [] op = "-" -> l - r
    [] op = "*" -> l * r
    [] op = "%" -> IF r = 0 THEN 0 ELSE l % r
    [] op = "<" -> IF l < r THEN 1 ELSE 0
    [] op = ">" -> IF l > r THEN 1 ELSE 0
    [] op = "min" -> IF l < r THEN l ELSE r
    [] op = "d_ratio" -> IF r = 0 THEN 0 ELSE l \div r

\* What perf computes for an expression, given the counts of the events.
RECURSIVE Value(_, _)
Value(e, counts) ==
  CASE e.op = "constant" -> e.n
    [] e.op = "event" -> counts[e.name]
    [] e.op = "if" -> IF Value(e.kids[2], counts) # 0 THEN Value(e.kids[1], counts)
                      ELSE Value(e.kids[3], counts)
    [] OTHER -> Apply(e.op, Value(e.kids[1], counts), Value(e.kids[2], counts))
-----------------------------------------------------------------------------
(* Reading.  Python computes what is constant as it reads; perf's parser is the       *)
(* reference.  A reader returns [e, rest].                                          *)
Made(op, kids) == IF Raised \in Range(kids) THEN Raised ELSE Node(op, kids)

\* A number on the left is for the method that the expression on the right has for that:
\* another comparison's, or none (TypeError).
Reflected(op, l, r) ==
  CASE op = "<" -> Made(">", <<r, l>>)
    [] op = ">" -> Made("<", <<r, l>>)
    [] op = "%" -> Raised
    [] OTHER -> Made(op, <<l, r>>)
Built(python, op, l, r) ==
  CASE ~python \/ ~IsConstant(l) -> Made(op, <<l, r>>)
    [] ~IsConstant(r) -> Reflected(op, l, r)
    [] op = "%" /\ r.n = 0 -> Raised
    [] OTHER -> Constant(Apply(op, l.n, r.n))

Is(tokens, s) == tokens # <<>> /\ Head(tokens) = Sym(s)
OperatorAt(tokens) == IF tokens # <<>> /\ Head(tokens).op = "symbol" /\ Head(tokens).name \in Operators
                      THEN {Head(tokens).name} ELSE {}

RECURSIVE ReadIf(_, _), ReadPrimary(_, _), ReadOn(_, _, _)
ReadFrom(python, tokens, least) == ReadOn(python, ReadPrimary(python, tokens), least)
ReadOn(python, got, least) ==
  IF \E op \in OperatorAt(got.rest) : Precedence[op] >= least
  THEN LET op == Head(got.rest).name
           r == ReadFrom(python, Tail(got.rest), Precedence[op] + 1)
       IN  ReadOn(python, [e |-> Built(python, op, got.e, r.e), rest |-> r.rest], least)
  ELSE got
ReadPrimary(python, tokens) ==
  LET first == Head(tokens)
  IN  IF first = Sym("(")
      THEN LET in == ReadIf(python, Tail(tokens)) IN [in EXCEPT !.rest = Tail(@)]
      ELSE IF first.op = "symbol"
      THEN LET l == ReadIf(python, SubSeq(tokens, 3, Len(tokens)))
               r == ReadIf(python, Tail(l.rest))
           IN  [e |-> Made(first.name, <<l.e, r.e>>), rest |-> Tail(r.rest)]
      ELSE [e |-> first, rest |-> Tail(tokens)]
ReadIf(python, tokens) ==
  LET t == ReadFrom(python, tokens, 0)
  IN  IF ~Is(t.rest, "if") THEN t
      ELSE LET c == ReadFrom(python, Tail(t.rest), 0)
               f == ReadIf(python, Tail(c.rest))
           IN  [e |-> Made("if", <<t.e, c.e, f.e>>), rest |-> f.rest]

ParsePerfJson(tokens) == ReadIf(TRUE, tokens).e
ReadByPerf(tokens) == ReadIf(FALSE, tokens).e
-----------------------------------------------------------------------------
(* Simplifying                                                               *)
\* Operator.Simplify, with what the two sides were before and are now.  Two constants
\* raise, as does the test of a factor that has become constant.
SimplifyOperator(e, l, r) ==
  LET zero(x) == IsConstant(x) /\ x.n = 0
      one(x) == IsConstant(x) /\ x.n = 1
  IN  CASE IsConstant(l) /\ IsConstant(r) -> Raised
        [] IsConstant(e.kids[1]) /\ e.op = "+" /\ zero(l) -> r
        [] IsConstant(e.kids[1]) /\ e.op = "*" /\ zero(l) /\ r # Event("slots") -> Constant(0)
        [] IsConstant(e.kids[1]) /\ e.op = "*" /\ one(l) -> r
        [] e.op = "+" /\ zero(r) -> l
        [] e.op = "*" /\ zero(r) -> Constant(0)
        [] e.op = "*" /\ IsConstant(r) /\ ~IsConstant(e.kids[2]) -> Raised
        [] e.op = "*" /\ IsConstant(r) /\ one(e.kids[2]) -> l
        [] OTHER -> Node(e.op, <<l, r>>)
SimplifySelect(t, c, f) ==
  IF IsConstant(c) THEN IF c.n = 0 THEN f ELSE t ELSE IF t = f THEN t ELSE Node("if", <<t, c, f>>)
SimplifyFunction(fn, l, r) ==
  IF ~IsConstant(l) \/ ~IsConstant(r) THEN Node(fn, <<l, r>>)
  ELSE IF fn = "d_ratio" /\ r.n = 0 THEN Constant(0) ELSE Raised

RECURSIVE Simplify(_)
Simplify(e) ==
  LET kids == [i \in DOMAIN e.kids |-> Simplify(e.kids[i])]
  IN  CASE Raised \in Range(kids) -> Raised
        [] e.kids = <<>> -> e
        [] e.op = "if" -> SimplifySelect(kids[1], kids[2], kids[3])
        [] e.op \in Functions -> SimplifyFunction(e.op, kids[1], kids[2])
        [] OTHER -> SimplifyOperator(e, kids[1], kids[2])
-----------------------------------------------------------------------------
(* Writing                                                                   *)
Bracket_NotRight(op, other, text, right) ==
  IF other.op \in Operators /\ Precedence[op] > Precedence[other.op]
  THEN <<Sym("(")>> \o text \o <<Sym(")")>> ELSE text
Bracket(op, other, text, right) ==
  IF /\ other.op \in Operators
     /\ \/ Precedence[op] > Precedence[other.op]
        \/ right /\ Precedence[op] = Precedence[other.op]
  THEN <<Sym("(")>> \o text \o <<Sym(")")>> ELSE text

RECURSIVE ToPerfJson(_)
ToPerfJson(e) ==
  LET text == [i \in DOMAIN e.kids |-> ToPerfJson(e.kids[i])]
  IN  CASE e.kids = <<>> -> <<e>>
        [] e.op = "if" -> <<Sym("(")>> \o text[1] \o <<Sym("if")>> \o text[2]
                            \o <<Sym("else")>> \o text[3] \o <<Sym(")")>>
        [] e.op \in Functions -> <<Sym(e.op), Sym("(")>> \o text[1] \o <<Sym(",")>>
                                   \o text[2] \o <<Sym(")")>>
        [] OTHER -> Bracket(e.op, e.kids[1], text[1], FALSE) \o <<Sym(e.op)>>
                      \o Bracket(e.op, e.kids[2], text[2], TRUE)
-----------------------------------------------------------------------------
(* Rewriting                                                                 *)
\* Substitute: leaves are never replaced.
RECURSIVE Substitute(_, _, _)
Substitute(e, name, expr) ==
  CASE e.kids = <<>> -> e
    [] e = expr -> Event(name)
    [] OTHER -> [e EXCEPT !.kids = [i \in DOMAIN @ |-> Substitute(@[i], name, expr)]]

\* One round of the loops for the metric at i, given the updates so far, where what is
\* not updated is the expression itself.
Inner(metrics, i) == SelectSeq([j \in DOMAIN metrics |-> j], LAMBDA j : metrics[j].name # metrics[i].name)
RewriteOnce(metrics, updates, i, from) ==
  FoldLeft(LAMBDA e, j : Substitute(e, metrics[j].name, updates[j]), from, Inner(metrics, i))
RECURSIVE Rewritten(_, _, _, _)
Rewritten(metrics, updates, i, from) ==
  LET to == RewriteOnce(metrics, updates, i, from)
  IN  IF to = metrics[i].expr \/ to = updates[i] THEN updates
      ELSE Rewritten(metrics, [updates EXCEPT ![i] = to], i, to)
RewriteMetricsInTermsOfOthers(metrics) ==
  FoldLeft(LAMBDA updates, i : Rewritten(metrics, updates, i, metrics[i].expr),
           [i \in DOMAIN metrics |-> metrics[i].expr], [i \in DOMAIN metrics |-> i])
-----------------------------------------------------------------------------
Init ==
  \/ \E text \in Texts : st = [phase |-> "text", text |-> text, tree |-> Raised, out |-> <<>>]
  \/ \E metrics \in Metrics : st = [phase |-> "metrics", text |-> metrics, tree |-> Raised, out |-> <<>>]

Parse ==
  /\ st.phase = "text"
  /\ LET e == ParsePerfJson(st.text)
     IN  st' = [st EXCEPT !.phase = IF e = Raised THEN "raised" ELSE "tree", !.tree = e]
Shorten ==
  /\ st.phase = "tree"
  /\ LET e == Simplify(st.tree)
     IN  st' = [st EXCEPT !.phase = IF e = Raised THEN "raised" ELSE "simple", !.tree = e]
Write == st.phase = "simple" /\ st' = [st EXCEPT !.phase = "written", !.out = ToPerfJson(st.tree)]
Rewrite ==
  /\ st.phase = "metrics"
  /\ st' = [st EXCEPT !.phase = "rewritten", !.out = RewriteMetricsInTermsOfOthers(st.text)]

Next == Parse \/ Shorten \/ Write \/ Rewrite
-----------------------------------------------------------------------------
(* Properties                                                                *)
TypeOK ==
  /\ st.phase \in {"text", "tree", "raised", "simple", "written", "metrics", "rewritten"}
  /\ st.phase \in {"tree", "simple", "written"} => st.tree # Raised

\* With the names of metrics replaced by what they stand for, to a depth that no metric
\* reaches unless it stands for itself.
RECURSIVE Expanded(_, _, _, _)
Expanded(metrics, exprs, e, depth) ==
  IF depth = 0 THEN Raised
  ELSE IF e.kids # <<>>
  THEN [e EXCEPT !.kids = [i \in DOMAIN @ |-> Expanded(metrics, exprs, @[i], depth)]]
  ELSE IF \E j \in DOMAIN metrics : e = Event(metrics[j].name)
  THEN Expanded(metrics, exprs, exprs[CHOOSE j \in DOMAIN metrics : e = Event(metrics[j].name)],
                depth - 1)
  ELSE e

\* The text that perf is given computes, read by perf, what the text of the json file
\* would, for all counts, also the zero times a slots event that asks for the event;
\* one is refused only if it has a choice, a function or a zero in it, or a number just
\* before a %; and a metric rewritten in terms of others stands for the same expression as
\* before, none for itself.
MetricsKept ==
  /\ st.phase = "written" =>
       \A counts \in [Names -> Values] :
         Value(ReadByPerf(st.out), counts) = Value(ReadByPerf(st.text), counts)
  /\ st.phase = "written" /\ ParsePerfJson(st.text) = Node("*", <<Constant(0), Event("slots")>>)
       => Event("slots") \in Range(st.out)
  /\ st.phase = "raised" =>
       \/ ({Sym(s) : s \in {"if"} \cup Functions} \cup {Constant(0)}) \cap Range(st.text) # {}
       \/ \E i \in 2..Len(st.text) : st.text[i] = Sym("%") /\ IsConstant(st.text[i - 1])
  /\ st.phase = "rewritten" =>
       LET metrics == st.text
           before == [j \in DOMAIN metrics |-> metrics[j].expr]
       IN  \A i \in DOMAIN metrics :
             Expanded(metrics, st.out, st.out[i], 9) = Expanded(metrics, before, before[i], 9)
=============================================================================
