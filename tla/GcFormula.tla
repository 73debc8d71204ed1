----------------------------- MODULE GcFormula -----------------------------
(***************************************************************************)
(* What the five one-sheet gridcalc engines share: the stored contents of  *)
(* a sheet, the formula language on syntax trees, and the naive full       *)
(* recomputation of the graders that every answer is to be equal to.       *)
(*                                                                         *)
(* Addresses are pairs << column, row >>; an address outside Grid is one a *)
(* formula can spell and no cell has.  A stored text is <<"int", n>>,      *)
(* <<"str", text>> or <<"=", node>>, and a node is one of                  *)
(*   <<"int", n>>  <<"ref", addr>>  <<"neg", node>>                        *)
(*   <<"bin", operator, node, node>>  <<"agg", function, corner, corner>>  *)
(*   <<"bad">>, a text that does not parse.                                *)
(***************************************************************************)
EXTENDS Integers, SequencesExt, FiniteSetsExt

CONSTANTS
    Grid,         \* the addresses of the sheet
    Texts(_),     \* what set() may store at an address
    Empty,        \* the cell was never set
    NoValue       \* the cell has no cached result

ASSUME GridAssumption == Grid \subseteq (Nat \X Nat)

VARIABLE cells

IsFormula(raw) == raw # Empty /\ raw[1] = "="

IntV(n) == <<"int", n>>
ErrV(code) == <<"err", code>>
IsErr(v) == v[1] = "err"
Markers == {"#PARSE!", "#REF!", "#TYPE!", "#DIV!", "#CYCLE!"}

\* What a cell that is no formula contributes to one.
Operand(raw) ==
    IF raw = Empty THEN IntV(0) ELSE IF raw[1] = "str" THEN ErrV("#TYPE!") ELSE raw

\* Row by row, from corner a to corner b.
RangeCells(a, b) ==
    LET w == b[1] - a[1] + 1
        h == b[2] - a[2] + 1
    IN [k \in 1 .. w * h |-> << a[1] + ((k - 1) % w), a[2] + ((k - 1) \div w) >>]

IsRange(a, b) == a \in Grid /\ b \in Grid /\ a[1] <= b[1] /\ a[2] <= b[2]

NonEmpty(a, b) == IntV(Len(SelectSeq(RangeCells(a, b), LAMBDA x : cells[x] # Empty)))

Magnitude(n) == IF n < 0 THEN - n ELSE n

Truncated(x, y) ==
    LET q == Magnitude(x) \div Magnitude(y) IN IF (x < 0) = (y < 0) THEN q ELSE - q

Truth(b) == IntV(IF b THEN 1 ELSE 0)

\* An operator of two integers.
Arith(op, v, w) ==
    LET x == v[2] y == w[2]
    IN CASE op = "+" -> IntV(x + y) [] op = "-" -> IntV(x - y) [] op = "*" -> IntV(x * y)
         [] op = "/" -> IF y = 0 THEN ErrV("#DIV!") ELSE IntV(Truncated(x, y))
         [] op = "=" -> Truth(x = y) [] op = "<>" -> Truth(x # y)
         [] op = "<" -> Truth(x < y) [] op = "<=" -> Truth(x <= y)
         [] op = ">" -> Truth(x > y) [] op = ">=" -> Truth(x >= y)

\* A function of the integers of a range.
Aggregate(f, vals) ==
    LET ns == {v[2] : v \in ToSet(vals)}
    IN CASE f = "SUM" -> IntV(FoldLeft(LAMBDA t, v : t + v[2], 0, vals))
         [] f \in {"MIN", "MAX"} /\ vals = << >> -> ErrV("#TYPE!")
         [] f = "MIN" /\ vals # << >> -> IntV(Min(ns))
         [] f = "MAX" /\ vals # << >> -> IntV(Max(ns))

----------------------------------------------------------------------------
\* What a formula refers to

RECURSIVE Leaves(_)
Leaves(node) ==
    CASE node[1] = "neg" -> Leaves(node[2])
      [] node[1] = "bin" -> Leaves(node[3]) \cup Leaves(node[4])
      [] OTHER -> {node}

Members(leaf) ==
    CASE leaf[1] = "ref" -> {leaf[2]} \cap Grid
      [] leaf[1] = "agg" /\ IsRange(leaf[3], leaf[4]) -> ToSet(RangeCells(leaf[3], leaf[4]))
      [] OTHER -> {}

Mentioned(raw) == IF IsFormula(raw) THEN UNION {Members(l) : l \in Leaves(raw[2])} ELSE {}

RECURSIVE Grown(_, _)
Grown(c, S) ==
    LET T == S \cup UNION {Mentioned(c[x]) : x \in S} IN IF T = S THEN S ELSE Grown(c, T)

\* The reference closure of a in contents c: the least set with a and whatever
\* a formula in it refers to.
ClosureIn(c, a) == Grown(c, {a})
Closure(a) == ClosureIn(cells, a)

----------------------------------------------------------------------------
\* Naive recomputation: no cache, prog the formulas on the way down

RECURSIVE NaiveCell(_, _), Naive(_, _), NaiveRange(_, _, _, _)

NaiveCell(a, prog) ==
    IF a \notin Grid THEN ErrV("#REF!")
    ELSE IF ~ IsFormula(cells[a]) THEN Operand(cells[a])
    ELSE IF a \in prog THEN ErrV("#CYCLE!")
    ELSE Naive(cells[a][2], prog \cup {a})

Naive(node, prog) ==
    CASE node[1] = "int" -> node
      [] node[1] = "bad" -> ErrV("#PARSE!")
      [] node[1] = "ref" -> NaiveCell(node[2], prog)
      [] node[1] = "neg" -> LET v == Naive(node[2], prog)
                            IN IF IsErr(v) THEN v ELSE IntV(- v[2])
      [] node[1] = "bin" -> LET v == Naive(node[3], prog) w == Naive(node[4], prog)
                            IN IF IsErr(v) THEN v ELSE IF IsErr(w) THEN w
                               ELSE Arith(node[2], v, w)
      [] node[1] = "agg" ->
            IF ~ IsRange(node[3], node[4]) THEN ErrV("#REF!")
            ELSE IF node[2] = "COUNT" THEN NonEmpty(node[3], node[4])
            ELSE NaiveRange(node[2], RangeCells(node[3], node[4]), << >>, prog)

NaiveRange(f, todo, done, prog) ==
    IF todo = << >> THEN Aggregate(f, done)
    ELSE LET v == NaiveCell(Head(todo), prog)
         IN IF cells[Head(todo)] = Empty THEN NaiveRange(f, Tail(todo), done, prog)
            ELSE IF IsErr(v) THEN v
            ELSE NaiveRange(f, Tail(todo), Append(done, v), prog)

NaiveGet(a) == IF IsFormula(cells[a]) THEN NaiveCell(a, {}) ELSE cells[a]

----------------------------------------------------------------------------
\* What a recomputation reads

\* The cells a computation of a node evaluates, up to the first error, and
\* those it counts.
RECURSIVE UsedBy(_, _)
UsedBy(node, prog) ==
    CASE node[1] = "ref" -> {node[2]} \cap Grid
      [] node[1] = "neg" -> UsedBy(node[2], prog)
      [] node[1] = "bin" -> UsedBy(node[3], prog)
                            \cup IF IsErr(Naive(node[3], prog)) THEN {} ELSE UsedBy(node[4], prog)
      [] node[1] = "agg" /\ node[2] # "COUNT" /\ IsRange(node[3], node[4]) ->
            LET members == RangeCells(node[3], node[4])
                Fine(i) == cells[members[i]] = Empty \/ ~ IsErr(NaiveCell(members[i], prog))
            IN {members[i] : i \in {k \in DOMAIN members : \A j \in 1 .. k - 1 : Fine(j)}}
      [] OTHER -> {}

Counted(node) == UNION {Members(l) : l \in {k \in Leaves(node) : k[1] = "agg" /\ k[2] = "COUNT"}}

Used(a) == IF IsFormula(cells[a]) THEN UsedBy(cells[a][2], {a}) ELSE {}

RECURSIVE Evaluated(_)
Evaluated(S) ==
    UNION {IF T = S THEN S ELSE Evaluated(T) : T \in {S \cup UNION {Used(x) : x \in S}}}

\* The contents as LazyLinks sees them.
Readings ==
    [used |-> [a \in Grid |-> Used(a)],
     seen |-> [a \in Grid |-> IF IsFormula(cells[a]) THEN Counted(cells[a][2]) ELSE {}],
     reach |-> [a \in Grid |-> Evaluated({a})],
     answer |-> [a \in Grid |-> NaiveGet(a)]]

----------------------------------------------------------------------------
\* A step of an evaluation yields a value and the engine's memory m

Got(v, m) == [v |-> v, m |-> m]
ZeroStarts == [a \in Grid |-> 0]

\* Left to right, up to the first error.
Both(op, l, Right(_)) ==
    IF IsErr(l.v) THEN l
    ELSE LET r == Right(l.m)
         IN IF IsErr(r.v) THEN r ELSE Got(Arith(op, l.v, r.v), r.m)

Negated(x) == IF IsErr(x.v) THEN x ELSE Got(IntV(- x.v[2]), x.m)
=============================================================================
