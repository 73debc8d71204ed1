------------------------------ MODULE GcRerun ------------------------------
(***************************************************************************)
(* The rerun engine: set() marks a cell dirty; get() evaluates anew when   *)
(* anything in the reference closure is dirty, and takes the mark off      *)
(* every cell the evaluation comes to, for all other cells as well.        *)
(***************************************************************************)
EXTENDS GcFormula

VARIABLES cache, dirty

state == << cells, cache, dirty >>

Init ==
    /\ cells = [a \in Grid |-> Empty] /\ cache = [a \in Grid |-> NoValue]
    /\ dirty = {}

\* An exception on its way to _evaluate_cell().
Raised(error) == <<"raise", error>>
Raises(v) == v[1] = "raise"

\* Corners in order column by column, whichever way round the rows are.
IsOrdered(a, b) ==
    a \in Grid /\ b \in Grid /\ (a[1] < b[1] \/ (a[1] = b[1] /\ a[2] <= b[2]))

\* A stored text that is an error evaluates to it; #CYCLE! is not on the list.
Marked(raw) == raw # Empty /\ raw[1] = "str" /\ raw[2] \in Markers \ {"#CYCLE!"}

Clean(m, a) == [m EXCEPT !.dirty = @ \ {a}]

RECURSIVE EvalCell(_, _, _), EvalReference(_, _, _), EvalNode(_, _, _), EvalFunction(_, _, _, _, _)

\* Everything but a division by zero ends as #PARSE!, counted once more.
EvalCell(a, evaluating, m) ==
    LET r == EvalNode(cells[a][2], evaluating, [m EXCEPT !.starts[a] = @ + 1])
        v == IF Raises(r.v) THEN ErrV(IF r.v[2] = "ZeroDivisionError" THEN "#DIV!" ELSE "#PARSE!")
             ELSE r.v
        again == IF r.v = Raised("TypeError") THEN 1 ELSE 0
    IN IF ~ IsFormula(cells[a])
       THEN Got(cells[a], Clean([m EXCEPT !.cache[a] = cells[a]], a))
       ELSE Got(v, Clean([r.m EXCEPT !.cache[a] = v, !.starts[a] = @ + again], a))

EvalReference(a, evaluating, m) ==
    IF a \notin Grid THEN Got(ErrV("#REF!"), m)
    ELSE IF a \in evaluating THEN Got(ErrV("#CYCLE!"), m)
    ELSE IF Marked(cells[a]) THEN Got(ErrV(cells[a][2]), Clean(m, a))
    ELSE IF IsFormula(cells[a]) THEN EvalCell(a, evaluating \cup {a}, m)
    ELSE Got(Operand(cells[a]), Clean(m, a))

\* Both operands are evaluated before either is looked at.
EvalNode(node, evaluating, m) ==
    CASE node[1] = "int" -> Got(node, m)
      [] node[1] = "bad" -> Got(ErrV("#PARSE!"), m)
      [] node[1] = "ref" -> EvalReference(node[2], evaluating, m)
      [] node[1] = "neg" ->
            LET x == EvalNode(node[2], evaluating, m)
            IN IF Raises(x.v) THEN x
               ELSE IF IsErr(x.v) THEN Got(Raised("TypeError"), x.m) ELSE Negated(x)
      [] node[1] = "bin" ->
            LET l == EvalNode(node[3], evaluating, m)
                r == EvalNode(node[4], evaluating, l.m)
                both == Both(node[2], l, LAMBDA x : r)
            IN IF Raises(l.v) THEN l ELSE IF Raises(r.v) THEN r
               ELSE IF IsErr(l.v) THEN Got(l.v, r.m) ELSE IF IsErr(r.v) THEN r
               ELSE IF IsErr(both.v) THEN Got(Raised("ZeroDivisionError"), r.m) ELSE both
      [] node[1] = "agg" ->
            IF ~ IsOrdered(node[3], node[4]) THEN Got(ErrV("#REF!"), m)
            ELSE IF node[2] = "COUNT" THEN Got(NonEmpty(node[3], node[4]), m)
            ELSE EvalFunction(node[2], RangeCells(node[3], node[4]), << >>, evaluating, m)

\* A member that is a literal keeps its mark.
EvalFunction(f, todo, done, evaluating, m) ==
    LET raw == cells[Head(todo)]
        r == IF IsFormula(raw) THEN EvalReference(Head(todo), evaluating, m)
             ELSE Got(IF Marked(raw) THEN ErrV(raw[2]) ELSE Operand(raw), m)
    IN IF todo = << >> THEN Got(Aggregate(f, done), m)
       ELSE IF raw = Empty THEN EvalFunction(f, Tail(todo), done, evaluating, m)
       ELSE IF IsErr(r.v) THEN r
       ELSE EvalFunction(f, Tail(todo), Append(done, r.v), evaluating, r.m)

\* Mutant: only the cell itself is asked whether it is dirty.
NeedsRecomputeAlone(a) == a \in dirty

NeedsRecompute(a) == a \in dirty \/ Closure(a) \cap dirty # {}

Fetch(a) ==
    LET emptied == [x \in Grid |-> IF NeedsRecompute(a) /\ x \in Closure(a)
                                   THEN NoValue ELSE cache[x]]
        m == [cache |-> emptied, dirty |-> dirty, starts |-> ZeroStarts]
    IN IF ~ NeedsRecompute(a) /\ cache[a] # NoValue THEN Got(cache[a], m)
       ELSE EvalCell(a, {}, m)

Set(a, v) ==
    /\ cells' = [cells EXCEPT ![a] = v]
    /\ dirty' = dirty \cup {a}
    /\ UNCHANGED cache

Get(a) ==
    /\ cache' = Fetch(a).m.cache /\ dirty' = Fetch(a).m.dirty
    /\ UNCHANGED cells

Next == \E a \in Grid : Get(a) \/ \E v \in Texts(a) : Set(a, v)
=============================================================================
