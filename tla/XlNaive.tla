------------------------------ MODULE XlNaive ------------------------------
(***************************************************************************)
(* The naive full recomputation of a workbook, without caches and limits,  *)
(* that the results of every caching engine are to be equal to, and the    *)
(* reference closure that says which cells a result may depend on.         *)
(***************************************************************************)
EXTENDS XlFormula

Cells == Sheets \X Addrs
Raw(id) == cells[id[1]][id[2]]

\* The cells of a range argument on sheet s, or an error.
Span(arg, s) ==
    LET t == names[s][arg[2]]
    IN CASE arg[1] = "error" -> [err |-> arg[2]]
         [] arg[1] = "name" ->
               IF t = Unbound \/ ~ ValidTarget(t) THEN [err |-> "#NAME!"]
               ELSE [sheet |-> On(QualifierOf(t), s),
                     addrs |-> RangeCells(TargetCells(t)[1], TargetCells(t)[2])]
         [] arg[1] = "range" ->
               IF IsRange(arg[3], arg[5])
               THEN [sheet |-> On(arg[2], s), addrs |-> RangeCells(arg[3], arg[5])]
               ELSE [err |-> "#REF!"]

\* COUNT() looks at what is stored and evaluates nothing; in armK not so inside
\* CONCAT() and LEN().
Stored(span) ==
    IF span.sheet \notin present THEN ErrV("#REF!")
    ELSE IntV(Len(SelectSeq(span.addrs, LAMBDA a : cells[span.sheet][a] # Empty)))

----------------------------------------------------------------------------
\* The reference: no cache, no limit, prog the cells on the way down

RECURSIVE NaiveCell(_, _), Naive(_, _, _)

NaiveCell(id, prog) ==
    IF id[1] \notin present \/ id[2] \notin Addrs THEN ErrV("#REF!")
    ELSE IF Raw(id) = Empty THEN Blank
    ELSE IF ~ IsFormula(Raw(id)) THEN Raw(id)
    ELSE IF id \in prog THEN ErrV("#CYCLE!")
    ELSE IF ~ InBounds(Raw(id)) THEN ErrV("#PARSE!")
    ELSE Naive(Raw(id)[2], id[1], prog \cup {id})

NaiveApply(f, vals) ==
    LET bad == {i \in DOMAIN vals : Offends(f, SubSeq(vals, 1, i - 1), vals[i])}
    IN IF bad = {} THEN Apply(f, vals) ELSE Offence(vals[Min(bad)])

Naive(node, s, prog) ==
    LET span == IF node[1] = "agg" THEN Span(node[3], s) ELSE Span(node, s)
        operand(id) == IF NaiveCell(id, prog) = Blank THEN IntV(0) ELSE NaiveCell(id, prog)
    IN CASE node[1] \in {"int", "str"} -> Within(node)
         [] node[1] = "now" -> Within(IntV(clock))
         [] node[1] = "bad" -> ErrV("#PARSE!")
         [] node[1] = "error" -> ErrV(node[2])
         [] node[1] = "ref" -> operand(<< On(node[2], s), node[3] >>)
         [] node[1] = "name" ->
               IF "err" \in DOMAIN span THEN ErrV(span.err)
               ELSE IF Len(span.addrs) > 1 THEN ErrV("#REF!")
               ELSE operand(<< span.sheet, span.addrs[1] >>)
         [] node[1] = "agg" ->
               IF "err" \in DOMAIN span THEN ErrV(span.err)
               ELSE IF span.sheet \notin present THEN ErrV("#REF!")
               ELSE IF node[2] = "COUNT" THEN Stored(span)
               ELSE NaiveApply(node[2], [i \in DOMAIN span.addrs |->
                                            NaiveCell(<< span.sheet, span.addrs[i] >>, prog)])
         [] node[1] = "op" /\ node[2] = "if" ->
               LET c == Naive(node[3][1], s, prog)
               IN IF c[1] # "int" THEN Offence(c)
                  ELSE Naive(node[3][IF c[2] # 0 THEN 2 ELSE 3], s, prog)
         [] node[1] = "op" /\ node[2] # "if" ->
               NaiveApply(node[2], [i \in DOMAIN node[3] |-> Naive(node[3][i], s, prog)])

Readable == {id \in Cells : id[1] \in present}

\* The reference closure: the least set with id and, of every formula in it,
\* every cell the formula refers to.
RECURSIVE Grown(_)
Grown(S) ==
    LET T == S \cup UNION {ToSet(DirectReferences(Raw(x)[2], x[1])) :
                              x \in {y \in S : IsFormula(Raw(y))}}
    IN IF T = S THEN S ELSE Grown(T)

Closure(id) == Grown({id})

\* What is below each cell, nothing below a text too long to evaluate, and
\* what each cell answers.
Below == [id \in Cells |-> IF InBounds(Raw(id)) THEN Closure(id) ELSE {id}]
Answers == [id \in Cells |-> NaiveCell(id, {})]
=============================================================================
