-------------------------------- MODULE GcA --------------------------------
(***************************************************************************)
(* The armA engine: get() answers from the cache of the cell it is asked   *)
(* for, and evaluates everything below it anew.  set() follows links, but  *)
(* only through cells that have a result, and a formula that gives way to  *)
(* a literal leaves its links behind.                                      *)
(***************************************************************************)
EXTENDS GcFormula

VARIABLES cache, deps, rdeps   \* rdeps: << member, dependent >> pairs of _dependents

state == << cells, cache, deps, rdeps >>

Init ==
    /\ cells = [a \in Grid |-> Empty]
    /\ cache = [a \in Grid |-> NoValue]
    /\ deps = [a \in Grid |-> {}] /\ rdeps = {}

RECURSIVE EvalRef(_, _, _), EvalNode(_, _, _), EvalFunc(_, _, _, _, _)

EvalRef(a, prog, m) ==
    IF a \notin Grid THEN Got(ErrV("#REF!"), m)
    ELSE IF ~ IsFormula(cells[a]) THEN Got(Operand(cells[a]), m)
    ELSE IF a \in prog THEN Got(ErrV("#CYCLE!"), m)
    ELSE LET r == EvalNode(cells[a][2], prog \cup {a}, [m EXCEPT !.starts[a] = @ + 1])
         IN Got(r.v, [r.m EXCEPT !.cache[a] = r.v])

EvalFunc(f, todo, done, prog, m) ==
    IF todo = << >> THEN Got(Aggregate(f, done), m)
    ELSE IF cells[Head(todo)] = Empty THEN EvalFunc(f, Tail(todo), done, prog, m)
    ELSE LET r == EvalRef(Head(todo), prog, m)
         IN IF IsErr(r.v) THEN r
            ELSE EvalFunc(f, Tail(todo), Append(done, r.v), prog, r.m)

EvalNode(node, prog, m) ==
    CASE node[1] = "int" -> Got(node, m)
      [] node[1] = "bad" -> Got(ErrV("#PARSE!"), m)
      [] node[1] = "ref" -> EvalRef(node[2], prog, m)
      [] node[1] = "neg" -> Negated(EvalNode(node[2], prog, m))
      [] node[1] = "bin" -> Both(node[2], EvalNode(node[3], prog, m),
                                 LAMBDA x : EvalNode(node[4], prog, x))
      [] node[1] = "agg" ->
            IF ~ IsRange(node[3], node[4]) THEN Got(ErrV("#REF!"), m)
            ELSE IF node[2] = "COUNT" THEN Got(NonEmpty(node[3], node[4]), m)
            ELSE EvalFunc(node[2], RangeCells(node[3], node[4]), << >>, prog, m)

\* The cell asked for is not marked as in progress.
Fetch(a) ==
    LET m == [cache |-> cache, starts |-> ZeroStarts]
        r == EvalNode(cells[a][2], {}, [m EXCEPT !.starts[a] = 1])
    IN IF ~ IsFormula(cells[a]) THEN Got(cells[a], m)
       ELSE IF cache[a] # NoValue THEN Got(cache[a], m)
       ELSE Got(r.v, [r.m EXCEPT !.cache[a] = r.v])

\* What depends on S by links, through cells with a result.
RECURSIVE Stale(_, _)
Stale(links, S) ==
    LET T == S \cup {d \in Grid : cache[d] # NoValue /\ \E x \in S : << x, d >> \in links}
    IN IF T = S THEN S ELSE Stale(links, T)

UpdatedDeps(a, v) ==
    IF IsFormula(v) THEN (rdeps \ (deps[a] \X {a})) \cup (Mentioned(v) \X {a}) ELSE rdeps

Set(a, v) ==
    /\ cells' = [cells EXCEPT ![a] = v]
    /\ rdeps' = UpdatedDeps(a, v)
    /\ deps' = [deps EXCEPT ![a] = Mentioned(v)]
    /\ cache' = [x \in Grid |-> IF x \in Stale(rdeps', {a}) THEN NoValue ELSE cache[x]]

Get(a) ==
    /\ cache' = Fetch(a).m.cache
    /\ UNCHANGED << cells, deps, rdeps >>

Next == \E a \in Grid : Get(a) \/ \E v \in Texts(a) : Set(a, v)
=============================================================================
