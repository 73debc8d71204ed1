------------------------------ MODULE GcHybrid ------------------------------
(***************************************************************************)
(* The hybrid engine: get() caches the result of every formula it passes,  *)
(* but the reference closure only of the cell it was asked for, and set()  *)
(* drops the results of closures that have the cell.                       *)
(***************************************************************************)
EXTENDS GcFormula

CONSTANTS
    NoClosure,
    MaxChain,    \* formulas under way at once, beyond which is #CHAIN!
    MaxInt       \* magnitude, beyond which is #OVF!

VARIABLES
    cache, closures,
    inner        \* ghost: results cached while another cell was asked for

state == << cells, cache, closures, inner >>

Init ==
    /\ cells = [a \in Grid |-> Empty] /\ cache = [a \in Grid |-> NoValue]
    /\ closures = [a \in Grid |-> NoClosure] /\ inner = {}

CheckMagnitude(x) ==
    IF ~ IsErr(x.v) /\ Magnitude(x.v[2]) > MaxInt THEN Got(ErrV("#OVF!"), x.m) ELSE x

RECURSIVE Evaluate(_, _, _), EvalNode(_, _, _), EvalRange(_, _, _, _, _)

Evaluate(a, visited, m) ==
    IF a \in visited THEN Got(ErrV("#CYCLE!"), m)
    ELSE IF m.cache[a] # NoValue THEN Got(m.cache[a], m)
    ELSE IF ~ IsFormula(cells[a]) THEN Got(Operand(cells[a]), m)
    ELSE LET m1 == [m EXCEPT !.starts[a] = @ + 1]
             r == EvalNode(cells[a][2], visited \cup {a}, m1)
         IN IF Cardinality(visited) >= MaxChain THEN Got(ErrV("#CHAIN!"), m1)
            ELSE Got(r.v, [r.m EXCEPT !.cache[a] = r.v])

EvalNode(node, visited, m) ==
    CASE node[1] = "int" -> Got(node, m)
      [] node[1] = "bad" -> Got(ErrV("#PARSE!"), m)
      [] node[1] = "ref" -> IF node[2] \notin Grid THEN Got(ErrV("#REF!"), m)
                            ELSE Evaluate(node[2], visited, m)
      [] node[1] = "neg" -> CheckMagnitude(Negated(EvalNode(node[2], visited, m)))
      [] node[1] = "bin" -> CheckMagnitude(Both(node[2], EvalNode(node[3], visited, m),
                                                LAMBDA x : EvalNode(node[4], visited, x)))
      [] node[1] = "agg" ->
            IF ~ IsRange(node[3], node[4]) THEN Got(ErrV("#REF!"), m)
            ELSE IF node[2] = "COUNT" THEN Got(NonEmpty(node[3], node[4]), m)
            ELSE EvalRange(node[2], RangeCells(node[3], node[4]), << >>, visited, m)

\* An error _is_error() does not know, #CHAIN! or #OVF!, is no number either.
EvalRange(f, todo, done, visited, m) ==
    LET r == Evaluate(Head(todo), visited, m)
    IN IF todo = << >> THEN Got(Aggregate(f, done), m)
       ELSE IF Head(todo) \in visited THEN Got(ErrV("#CYCLE!"), m)
       ELSE IF cells[Head(todo)] = Empty THEN EvalRange(f, Tail(todo), done, visited, m)
       ELSE IF IsErr(r.v) /\ r.v[2] \in Markers THEN r
       ELSE IF IsErr(r.v) THEN Got(ErrV("#TYPE!"), r.m)
       ELSE EvalRange(f, Tail(todo), Append(done, r.v), visited, r.m)

Fetch(a) ==
    LET m == [cache |-> cache, starts |-> ZeroStarts]
        r == Evaluate(a, {}, m)
    IN IF cache[a] # NoValue THEN Got(cache[a], m)
       ELSE IF ~ IsFormula(cells[a]) THEN Got(cells[a], m)
       ELSE Got(r.v, [r.m EXCEPT !.cache[a] = r.v])

\* Mutant: the closure is taken to be the direct references.
ExtractClosureOnly(c, a) == {a} \cup Mentioned(c[a])

ComputeClosure(c, a) == ClosureIn(c, a)

Set(a, v) ==
    LET affected == {x \in Grid : closures[x] # NoClosure /\ (x = a \/ a \in closures[x])}
    IN /\ cells' = [cells EXCEPT ![a] = v]
       /\ cache' = [x \in Grid |-> IF x \in affected THEN NoValue ELSE cache[x]]
       /\ closures' = [x \in Grid |->
                          IF x = a /\ IsFormula(v) THEN ComputeClosure(cells', a)
                          ELSE IF x \in affected THEN NoClosure ELSE closures[x]]
       /\ inner' = {x \in inner : cache'[x] # NoValue}

Get(a) ==
    LET computed == cache[a] = NoValue /\ IsFormula(cells[a])
    IN /\ cache' = Fetch(a).m.cache
       /\ closures' = IF computed THEN [closures EXCEPT ![a] = ComputeClosure(cells, a)]
                      ELSE closures
       /\ inner' = inner \cup {x \in Grid \ {a} : cache[x] = NoValue /\ cache'[x] # NoValue}
       /\ UNCHANGED cells

Next == \E a \in Grid : Get(a) \/ \E v \in Texts(a) : Set(a, v)
=============================================================================
