-------------------------------- MODULE GcSN --------------------------------
(***************************************************************************)
(* The armSN engine: every stored formula is linked from the cells it      *)
(* refers to, and set() drops the results that can be reached over links.  *)
(***************************************************************************)
EXTENDS GcFormula

VARIABLES cache, deps, rdeps   \* rdeps holds << member, dependent >> pairs

state == << cells, cache, deps, rdeps >>

Init ==
    /\ cells = [a \in Grid |-> Empty]
    /\ cache = [a \in Grid |-> NoValue]
    /\ deps = [a \in Grid |-> {}] /\ rdeps = {}

RECURSIVE Compute(_, _, _), Evaluate(_, _, _), RangeValues(_, _, _, _, _)

\* Mutant: a result is not kept for the next reader of the cell.
ComputeUncached(a, prog, m) ==
    IF m.cache[a] # NoValue THEN Got(m.cache[a], m)
    ELSE IF a \in prog THEN Got(ErrV("#CYCLE!"), m)
    ELSE Evaluate(cells[a][2], prog \cup {a}, [m EXCEPT !.starts[a] = @ + 1])

\* A cell that is being computed is in prog.
Compute(a, prog, m) ==
    IF m.cache[a] # NoValue THEN Got(m.cache[a], m)
    ELSE IF a \in prog THEN Got(ErrV("#CYCLE!"), m)
    ELSE LET r == Evaluate(cells[a][2], prog \cup {a}, [m EXCEPT !.starts[a] = @ + 1])
         IN Got(r.v, [r.m EXCEPT !.cache[a] = r.v])

RefValue(a, prog, m) ==
    IF a \notin Grid THEN Got(ErrV("#REF!"), m)
    ELSE IF IsFormula(cells[a]) THEN Compute(a, prog, m)
    ELSE Got(Operand(cells[a]), m)

RangeValues(f, todo, done, prog, m) ==
    IF todo = << >> THEN Got(Aggregate(f, done), m)
    ELSE IF cells[Head(todo)] = Empty THEN RangeValues(f, Tail(todo), done, prog, m)
    ELSE LET r == RefValue(Head(todo), prog, m)
         IN IF IsErr(r.v) THEN r
            ELSE RangeValues(f, Tail(todo), Append(done, r.v), prog, r.m)

Evaluate(node, prog, m) ==
    CASE node[1] = "int" -> Got(node, m)
      [] node[1] = "bad" -> Got(ErrV("#PARSE!"), m)
      [] node[1] = "ref" -> RefValue(node[2], prog, m)
      [] node[1] = "neg" -> Negated(Evaluate(node[2], prog, m))
      [] node[1] = "bin" -> Both(node[2], Evaluate(node[3], prog, m),
                                 LAMBDA x : Evaluate(node[4], prog, x))
      [] node[1] = "agg" ->
            IF ~ IsRange(node[3], node[4]) THEN Got(ErrV("#REF!"), m)
            ELSE IF node[2] = "COUNT" THEN Got(NonEmpty(node[3], node[4]), m)
            ELSE RangeValues(node[2], RangeCells(node[3], node[4]), << >>, prog, m)

\* What get() answers, and the memory it leaves.
Fetch(a) ==
    LET m == [cache |-> cache, starts |-> ZeroStarts]
    IN IF IsFormula(cells[a]) THEN Compute(a, {}, m) ELSE Got(cells[a], m)

\* Mutant: only the cell itself and its direct dependents are dropped.
DependentsOnce(S) == S \cup {d \in Grid : \E x \in S : << x, d >> \in rdeps}

\* a and what depends on it over the links.
RECURSIVE Dependents(_)
Dependents(S) ==
    LET T == S \cup {d \in Grid : \E x \in S : << x, d >> \in rdeps}
    IN IF T = S THEN S ELSE Dependents(T)

\* Mutant: the links of the formula stored before are left behind.
RelinkedOver(a, new) == rdeps \cup (new \X {a})

Relinked(a, new) == (rdeps \ (deps[a] \X {a})) \cup (new \X {a})

Set(a, v) ==
    /\ cells' = [cells EXCEPT ![a] = v]
    /\ cache' = [x \in Grid |-> IF x \in Dependents({a}) THEN NoValue ELSE cache[x]]
    /\ rdeps' = Relinked(a, Mentioned(v))
    /\ deps' = [deps EXCEPT ![a] = Mentioned(v)]

Get(a) ==
    /\ cache' = Fetch(a).m.cache
    /\ UNCHANGED << cells, deps, rdeps >>

Next == \E a \in Grid : Get(a) \/ \E v \in Texts(a) : Set(a, v)
=============================================================================
