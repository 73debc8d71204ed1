-------------------------------- MODULE GcB --------------------------------
(***************************************************************************)
(* The armB engine: every result is cached with the set of cells found by  *)
(* searching references, of a range only its two corners, and set() drops  *)
(* the results whose set has the cell.                                     *)
(***************************************************************************)
EXTENDS GcFormula

CONSTANT NoDeps

VARIABLES cache, deps

state == << cells, cache, deps >>

Init ==
    /\ cells = [a \in Grid |-> Empty]
    /\ cache = [a \in Grid |-> NoValue] /\ deps = [a \in Grid |-> NoDeps]

\* References of a formula, the corners of its ranges.
ExtractRefs(raw) ==
    IF ~ IsFormula(raw) THEN {}
    ELSE UNION {CASE l[1] = "ref" -> {l[2]}
                  [] l[1] = "agg" -> {l[3], l[4]}
                  [] OTHER -> {} : l \in Leaves(raw[2])} \cap Grid

RECURSIVE Found(_)
Found(S) ==
    LET T == S \cup UNION {ExtractRefs(cells[x]) : x \in S} IN IF T = S THEN S ELSE Found(T)

ComputeClosure(a) == Found(ExtractRefs(cells[a]))

RECURSIVE Read(_, _, _), EvaluateNode(_, _, _), EvalSumMinMax(_, _, _, _, _)

\* get() with the formulas on the way down in prog.
Read(a, prog, m) ==
    IF m.cache[a] # NoValue THEN Got(m.cache[a], m)
    ELSE IF ~ IsFormula(cells[a]) THEN Got(cells[a], m)
    ELSE LET r == EvaluateNode(cells[a][2], prog \cup {a}, [m EXCEPT !.starts[a] = @ + 1])
         IN Got(r.v, [r.m EXCEPT !.cache[a] = r.v, !.deps[a] = ComputeClosure(a)])

\* A text that begins like an error is taken for one.
AsOperand(v) == IF v # Empty /\ v[1] = "str" /\ v[2] \in Markers THEN ErrV(v[2])
                ELSE IF v # Empty /\ IsErr(v) THEN v ELSE Operand(v)

EvaluateNode(node, prog, m) ==
    CASE node[1] = "int" -> Got(node, m)
      [] node[1] = "bad" -> Got(ErrV("#PARSE!"), m)
      [] node[1] = "ref" ->
            IF node[2] \notin Grid THEN Got(ErrV("#REF!"), m)
            ELSE IF node[2] \in prog THEN Got(ErrV("#CYCLE!"), m)
            ELSE LET r == Read(node[2], prog, m) IN Got(AsOperand(r.v), r.m)
      [] node[1] = "neg" -> Negated(EvaluateNode(node[2], prog, m))
      [] node[1] = "bin" -> Both(node[2], EvaluateNode(node[3], prog, m),
                                 LAMBDA x : EvaluateNode(node[4], prog, x))
      [] node[1] = "agg" ->
            IF ~ IsRange(node[3], node[4]) THEN Got(ErrV("#REF!"), m)
            ELSE IF node[2] = "COUNT" THEN Got(NonEmpty(node[3], node[4]), m)
            ELSE EvalSumMinMax(node[2], RangeCells(node[3], node[4]), << >>, prog, m)

\* A member that is an error ends it like one that is a string.
EvalSumMinMax(f, todo, done, prog, m) ==
    LET r == Read(Head(todo), prog, m)
    IN IF todo = << >> THEN Got(Aggregate(f, done), m)
       ELSE IF Head(todo) \in prog THEN Got(ErrV("#CYCLE!"), m)
       ELSE IF r.v = Empty THEN EvalSumMinMax(f, Tail(todo), done, prog, r.m)
       ELSE IF r.v[1] # "int" THEN Got(ErrV("#TYPE!"), r.m)
       ELSE EvalSumMinMax(f, Tail(todo), Append(done, r.v), prog, r.m)

Fetch(a) == Read(a, {}, [cache |-> cache, deps |-> deps, starts |-> ZeroStarts])

Set(a, v) ==
    LET gone == {x \in Grid : \/ x = a
                              \/ cache[x] # NoValue /\ (deps[x] = NoDeps \/ a \in deps[x])}
    IN /\ cells' = [cells EXCEPT ![a] = v]
       /\ cache' = [x \in Grid |-> IF x \in gone THEN NoValue ELSE cache[x]]
       /\ deps' = [x \in Grid |-> IF x \in gone THEN NoDeps ELSE deps[x]]

Get(a) ==
    /\ cache' = Fetch(a).m.cache /\ deps' = Fetch(a).m.deps
    /\ UNCHANGED cells

Next == \E a \in Grid : Get(a) \/ \E v \in Texts(a) : Set(a, v)
=============================================================================
