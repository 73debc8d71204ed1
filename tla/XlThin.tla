------------------------------- MODULE XlThin -------------------------------
(***************************************************************************)
(* The armT workbook: the contents and the journal of XlContents, and an   *)
(* engine that links a formula, once computed, from the cells it mentions. *)
(* An edit walks the links from what it touches and drops every result it  *)
(* comes to.  There are no limits on numbers, lengths and chains, so an    *)
(* instance puts MaxInt and MaxLen beyond every value it can come to.      *)
(***************************************************************************)
EXTENDS XlNaive

CONSTANT NoValue

VARIABLE mem     \* cache; fwd, the mentioned cells; rev, << mentioned, formula >> pairs

BlankMem == [cache |-> [id \in Cells |-> NoValue],
             fwd |-> [id \in Cells |-> {}], rev |-> {}]

----------------------------------------------------------------------------
\* get()

\* Mutant: a name is not looked up.
RefCellsUnnamed(leaf, s) ==
    CASE leaf[1] = "ref" -> {<< On(leaf[2], s), leaf[3] >>} \cap Cells
      [] leaf[1] = "range" /\ IsRange(leaf[3], leaf[5]) ->
            {On(leaf[2], s)} \X ToSet(RangeCells(leaf[3], leaf[5]))
      [] OTHER -> {}

\* What a leaf of a formula on sheet s mentions, on sheets that need not exist.
RefCells(leaf, s) ==
    CASE leaf[1] = "ref" -> {<< On(leaf[2], s), leaf[3] >>} \cap Cells
      [] leaf[1] = "range" /\ IsRange(leaf[3], leaf[5]) ->
            {On(leaf[2], s)} \X ToSet(RangeCells(leaf[3], leaf[5]))
      [] leaf[1] = "name" /\ names[s][leaf[2]] # Unbound ->
            LET t == names[s][leaf[2]]
            IN {On(QualifierOf(t), s)} \X ToSet(RangeCells(TargetCells(t)[1], TargetCells(t)[2]))
      [] OTHER -> {}

StaticRefs(id) == UNION {RefCells(l, id[1]) : l \in ToSet(Leaves(Raw(id)[2]))}

Got(v, m) == [v |-> v, m |-> m]
AsOperand(got) == IF got.v = Blank THEN Got(IntV(0), got.m) ELSE got

\* A value that ends the evaluation of f, and what f then yields.
Stops(f, v) ==
    \/ v[1] = "err"
    \/ v[1] = "str" /\ f \in {"+", "-", "*", "/", "neg", "SUM", "MIN", "MAX", "if"}
Stopped(v) == IF v[1] = "err" THEN v ELSE ErrV("#TYPE!")

\* Strings are compared for equality only.
Applied(f, x) ==
    IF f \in {"<", "<=", ">", ">="} /\ \E i \in DOMAIN x : x[i][1] = "str"
    THEN ErrV("#TYPE!") ELSE Apply(f, x)

RECURSIVE Compute(_, _, _), Value(_, _, _, _), Args(_, _, _, _, _, _)

\* Mutant: a result is not kept for the next reader of the cell.
ComputeUncached(id, visiting, m) ==
    IF m.cache[id] # NoValue THEN Got(m.cache[id], m)
    ELSE IF id \in visiting THEN Got(ErrV("#CYCLE!"), m)
    ELSE IF ~ IsFormula(Raw(id)) THEN Got(IF Raw(id) = Empty THEN Blank ELSE Raw(id), m)
    ELSE Value(Raw(id)[2], id[1], visiting \cup {id}, [m EXCEPT !.starts[id] = @ + 1])

\* A literal or an empty cell is not cached.
Compute(id, visiting, m) ==
    IF m.cache[id] # NoValue THEN Got(m.cache[id], m)
    ELSE IF id \in visiting THEN Got(ErrV("#CYCLE!"), m)
    ELSE IF ~ IsFormula(Raw(id)) THEN Got(IF Raw(id) = Empty THEN Blank ELSE Raw(id), m)
    ELSE LET r == Value(Raw(id)[2], id[1], visiting \cup {id}, [m EXCEPT !.starts[id] = @ + 1])
             refs == StaticRefs(id)
         IN Got(r.v, [r.m EXCEPT !.cache[id] = r.v, !.fwd[id] = refs, !.rev = @ \cup (refs \X {id})])

Value(node, s, visiting, m) ==
    CASE node[1] \in {"int", "str"} -> Got(node, m)
      [] node[1] = "now" -> Got(IntV(clock), m)
      [] node[1] = "bad" -> Got(ErrV("#PARSE!"), m)
      [] node[1] = "error" -> Got(ErrV(node[2]), m)
      [] node[1] = "cell" -> Compute(node[2], visiting, m)
      [] node[1] = "ref" ->
            IF On(node[2], s) \notin present \/ node[3] \notin Addrs THEN Got(ErrV("#REF!"), m)
            ELSE AsOperand(Compute(<< On(node[2], s), node[3] >>, visiting, m))
      [] node[1] = "name" ->
            LET span == Span(node, s)
            IN IF "err" \in DOMAIN span THEN Got(ErrV(span.err), m)
               ELSE IF Len(span.addrs) > 1 THEN Got(ErrV("#REF!"), m)
               ELSE AsOperand(Compute(<< span.sheet, span.addrs[1] >>, visiting, m))
      [] node[1] = "agg" ->
            LET span == Span(node[3], s)
            IN IF "err" \in DOMAIN span THEN Got(ErrV(span.err), m)
               ELSE IF span.sheet \notin present THEN Got(ErrV("#REF!"), m)
               ELSE IF node[2] = "COUNT" THEN Got(Stored(span), m)
               ELSE Args(node[2], [i \in DOMAIN span.addrs |->
                                      <<"cell", << span.sheet, span.addrs[i] >> >>],
                         << >>, s, visiting, m)
      [] node[1] = "op" /\ node[2] = "if" ->
            LET c == Value(node[3][1], s, visiting, m)
            IN IF Stops("if", c.v) THEN Got(Stopped(c.v), c.m)
               ELSE Value(node[3][IF c.v[2] # 0 THEN 2 ELSE 3], s, visiting, c.m)
      [] node[1] = "op" /\ node[2] # "if" -> Args(node[2], node[3], << >>, s, visiting, m)

\* Arguments from left to right, up to one that f cannot take.
Args(f, args, done, s, visiting, m) ==
    IF args = << >> THEN Got(Applied(f, done), m)
    ELSE LET r == Value(Head(args), s, visiting, m)
         IN IF Stops(f, r.v) THEN Got(Stopped(r.v), r.m)
            ELSE Args(f, Tail(args), Append(done, r.v), s, visiting, r.m)

\* What get() answers, the memory it leaves, and what it computed.
Evaluate(id) ==
    Compute(id, {}, [cache |-> mem.cache, fwd |-> mem.fwd, rev |-> mem.rev,
                     starts |-> [x \in Cells |-> 0]])

Get(s, a) ==
    /\ s \in present
    /\ LET m == Evaluate(<< s, a >>).m
       IN mem' = [cache |-> m.cache, fwd |-> m.fwd, rev |-> m.rev]
    /\ UNCHANGED vars

----------------------------------------------------------------------------
\* What a computation reads

\* The cells that the computation of a node evaluates, up to the first value
\* that ends it.
RECURSIVE UsedBy(_, _, _)
UsedBy(node, s, prog) ==
    LET cs == LeafCells(IF node[1] = "agg" THEN node[3] ELSE node, s)
        cond == Naive(node[3][1], s, prog)
        UpTo(f, n, V(_)) == {k \in 1 .. n : \A j \in 1 .. k - 1 : ~ Stops(f, V(j))}
    IN CASE node[1] \in {"ref", "name"} -> IF Len(cs) = 1 THEN ToSet(cs) ELSE {}
         [] node[1] = "agg" /\ node[2] # "COUNT" ->
               {cs[k] : k \in UpTo(node[2], Len(cs), LAMBDA j : NaiveCell(cs[j], prog))}
         [] node[1] = "op" /\ node[2] = "if" ->
               UsedBy(node[3][1], s, prog) \cup
               IF Stops("if", cond) THEN {} ELSE UsedBy(node[3][IF cond[2] # 0 THEN 2 ELSE 3], s, prog)
         [] node[1] = "op" /\ node[2] # "if" ->
               UNION {UsedBy(node[3][k], s, prog) :
                         k \in UpTo(node[2], Len(node[3]), LAMBDA j : Naive(node[3][j], s, prog))}
         [] OTHER -> {}

\* The cells of which it only asks whether they are empty.
RECURSIVE CountedBy(_, _)
CountedBy(node, s) ==
    CASE node[1] = "agg" /\ node[2] = "COUNT" -> ToSet(LeafCells(node[3], s))
      [] node[1] = "op" -> UNION {CountedBy(node[3][k], s) : k \in DOMAIN node[3]}
      [] OTHER -> {}

Used(id) == IF IsFormula(Raw(id)) THEN UsedBy(Raw(id)[2], id[1], {id}) ELSE {}

RECURSIVE Reach(_)
Reach(S) == LET T == S \cup UNION {Used(x) : x \in S} IN IF T = S THEN S ELSE Reach(T)

\* The contents as LazyLinks sees them.
Readings ==
    [used |-> [id \in Cells |-> Used(id)],
     seen |-> [id \in Cells |-> IF IsFormula(Raw(id)) THEN CountedBy(Raw(id)[2], id[1]) ELSE {}],
     reach |-> [id \in Cells |-> Reach({id})],
     answer |-> [id \in Cells |-> NaiveCell(id, {})]]

----------------------------------------------------------------------------
\* What an edit makes stale

\* Mutant: what depends on a dependent is not come to.
ReachedOnce(S) == S \cup {d \in Cells : \E x \in S : << x, d >> \in mem.rev}

\* Everything over the links from S.
RECURSIVE Reached(_)
Reached(S) ==
    LET T == S \cup {d \in Cells : \E x \in S : << x, d >> \in mem.rev}
    IN IF T = S THEN S ELSE Reached(T)

\* Mutant: the links of what is dropped stay.
InvalidatedLinked(ids) ==
    LET gone == Reached(ids)
    IN [mem EXCEPT !.cache = [id \in Cells |-> IF id \in gone THEN NoValue ELSE @[id]],
                   !.fwd = [id \in Cells |-> IF id \in gone THEN {} ELSE @[id]]]

Invalidated(ids) ==
    LET gone == Reached(ids)
    IN [mem EXCEPT !.cache = [id \in Cells |-> IF id \in gone THEN NoValue ELSE @[id]],
                   !.fwd = [id \in Cells |-> IF id \in gone THEN {} ELSE @[id]],
                   !.rev = {l \in @ : ~ (l[2] \in gone /\ l[1] \in mem.fwd[l[2]])}]

\* Formulas on the given sheets with a leaf of the given kind.
Mentioning(sheets, Kind(_)) ==
    {id \in sheets \X Addrs :
        IsFormula(Raw(id)) /\ \E l \in ToSet(Leaves(Raw(id)[2])) : Kind(l)}

Qualified(s, there) == Mentioning(there, LAMBDA l : l[1] \in {"ref", "range"} /\ l[2] = s)
Named(s, n) == Mentioning({s}, LAMBDA l : l = <<"name", n>>)
Volatile == Mentioning(present, LAMBDA l : l[1] = "now")

----------------------------------------------------------------------------
\* The operations

TSet(s, a, v) == SetCell(s, a, v) /\ mem' = Invalidated({<< s, a >>})
TCopy(s, a, t, b) == Copy(s, a, t, b) /\ mem' = Invalidated({<< t, b >>})
TDefineName(s, n, t) == DefineName(s, n, t) /\ mem' = Invalidated(Named(s, n))
TAdvanceClock == AdvanceClock /\ mem' = Invalidated(Volatile)

TAddSheet(s) == AddSheetT(s) /\ mem' = Invalidated(Qualified(s, present))
TRedoAddSheet == RedoAddSheetT /\ mem' = Invalidated(Qualified(Last(redo).sheet, present))

\* The results of the sheet go, the links to them stay.
TUndoAddSheet ==
    /\ UndoAddSheetT
    /\ LET s == Last(journal).sheet
           m == Invalidated(Qualified(s, present \ {s}))
       IN mem' = [m EXCEPT !.cache = [id \in Cells |-> IF id[1] = s THEN NoValue ELSE @[id]],
                           !.fwd = [id \in Cells |-> IF id[1] = s /\ m.cache[id] # NoValue
                                                     THEN {} ELSE @[id]]]

TUndo ==
    \/ UndoCell /\ mem' = Invalidated({<< Last(journal).sheet, Last(journal).key >>})
    \/ UndoName /\ mem' = Invalidated(Named(Last(journal).sheet, Last(journal).key))
    \/ UndoClock /\ mem' = Invalidated(Volatile)
    \/ TUndoAddSheet

TRedo ==
    \/ RedoCell /\ mem' = Invalidated({<< Last(redo).sheet, Last(redo).key >>})
    \/ RedoName /\ mem' = Invalidated(Named(Last(redo).sheet, Last(redo).key))
    \/ RedoClock /\ mem' = Invalidated(Volatile)
    \/ TRedoAddSheet

TReload == Reload /\ mem' = BlankMem

TEdit ==
    \/ \E s \in Sheets : TAddSheet(s)
    \/ \E s \in Sheets, a \in Addrs, v \in Raws : TSet(s, a, v)
    \/ \E s, t \in Sheets, a, b \in Addrs : TCopy(s, a, t, b)
    \/ \E s \in Sheets, n \in NameIds, t \in Targets : TDefineName(s, n, t)
    \/ TAdvanceClock
=============================================================================
