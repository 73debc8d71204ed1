------------------------------ MODULE XlEngine ------------------------------
(***************************************************************************)
(* The armK workbook's evaluator and its caches: get() evaluates a formula *)
(* recursively, caches every result on the way together with the static    *)
(* reference closure of the cell, and counts what it reaches; every edit,  *)
(* undo and redo drops the results it may have made stale.                 *)
(*                                                                         *)
(* A cell is << sheet, address >>.  mem.rdeps holds << member, dependent >>*)
(* pairs; the code keeps each in the state of the dependent's sheet.       *)
(***************************************************************************)
EXTENDS XlNaive

CONSTANTS
    Workbooks,   \* contents a workbook may be loaded with
    MaxReach,    \* formula cells one evaluation may reach
    NoValue, NoClosure

VARIABLE mem     \* cache, clos (identity_closure_cache) and rdeps of every sheet

evars == << vars, mem >>

Cached(m, id) == m.cache[id] # NoValue

BlankMem == [cache |-> [id \in Cells |-> NoValue],
             clos |-> [id \in Cells |-> NoClosure], rdeps |-> {}]

----------------------------------------------------------------------------
\* The static closure and the links kept of it

\* One reference met while a formula is searched.  acc.members counts the
\* formula cells found; beyond the limit they are left out.
MeetReference(acc, id) ==
    LET formula == IsFormula(Raw(id))
        new == id \notin acc.found
    IN IF formula /\ new /\ acc.members >= MaxReach - 1 THEN acc
       ELSE [found |-> acc.found \cup {id},
             members |-> acc.members + (IF formula /\ new THEN 1 ELSE 0),
             visited |-> acc.visited \cup (IF formula THEN {id} ELSE {}),
             stack |-> IF formula /\ id \notin acc.visited
                       THEN Append(acc.stack, id) ELSE acc.stack]

RECURSIVE Search(_)
Search(acc) ==
    IF acc.stack = << >> THEN acc.found
    ELSE LET id == Last(acc.stack)
         IN Search(FoldLeft(MeetReference, [acc EXCEPT !.stack = Front(@)],
                            DirectReferences(Raw(id)[2], id[1])))

\* Cells the formula at id refers to, directly or through other formulas.
ClosureBelow(id) ==
    Search(FoldLeft(MeetReference,
                    [found |-> {}, members |-> 0, visited |-> {}, stack |-> << >>],
                    DirectReferences(Raw(id)[2], id[1])))

Unlinked(m, id) ==
    LET old == IF m.clos[id] = NoClosure THEN {} ELSE m.clos[id]
    IN [m EXCEPT !.clos[id] = NoClosure, !.rdeps = @ \ (old \X {id})]

\* Mutant: the links of the closure stored before are left behind.
LinkedOver(m, id) ==
    LET c == {id} \cup ClosureBelow(id)
    IN [m EXCEPT !.clos[id] = c, !.rdeps = @ \cup (c \X {id})]

Linked(m, id) ==
    LET c == {id} \cup ClosureBelow(id)
    IN [Unlinked(m, id) EXCEPT !.clos[id] = c, !.rdeps = @ \cup (c \X {id})]

----------------------------------------------------------------------------
\* get(): m carries the memory and, for this get() alone, how often the
\* computation of each cell was started and how many formula cells were reached

ForGet(m) == [cache |-> m.cache, clos |-> m.clos, rdeps |-> m.rdeps,
              starts |-> [id \in Cells |-> 0], reached |-> 0]
Kept(m) == [cache |-> m.cache, clos |-> m.clos, rdeps |-> m.rdeps]

Got(v, m) == [v |-> v, m |-> m]
\* An empty cell reads as 0 where a formula wants a value.
AsOperand(got) == IF got.v = Blank THEN Got(IntV(0), got.m) ELSE got

CellNodes(span) == [i \in DOMAIN span.addrs |-> <<"cell", << span.sheet, span.addrs[i] >> >>]

OtherFormulas(m, id) ==
    IF m.clos[id] = NoClosure THEN 0
    ELSE Cardinality({x \in m.clos[id] \ {id} : x[1] \in present /\ IsFormula(Raw(x))})

RECURSIVE EvCell(_, _, _), EvFormula(_, _, _), EvNode(_, _, _, _, _), EvArgs(_, _, _, _, _, _, _)

\* prog holds the cells being computed.
EvCell(id, prog, m) ==
    IF id[1] \notin present \/ id[2] \notin Addrs THEN Got(ErrV("#REF!"), m)
    ELSE IF id \in prog THEN Got(ErrV("#CYCLE!"), m)
    ELSE IF Raw(id) = Empty THEN Got(Blank, m)
    ELSE IF ~ IsFormula(Raw(id)) THEN Got(Raw(id), m)
    ELSE EvFormula(id, prog, m)

\* Mutant: a result is cached without its closure.
EvFormulaUnlinked(id, prog, m) ==
    LET m1 == [m EXCEPT !.reached = @ + 1]
    IN IF Cached(m1, id) THEN Got(m1.cache[id], m1)
       ELSE LET r == EvNode(Raw(id)[2], id[1], FALSE, prog \cup {id},
                            [m1 EXCEPT !.starts[id] = @ + 1])
            IN Got(r.v, [r.m EXCEPT !.cache[id] = r.v])

\* Mutant: a cached result is not looked for.
EvFormulaUncached(id, prog, m) ==
    LET r == EvNode(Raw(id)[2], id[1], FALSE, prog \cup {id}, [m EXCEPT !.starts[id] = @ + 1])
    IN Got(r.v, Linked([r.m EXCEPT !.cache[id] = r.v], id))

EvFormula(id, prog, m) ==
    LET parseError == ErrV("#PARSE!")
        m1 == [m EXCEPT !.reached = @ + 1]
        m2 == [m1 EXCEPT !.reached = @ + OtherFormulas(m1, id)]
    IN IF ~ InBounds(Raw(id)) THEN Got(parseError, [m EXCEPT !.cache[id] = parseError])
       ELSE IF m1.reached > MaxReach
       THEN Got(parseError, [m1 EXCEPT !.cache[id] = parseError])
       ELSE IF Cached(m1, id)
       THEN IF m2.reached > MaxReach THEN Got(parseError, m2) ELSE Got(m2.cache[id], m2)
       ELSE LET r == EvNode(Raw(id)[2], id[1], FALSE, prog \cup {id},
                            [m1 EXCEPT !.starts[id] = @ + 1])
            IN Got(r.v, Linked([r.m EXCEPT !.cache[id] = r.v], id))

\* A node of a formula on sheet s; deep inside CONCAT() or LEN().
EvNode(node, s, deep, prog, m) ==
    CASE node[1] \in {"int", "str"} -> Got(Within(node), m)
      [] node[1] = "now" -> Got(Within(IntV(clock)), m)
      [] node[1] = "bad" -> Got(ErrV("#PARSE!"), m)
      [] node[1] = "error" -> Got(ErrV(node[2]), m)
      [] node[1] = "cell" -> EvCell(node[2], prog, m)
      [] node[1] = "ref" -> AsOperand(EvCell(<< On(node[2], s), node[3] >>, prog, m))
      [] node[1] = "name" ->
            LET span == Span(node, s)
            IN IF "err" \in DOMAIN span THEN Got(ErrV(span.err), m)
               ELSE IF Len(span.addrs) > 1 THEN Got(ErrV("#REF!"), m)
               ELSE AsOperand(EvCell(<< span.sheet, span.addrs[1] >>, prog, m))
      [] node[1] = "agg" ->
            LET span == Span(node[3], s)
            IN IF "err" \in DOMAIN span THEN Got(ErrV(span.err), m)
               ELSE IF node[2] = "COUNT" /\ ~ deep THEN Got(Stored(span), m)
               ELSE EvArgs(node[2], CellNodes(span), << >>, s, deep, prog, m)
      [] node[1] = "op" /\ node[2] = "if" ->
            LET c == EvNode(node[3][1], s, deep, prog, m)
            IN IF c.v[1] # "int" THEN Got(Offence(c.v), c.m)
               ELSE EvNode(node[3][IF c.v[2] # 0 THEN 2 ELSE 3], s, deep, prog, c.m)
      [] node[1] = "op" /\ node[2] # "if" ->
            EvArgs(node[2], node[3], << >>, s, deep \/ node[2] \in {"CONCAT", "LEN"}, prog, m)

\* Arguments from left to right, up to one that f cannot take.
EvArgs(f, args, done, s, deep, prog, m) ==
    IF args = << >> THEN Got(Apply(f, done), m)
    ELSE LET r == EvNode(Head(args), s, deep, prog, m)
         IN IF Offends(f, done, r.v) THEN Got(Offence(r.v), r.m)
            ELSE EvArgs(f, Tail(args), Append(done, r.v), s, deep, prog, r.m)

Evaluate(id, m) == EvCell(id, {}, ForGet(m))

----------------------------------------------------------------------------
\* What an edit makes stale

Without(m, ids) == [m EXCEPT !.cache = [id \in Cells |-> IF id \in ids THEN NoValue ELSE @[id]]]

Dependents(m, ids) == {d \in Cells : \E x \in ids : << x, d >> \in m.rdeps}

\* Mutant: only the cells themselves are invalidated.
InvalidatedAlone(m, ids, there) == Without(m, {id \in ids : id[1] \in there})

\* Mutant: every cached result goes.
InvalidatedAll(m, ids, there) == Without(m, {id \in Cells : id[1] \in there})

\* The cached results of ids and of what depends on them, on the sheets there are.
Invalidated(m, ids, there) ==
    Without(m, {id \in ids \cup Dependents(m, ids) : id[1] \in there})

\* Set, copy, undo and redo of a cell.
Replaced(m, id) == Invalidated(Unlinked(m, id), {id}, present)

FormulaCells(s) == {id \in {s} \X Addrs : IsFormula(Raw(id))}

NameDependents(s, n) == {id \in FormulaCells(s) : MentionsName(Raw(id)[2], n)}

\* Mutant: only formulas of the sheet itself are looked at.
QualifierDependentsAtHome(s, there) ==
    {id \in FormulaCells(s) : InBounds(Raw(id)) /\ MentionsSheet(Raw(id)[2], s)}

QualifierDependents(s, there) ==
    {id \in UNION {FormulaCells(x) : x \in there} :
        InBounds(Raw(id)) /\ MentionsSheet(Raw(id)[2], s)}

SaysNow(id) == InBounds(Raw(id)) /\ MentionsNow(Raw(id)[2])

\* Mutant: only a formula that says NOW() itself is volatile.
VolatileDirect == {id \in Cells : id[1] \in present /\ SaysNow(id)}

Volatile ==
    {id \in Cells : /\ id[1] \in present /\ InBounds(Raw(id))
                    /\ \E x \in {id} \cup ClosureBelow(id) : SaysNow(x)}

FreshSheet(m, s) ==
    LET on == {s} \X Addrs
    IN [cache |-> [id \in Cells |-> IF id \in on THEN NoValue ELSE m.cache[id]],
        clos |-> [id \in Cells |-> IF id \in on THEN NoClosure ELSE m.clos[id]],
        rdeps |-> m.rdeps \ (Cells \X on)]

----------------------------------------------------------------------------
\* The operations, caches included

ESet(s, a, v) == SetCell(s, a, v) /\ mem' = Replaced(mem, << s, a >>)

ECopy(s, a, t, b) == Copy(s, a, t, b) /\ mem' = Replaced(mem, << t, b >>)

EDefineName(s, n, t) ==
    DefineName(s, n, t) /\ mem' = Invalidated(mem, NameDependents(s, n), present)

EAddSheet(s) ==
    /\ AddSheet(s)
    /\ mem' = Invalidated(FreshSheet(mem, s), QualifierDependents(s, present'), present')

DropCell(e) == mem' = Replaced(mem, << e.sheet, e.key >>)
DropName(e) == mem' = Invalidated(mem, NameDependents(e.sheet, e.key), present)
DropSheet(e) == mem' = Invalidated(mem, QualifierDependents(e.sheet, present'), present')
DropVolatile == mem' = Without(mem, Volatile)

EUndo ==
    \/ UndoCell /\ DropCell(Last(journal))
    \/ UndoName /\ DropName(Last(journal))
    \/ UndoAddSheet /\ DropSheet(Last(journal))
    \/ UndoClock /\ DropVolatile

ERedo ==
    \/ RedoCell /\ DropCell(Last(redo))
    \/ RedoName /\ DropName(Last(redo))
    \/ RedoAddSheet /\ DropSheet(Last(redo))
    \/ RedoClock /\ DropVolatile

EAdvanceClock == AdvanceClock /\ DropVolatile

EReload == Reload /\ mem' = BlankMem

Get(s, a) ==
    /\ s \in present
    /\ mem' = Kept(Evaluate(<< s, a >>, mem).m)
    /\ UNCHANGED vars

\* A new workbook, or one loaded from a file.
EInit ==
    /\ \E w \in Workbooks :
          /\ present = w.present /\ order = w.order /\ clock = w.clock
          /\ cells = w.cells /\ names = w.names
    /\ journal = << >> /\ redo = << >> /\ past = 0
    /\ mem = BlankMem

EEdit ==
    \/ \E s \in Sheets : EAddSheet(s)
    \/ \E s \in Sheets, a \in Addrs, v \in Raws : ESet(s, a, v)
    \/ \E s, t \in Sheets, a, b \in Addrs : ECopy(s, a, t, b)
    \/ \E s \in Sheets, n \in NameIds, t \in Targets : EDefineName(s, n, t)
    \/ EAdvanceClock

ENext == EEdit \/ EUndo \/ ERedo \/ EReload \/ (\E s \in Sheets, a \in Addrs : Get(s, a))

ESpec == EInit /\ [][ENext]_evars

----------------------------------------------------------------------------
\* Properties

\* Whatever was edited, undone, redone and read before, and in whichever
\* order: a get() of any cell answers what a full recomputation answers.
AnswersAreNaive == \A id \in Readable : Evaluate(id, mem).v = NaiveCell(id, {})

\* get() starts the computation of a formula cell at most once, only in its
\* reference closure and only without a cached result; it keeps the results
\* there are; a repeated get() starts none.
NoNeedlessWork ==
    \A id \in Readable : \A run \in {Evaluate(id, mem)} : \A again \in {Evaluate(id, run.m)} :
        /\ again.m.starts = [x \in Cells |-> 0] /\ again.v = run.v
        /\ \A x \in Cells :
              /\ Cached(mem, x) => run.m.cache[x] = mem.cache[x]
              /\ run.m.starts[x] > 0 =>
                     /\ run.m.starts[x] = 1 /\ ~ Cached(mem, x)
                     /\ x \in Closure(id)

\* The entry a journaled operation, undo() or redo() is about.
Mover == IF Len(journal') > Len(journal) THEN Last(journal') ELSE Last(journal)

TouchedOn(there, e) ==
    CASE e.op \in {"set", "copy"} -> {<< e.sheet, e.key >>}
      [] e.op = "define_name" -> NameDependents(e.sheet, e.key)
      [] e.op = "add_sheet" -> QualifierDependents(e.sheet, there)
      [] e.op = "advance_clock" -> {id \in Readable : IsFormula(Raw(id)) /\ SaysNow(id)}

Touched(e) == TouchedOn(present', e)

WrittenBy(e) ==
    CASE e.op \in {"set", "copy"} -> {<< e.sheet, e.key >>}
      [] e.op = "add_sheet" -> {e.sheet} \X Addrs
      [] OTHER -> {}

\* An edit, undo() or redo() drops the cached result of exactly the cells that
\* have something it touches in their reference closure.
ExactInvalidation ==
    [][ journal' # journal /\ Len(journal') + Len(redo') > 0 =>
            \A id \in Readable :
                Cached(mem, id) /\ id[1] \in present' /\ InBounds(Raw(id)) =>
                    (Cached(mem', id) <=> Closure(id) \cap Touched(Mover) = {})
      ]_evars

\* The engine as ClosureLinks sees it.  What is on a sheet that is not there has
\* no result.
Bookkeeping(below, answer) == INSTANCE ClosureLinks WITH
    Ids <- Cells,
    cache <- [id \in Cells |-> IF id[1] \in present THEN mem.cache[id] ELSE NoValue],
    clos <- mem.clos, links <- mem.rdeps

\* The contents before the entry e, the last one, was made.
Before(e) ==
    [present |-> IF e.op = "add_sheet" THEN present \ {e.sheet} ELSE present,
     cells |-> IF e.op \in {"set", "copy"} THEN [cells EXCEPT ![e.sheet][e.key] = e.old] ELSE cells,
     names |-> IF e.op = "define_name" THEN [names EXCEPT ![e.sheet][e.key] = e.old] ELSE names,
     clock |-> IF e.op = "advance_clock" THEN e.old ELSE clock]
At(c) == INSTANCE XlNaive WITH
    present <- c.present, cells <- c.cells, names <- c.names, clock <- c.clock

\* What the last operation changed, going forth or back, is nothing for a cell
\* that has no cell it touched below it.  Caches have no part in it.
LastEditIsLocal ==
    journal # << >> =>
        LET e == Last(journal)
            T == TouchedOn(present, e) \cup WrittenBy(e)
            Above(b) == {id \in Cells : b[id] \cap T # {}}
        IN \A then \in {At(Before(e))!Below}, was \in {At(Before(e))!Answers}, now \in {Below} :
            /\ Above(now) = Above(then)
            /\ \A id \in Cells \ Above(now) : then[id] = now[id] /\ was[id] = NaiveCell(id, {})

\* A cached result knows what it depends on now, and is linked from all of it;
\* and an operation changes what is below a cell only if it touches one below.
LinksAreCurrent ==
    /\ \A id \in Readable :
          Cached(mem, id) /\ InBounds(Raw(id)) => mem.clos[id] = Closure(id)
    /\ mem.rdeps = {<< x, d >> \in Cells \X Cells :
                        mem.clos[d] # NoClosure /\ x \in mem.clos[d]}
    /\ mem = BlankMem => LastEditIsLocal

\* What a step does to the results and the links is what ClosureLinks does: an
\* edit, undo() or redo() follows one link from the cells it touches, a get()
\* adds what a recomputation answers, linked from all that is below it.
KeepsTheBooks ==
    [][ IF journal' # journal /\ Len(journal') + Len(redo') > 0
        THEN \A T \in {Touched(Mover) \cup WrittenBy(Mover)} :
                IF Mover.op = "advance_clock" THEN Bookkeeping(Below, Answers)!Outdated(T)
                ELSE Bookkeeping(Below, Answers)!Invalidated(T, WrittenBy(Mover))
        ELSE \A below \in {Below}, answer \in {Answers} :
                \/ Bookkeeping(below, answer)!Forgotten
                \/ \E id \in Readable : Bookkeeping(below, answer)!Kept(id) ]_evars

----------------------------------------------------------------------------
\* Bounds

RECURSIVE ReachedFrom(_, _), ReachedIn(_, _, _)

ReachedFrom(id, prog) ==
    IF id \in prog \/ ~ IsFormula(Raw(id)) THEN {}
    ELSE {id} \cup ReachedIn(Raw(id)[2], id[1], prog \cup {id})

\* Formula cells a node's evaluation may reach: of an IF, one branch only.
ReachedIn(node, s, prog) ==
    CASE node[1] = "op" /\ node[2] = "if" ->
            LET c == Naive(node[3][1], s, prog)
            IN ReachedIn(node[3][1], s, prog) \cup
               (IF c[1] # "int" THEN {}
                ELSE ReachedIn(node[3][IF c[2] # 0 THEN 2 ELSE 3], s, prog))
      [] node[1] = "op" /\ node[2] # "if" ->
            UNION {ReachedIn(a, s, prog) : a \in ToSet(node[3])}
      [] OTHER ->
            LET leaf == IF node[1] = "agg" THEN node[3] ELSE node
            IN UNION {ReachedFrom(x, prog) : x \in ToSet(LeafCells(leaf, s))}

WithinBounds(id) ==
    LET reached == ReachedFrom(id, {})
    IN Cardinality(reached) <= MaxReach /\ \A x \in reached : InBounds(Raw(x))

\* A get() that reaches at most MaxReach formula cells, none of them too long,
\* answers what a full recomputation answers, whatever else the workbook holds.
ConfinedDamage ==
    \A id \in Readable : WithinBounds(id) => Evaluate(id, mem).v = NaiveCell(id, {})

\* The result of such a get() is dropped by every edit of what it depends on.
ConfinedStaleness ==
    [][ journal' # journal /\ Len(journal') + Len(redo') > 0 =>
            \A id \in Readable :
                /\ Cached(mem, id) /\ WithinBounds(id) /\ id[1] \in present'
                /\ Closure(id) \cap Touched(Mover) # {}
                => ~ Cached(mem', id)
      ]_evars
=============================================================================
