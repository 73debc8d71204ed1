------------------------------- MODULE XlArms -------------------------------
(***************************************************************************)
(* The armT and the armS workbook side by side: their contents as XlLines  *)
(* has them, with the engine of each.  Neither engine reads hist.          *)
(***************************************************************************)
EXTENDS XlNaive, XlLines

CONSTANT NoValue

VARIABLES
    mem,
    plain,      \* ghost: nothing but set() and get() has happened
    removed     \* ghost: an add_sheet() has been undone

Thin == INSTANCE XlThin
Solo == INSTANCE XlSolo

avars == << lvars, mem, plain, removed >>

AInit ==
    /\ LInit
    /\ mem = IF arm = "thin" THEN Thin!BlankMem ELSE Solo!BlankMem
    /\ plain = TRUE /\ removed = FALSE

ThinNext ==
    \/ Thin!TEdit /\ Written
    \/ (Thin!TUndo \/ Thin!TRedo) /\ UNCHANGED hist
    \/ Thin!TReload /\ hist' = << Snapshot' >>
    \/ \E s \in Sheets, a \in Addrs : Thin!Get(s, a) /\ UNCHANGED hist

SoloNext ==
    \/ Solo!SEdit /\ Written
    \/ \E s \in Sheets, n \in NameIds, t \in Targets :
          Solo!SDefineName(s, n, t) /\ UNCHANGED hist
    \/ (Solo!SUndo \/ Solo!SRedo) /\ UNCHANGED hist
    \/ Solo!SReload /\ hist' = << Snapshot' >>
    \/ \E s \in Sheets, a \in Addrs : Solo!Get(s, a) /\ UNCHANGED hist

IsSet == Len(journal') > Len(journal) /\ redo' = << >> /\ Last(journal').op = "set"
IsUndo == Len(journal') < Len(journal) /\ Len(redo') > Len(redo)

ANext ==
    /\ \/ arm = "thin" /\ ThinNext
       \/ arm = "solo" /\ SoloNext
    /\ plain' = (plain /\ (IsSet \/ UNCHANGED vars))
    /\ removed' = (removed \/ (IsUndo /\ Last(journal).op = "add_sheet"))
    /\ UNCHANGED arm

ASpec == AInit /\ [][ANext]_avars

\* What get() would answer now, and the memory it would leave.
Evaluate(id) == IF arm = "thin" THEN Thin!Evaluate(id) ELSE Solo!Evaluate(id)

----------------------------------------------------------------------------
\* Properties

NothingKept == mem = Thin!BlankMem

\* The links of armT as LazyLinks sees them, and what contents c are to it.
Lazy(contents) == INSTANCE LazyLinks WITH
    Ids <- Cells, cache <- mem.cache, links <- mem.rev
At(c) == INSTANCE XlThin WITH
    present <- c.present, order <- c.order, cells <- c.cells, names <- c.names, clock <- c.clock

\* The cells whose stored contents the entry e is about, in contents with it.
Touched(e) ==
    CASE e.op \in {"set", "copy"} -> {<< e.sheet, e.key >>}
      [] e.op = "define_name" -> Thin!Named(e.sheet, e.key)
      [] e.op = "add_sheet" -> Thin!Qualified(e.sheet, present \cup {e.sheet})
                               \cup ({e.sheet} \X Addrs)
      [] e.op = "advance_clock" -> Thin!Volatile

FormulasBelow(id) == {x \in Closure(id) : IsFormula(Raw(x))}

\* Where an engine is held to the naive answer.  armS drops too little on
\* everything but a set(), takes the members of a range that are empty for 0
\* and reports another error for some erring formulas.
Comparable(id) ==
    arm = "solo" =>
        /\ plain /\ NaiveCell(id, {})[1] # "err"
        /\ \A x \in FormulasBelow(id) :
              \A l \in ToSet(Leaves(Raw(x)[2])) : l[1] \notin {"name", "range"}

\* A get() of any cell answers what a recomputation from the stored contents
\* answers: of armT whatever was edited, undone, redone and read before.
AnswersAreNaive ==
    \A id \in Readable : Comparable(id) => Evaluate(id).v = NaiveCell(id, {})

\* The same of either engine with no exception: what the specification says.
EveryAnswerNaive == \A id \in Readable : Evaluate(id).v = NaiveCell(id, {})

\* What the last operation changed, going forth or back, is nothing for a
\* formula that depends on no cell it touched.  Caches have no part in it.
LastEditIsLocal ==
    NothingKept /\ journal # << >> =>
        \A now \in {Thin!Readings}, then \in {At(hist[Len(journal)])!Readings},
           T \in {Touched(Last(journal))} :
            Lazy(now)!SameOutside(T, then, now) /\ Lazy(now)!SameOutside(T, now, then)

\* armT: a cached result is linked from the cells its formula refers to now, by
\* whatever name, and only a cached result has links of its own; what was
\* evaluated for it has a result too, or reads nothing; and a step along the
\* line of contents is local to the cells its entry touches.
LinksAreCurrent ==
    arm = "thin" =>
      /\ LastEditIsLocal
      /\ \A now \in {Thin!Readings} :
            Lazy(now)!LinksSuffice /\ (NothingKept => Lazy(now)!IsContents(now))
      /\ \A id \in Cells :
            IF mem.cache[id] = NoValue THEN mem.fwd[id] = {}
            ELSE /\ id \in Readable
                 /\ {x \in mem.fwd[id] : x[1] \in present}
                        = ToSet(DirectReferences(Raw(id)[2], id[1]))
                 /\ mem.fwd[id] \X {id} \subseteq mem.rev

\* armT: a get() starts the computation of a formula at most once, only in the
\* closure of the cell and only without a result, keeps the results there are,
\* and leaves behind what a get() of LazyLinks does.
StartsOnlyNeeded ==
    arm = "thin" =>
        \A now \in {Thin!Readings} : \A id \in Readable :
            \A m \in {Evaluate(id).m}, below \in {Closure(id)} :
                /\ Lazy(now)!Leaves(id, m.cache, m.rev)
                /\ \A x \in Cells :
                      /\ m.starts[x] > 0 =>
                            m.starts[x] = 1 /\ mem.cache[x] = NoValue /\ x \in below
                      /\ mem.cache[x] # NoValue => m.cache[x] = mem.cache[x]

\* The entry a journaled operation, undo() or redo() is about.
Mover == IF Len(journal') > Len(journal) THEN Last(journal') ELSE Last(journal)

\* A step of armT that is no get() is a walk of LazyLinks.
WalksTheLinks ==
    LET gone == {id \in Cells : mem.cache[id] # NoValue /\ mem'.cache[id] = NoValue}
        Walk(T, R) == Lazy(Thin!Readings)!Walk(T, R)
    IN IF journal' # journal /\ Len(journal') + Len(redo') > 0
       THEN Walk(Touched(Mover), gone \cup Touched(Mover))
       ELSE Walk({}, Cells) \/ \E id \in Readable : Thin!Get(id[1], id[2])

\* A step of either engine stores what one of XlLines does.  armT: an edit,
\* undo() or redo() drops the result of no formula that it does not reach,
\* unless an add_sheet() was undone; it leaves the result of one it does reach
\* only if a formula between them was never computed; and every step is a
\* get() or gives up what a walk of LazyLinks gives up.
EditBounds ==
    [][ /\ UNCHANGED lvars \/ LNext
        /\ arm = "thin" => WalksTheLinks
        /\ arm = "thin" /\ journal' # journal /\ Len(journal') + Len(redo') > 0 =>
            \A id \in Readable :
                mem.cache[id] # NoValue /\ id[1] \in present' =>
                    IF Closure(id) \cap Touched(Mover) = {}
                    THEN mem'.cache[id] # NoValue \/ removed'
                    ELSE \/ mem'.cache[id] = NoValue
                         \/ \E x \in FormulasBelow(id) : mem.cache[x] = NoValue ]_avars
=============================================================================
