----------------------------- MODULE XlHistory -----------------------------
(***************************************************************************)
(* XlContents with the whole line of contents it went through carried      *)
(* along: hist[i] is what the workbook held when i - 1 operations of the   *)
(* present journal had been done.  Operations write it and never read it.  *)
(***************************************************************************)
EXTENDS XlContents

VARIABLE hist

hvars == << vars, hist >>

Snapshot == [present |-> present, order |-> order, cells |-> cells,
             names |-> names, clock |-> clock]

Points == [present : SUBSET Sheets, order : Seq(Sheets),
           cells : [Sheets -> [Addrs -> Raws \cup {Empty}]],
           names : [Sheets -> [NameIds -> Targets \cup {Unbound}]], clock : Nat]

HInit == Init /\ hist = << Snapshot >>

HNext ==
    \/ Edit /\ hist' = Append(SubSeq(hist, 1, Len(journal) + 1), Snapshot')
    \/ Undo /\ UNCHANGED hist
    \/ Redo /\ UNCHANGED hist
    \/ Reload /\ hist' = << Snapshot' >>

HSpec == HInit /\ [][HNext]_hvars

Line == INSTANCE TimeLine WITH First <- [present |-> {}, order |-> << >>,
                                         cells |-> [s \in Sheets |-> BlankCells],
                                         names |-> [s \in Sheets |-> BlankNames],
                                         clock |-> 0],
                               line <- hist, at <- Len(journal) + 1, now <- Snapshot

----------------------------------------------------------------------------
\* Properties

\* q is p but for the sheets, or for the cells, the names or the clock.
SameTables(p, q) == q.cells = p.cells /\ q.names = p.names
SameSheets(p, q) == q.present = p.present /\ q.order = p.order

\* e leads from contents p to contents q, and back.
Links(e, p, q) ==
    \/ /\ e.op = "add_sheet" /\ SameTables(p, q) /\ q.clock = p.clock
       /\ e.sheet \in Sheets \ p.present
       /\ p.cells[e.sheet] = BlankCells /\ p.names[e.sheet] = BlankNames
       /\ q.present = p.present \cup {e.sheet} /\ q.order = Append(p.order, e.sheet)
    \/ /\ e.op \in {"set", "copy"} /\ SameSheets(p, q)
       /\ q.names = p.names /\ q.clock = p.clock
       /\ e.sheet \in p.present /\ e.key \in Addrs /\ e.new \in Raws
       /\ p.cells[e.sheet][e.key] = e.old
       /\ q.cells = [p.cells EXCEPT ![e.sheet][e.key] = e.new]
    \/ /\ e.op = "define_name" /\ SameSheets(p, q)
       /\ q.cells = p.cells /\ q.clock = p.clock
       /\ e.sheet \in p.present /\ e.key \in NameIds /\ e.new \in Targets
       /\ p.names[e.sheet][e.key] = e.old
       /\ q.names = [p.names EXCEPT ![e.sheet][e.key] = e.new]
    \/ /\ e.op = "advance_clock" /\ SameSheets(p, q) /\ SameTables(p, q)
       /\ p.clock = e.old /\ e.new = e.old + 1 /\ q.clock = e.new

\* The sheet dictionary and the creation order name the same sheets, once each.
OrderMatches(p) ==
    /\ p.present = {p.order[i] : i \in 1 .. Len(p.order)}
    /\ \A i, j \in 1 .. Len(p.order) : p.order[i] = p.order[j] => i = j

\* No name is bound to a sheet the workbook does not have.
NamesResolve(p) ==
    \A s \in p.present, n \in NameIds :
        p.names[s][n] # Unbound => QualifierOf(p.names[s][n]) \in p.present \cup {NoSheet}

\* The object of a sheet that is not there holds nothing.
DetachedBlank(p) ==
    \A s \in Sheets \ p.present : p.cells[s] = BlankCells /\ p.names[s] = BlankNames

WellFormed(p) == OrderMatches(p) /\ NamesResolve(p) /\ DetachedBlank(p)

\* Where the workbook stands on its line.
StandsOnLine ==
    /\ hist \in Seq(Points)
    /\ Len(hist) = Len(journal) + Len(redo) + 1
    /\ hist[Len(journal) + 1] = Snapshot

\* The journal leads step by step from the first point to the present one.
JournalLinks ==
    \A i \in 1 .. Len(journal) : Links(journal[i], hist[i], hist[i + 1])

\* The redo stack, from its top downwards, leads on to the last one.
RedoLinks ==
    \A j \in 1 .. Len(redo) :
        LET i == Len(hist) - j IN Links(redo[j], hist[i], hist[i + 1])

AllWellFormed == \A i \in 1 .. Len(hist) : WellFormed(hist[i])

\* Every entry on either stack fits the contents it will be reverted from or
\* applied to: undo() and redo() restore exactly what was there, and never
\* find the sheet, name or cell of an entry missing half way through.
HistoryInv == StandsOnLine /\ JournalLinks /\ RedoLinks /\ AllWellFormed

\* undo() and redo() put back exactly what the workbook held at the neighbouring
\* point of its history, whichever operations made it, a new operation makes the
\* undone ones unreachable, and a reload keeps the contents.
ImplementsTimeLine == Line!Spec

\* Whatever was undone and redone, the workbook is well formed: in particular
\* no name dangles, and to_json() loses no sheet that from_json() needs.
AlwaysWellFormed == WellFormed(Snapshot)
=============================================================================
