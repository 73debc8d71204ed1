----------------------------- MODULE XlContents -----------------------------
(***************************************************************************)
(* What a Workbook of the armK implementation stores, and the journal that *)
(* undo() and redo() walk: sheets in creation order, the raw contents of   *)
(* their cells, the names each of them binds, and the clock.  Formulas are *)
(* opaque here; XlEngine gives them a meaning and adds the caches.         *)
(*                                                                         *)
(* A sheet taken away by undo() keeps its _SheetState object in the redo   *)
(* entry.  cells[s] and names[s] are then the contents of that object.     *)
(*                                                                         *)
(* What the workbooks of armT and armS store otherwise is at the end.      *)
(***************************************************************************)
EXTENDS Naturals, Sequences, SequencesExt

CONSTANTS
    Sheets, Addrs, NameIds,
    Raws,              \* what set() can store: literals and formula texts
    Targets,           \* what define_name() can bind a name to
    Empty,             \* the cell has never been set
    Unbound,           \* the name is not defined
    NoSheet,           \* a target without a sheet qualifier
    QualifierOf(_),    \* the sheet a target is qualified with, or NoSheet
    CopyText(_, _, _), \* raw content as copy() stores it, from one address to another
    MaxOps             \* bound on the operations of a workbook and those it was loaded from

ASSUME SentinelAssumption ==
    /\ Empty \notin Raws /\ Unbound \notin Targets /\ NoSheet \notin Sheets
ASSUME TargetAssumption == \A t \in Targets : QualifierOf(t) \in Sheets \cup {NoSheet}
ASSUME CopyAssumption == \A v \in Raws, a, b \in Addrs : CopyText(v, a, b) \in Raws
ASSUME BoundAssumption == MaxOps \in Nat

VARIABLES
    present,   \* keys of _sheets
    order,     \* _order
    cells, names, clock,
    journal, redo,
    past       \* operations journaled before the last reload; only bounds the model

content == << present, order, cells, names, clock >>
vars == << content, journal, redo, past >>

BlankCells == [a \in Addrs |-> Empty]
BlankNames == [n \in NameIds |-> Unbound]

Entry == [op    : {"add_sheet", "set", "copy", "define_name", "advance_clock"},
          sheet : Sheets \cup {NoSheet},
          key   : Addrs \cup NameIds \cup {NoSheet},
          old   : Raws \cup {Empty} \cup Targets \cup {Unbound} \cup Nat,
          new   : Raws \cup Targets \cup Nat]

TypeOK ==
    /\ present \subseteq Sheets
    /\ order \in Seq(Sheets)
    /\ cells \in [Sheets -> [Addrs -> Raws \cup {Empty}]]
    /\ names \in [Sheets -> [NameIds -> Targets \cup {Unbound}]]
    /\ clock \in Nat
    /\ journal \in Seq(Entry) /\ redo \in Seq(Entry) /\ past \in Nat

Init ==
    /\ present = {} /\ order = << >> /\ clock = 0
    /\ cells = [s \in Sheets |-> BlankCells]
    /\ names = [s \in Sheets |-> BlankNames]
    /\ journal = << >> /\ redo = << >> /\ past = 0

----------------------------------------------------------------------------
\* Journaled operations

Record(op, s, k, old, new) ==
    [op |-> op, sheet |-> s, key |-> k, old |-> old, new |-> new]

\* Mutant: what was undone can still be redone after a new operation.
LogKeepRedo(e) ==
    /\ past + Len(journal) < MaxOps
    /\ journal' = Append(journal, e)
    /\ UNCHANGED << redo, past >>

\* A successful operation is journaled and forgets what could be redone.
Log(e) ==
    /\ past + Len(journal) < MaxOps
    /\ journal' = Append(journal, e)
    /\ redo' = << >>
    /\ UNCHANGED past

AddSheet(s) ==
    /\ s \notin present
    /\ present' = present \cup {s} /\ order' = Append(order, s)
    /\ cells' = [cells EXCEPT ![s] = BlankCells]
    /\ names' = [names EXCEPT ![s] = BlankNames]
    /\ Log(Record("add_sheet", s, NoSheet, 0, 0))
    /\ UNCHANGED clock

SetCell(s, a, v) ==
    /\ s \in present
    /\ cells' = [cells EXCEPT ![s][a] = v]
    /\ Log(Record("set", s, a, cells[s][a], v))
    /\ UNCHANGED << present, order, names, clock >>

\* Mutant: an empty source cell can be copied.
CopyEmptySource(s, a, t, b) ==
    /\ s \in present /\ t \in present
    /\ LET v == CopyText(cells[s][a], a, b)
       IN /\ cells' = [cells EXCEPT ![t][b] = v]
          /\ Log(Record("copy", t, b, cells[t][b], v))
    /\ UNCHANGED << present, order, names, clock >>

\* From cell a of sheet s to cell b of sheet t.
Copy(s, a, t, b) ==
    /\ s \in present /\ t \in present
    /\ cells[s][a] # Empty
    /\ LET v == CopyText(cells[s][a], a, b)
       IN /\ cells' = [cells EXCEPT ![t][b] = v]
          /\ Log(Record("copy", t, b, cells[t][b], v))
    /\ UNCHANGED << present, order, names, clock >>

ValidTarget(t) == QualifierOf(t) \in present \cup {NoSheet}

\* Mutant: a target is accepted whether or not its sheet exists.
DefineNameUnchecked(s, n, t) ==
    /\ s \in present
    /\ names' = [names EXCEPT ![s][n] = t]
    /\ Log(Record("define_name", s, n, names[s][n], t))
    /\ UNCHANGED << present, order, cells, clock >>

DefineName(s, n, t) ==
    /\ s \in present /\ ValidTarget(t)
    /\ names' = [names EXCEPT ![s][n] = t]
    /\ Log(Record("define_name", s, n, names[s][n], t))
    /\ UNCHANGED << present, order, cells, clock >>

AdvanceClock ==
    /\ clock' = clock + 1
    /\ Log(Record("advance_clock", NoSheet, NoSheet, clock, clock + 1))
    /\ UNCHANGED << present, order, cells, names >>

----------------------------------------------------------------------------
\* undo() and redo(): the entry changes stacks, then is reverted or applied

Undoing(ops) ==
    /\ journal # << >> /\ Last(journal).op \in ops
    /\ journal' = Front(journal)
    /\ redo' = Append(redo, Last(journal))
    /\ UNCHANGED past

Redoing(ops) ==
    /\ redo # << >> /\ Last(redo).op \in ops
    /\ redo' = Front(redo)
    /\ journal' = Append(journal, Last(redo))
    /\ UNCHANGED past

UndoAddSheet ==
    /\ Undoing({"add_sheet"})
    /\ LET s == Last(journal).sheet
       IN /\ present' = present \ {s}
          /\ order' = RemoveFirst(order, s)
    /\ UNCHANGED << cells, names, clock >>

RedoAddSheet ==
    /\ Redoing({"add_sheet"})
    /\ LET s == Last(redo).sheet
       IN present' = present \cup {s} /\ order' = Append(order, s)
    /\ UNCHANGED << cells, names, clock >>

\* Mutant: undo() of an overwriting edit removes the cell.
UndoCellPop ==
    /\ Undoing({"set", "copy"})
    /\ LET e == Last(journal) IN cells' = [cells EXCEPT ![e.sheet][e.key] = Empty]
    /\ UNCHANGED << present, order, names, clock >>

UndoCell ==
    /\ Undoing({"set", "copy"})
    /\ LET e == Last(journal) IN cells' = [cells EXCEPT ![e.sheet][e.key] = e.old]
    /\ UNCHANGED << present, order, names, clock >>

RedoCell ==
    /\ Redoing({"set", "copy"})
    /\ LET e == Last(redo) IN cells' = [cells EXCEPT ![e.sheet][e.key] = e.new]
    /\ UNCHANGED << present, order, names, clock >>

\* Mutant: undo() of a definition removes the name.
UndoNamePop ==
    /\ Undoing({"define_name"})
    /\ LET e == Last(journal) IN names' = [names EXCEPT ![e.sheet][e.key] = Unbound]
    /\ UNCHANGED << present, order, cells, clock >>

UndoName ==
    /\ Undoing({"define_name"})
    /\ LET e == Last(journal) IN names' = [names EXCEPT ![e.sheet][e.key] = e.old]
    /\ UNCHANGED << present, order, cells, clock >>

RedoName ==
    /\ Redoing({"define_name"})
    /\ LET e == Last(redo) IN names' = [names EXCEPT ![e.sheet][e.key] = e.new]
    /\ UNCHANGED << present, order, cells, clock >>

UndoClock ==
    /\ Undoing({"advance_clock"})
    /\ clock' = Last(journal).old
    /\ UNCHANGED << present, order, cells, names >>

RedoClock ==
    /\ Redoing({"advance_clock"})
    /\ clock' = Last(redo).new
    /\ UNCHANGED << present, order, cells, names >>

\* from_json(to_json()): a workbook with the same contents and no history.
\* to_json() writes the sheets of _order, from_json() the names that resolve.
Reload ==
    /\ \A i \in 1 .. Len(order) : order[i] \in present
    /\ \A s \in present, n \in NameIds :
          names[s][n] = Unbound \/ ValidTarget(names[s][n])
    /\ journal' = << >> /\ redo' = << >> /\ past' = past + Len(journal)
    /\ present' = {order[i] : i \in 1 .. Len(order)}
    /\ UNCHANGED << order, clock >>
    /\ cells' = [s \in Sheets |-> IF s \in present' THEN cells[s] ELSE BlankCells]
    /\ names' = [s \in Sheets |-> IF s \in present' THEN names[s] ELSE BlankNames]

Edit ==
    \/ \E s \in Sheets : AddSheet(s)
    \/ \E s \in Sheets, a \in Addrs, v \in Raws : SetCell(s, a, v)
    \/ \E s, t \in Sheets, a, b \in Addrs : Copy(s, a, t, b)
    \/ \E s \in Sheets, n \in NameIds, t \in Targets : DefineName(s, n, t)
    \/ AdvanceClock

Undo == UndoAddSheet \/ UndoCell \/ UndoName \/ UndoClock
Redo == RedoAddSheet \/ RedoCell \/ RedoName \/ RedoClock

Next == Edit \/ Undo \/ Redo \/ Reload

Spec == Init /\ [][Next]_vars

----------------------------------------------------------------------------
\* armT: a sheet comes with a new dictionary of cells; its names outlive it.
\* All its other operations store and journal what armK's do.

SheetComesT(s) ==
    /\ present' = present \cup {s} /\ order' = Append(order, s)
    /\ cells' = [cells EXCEPT ![s] = BlankCells]
    /\ UNCHANGED << names, clock >>

AddSheetT(s) ==
    s \notin present /\ SheetComesT(s) /\ Log(Record("add_sheet", s, NoSheet, 0, 0))

UndoAddSheetT ==
    /\ Undoing({"add_sheet"})
    /\ LET s == Last(journal).sheet
       IN /\ present' = present \ {s} /\ order' = RemoveFirst(order, s)
          /\ cells' = [cells EXCEPT ![s] = BlankCells]
    /\ UNCHANGED << names, clock >>

RedoAddSheetT == Redoing({"add_sheet"}) /\ SheetComesT(Last(redo).sheet)

EditT ==
    \/ \E s \in Sheets : AddSheetT(s)
    \/ \E s \in Sheets, a \in Addrs, v \in Raws : SetCell(s, a, v)
    \/ \E s, t \in Sheets, a, b \in Addrs : Copy(s, a, t, b)
    \/ \E s \in Sheets, n \in NameIds, t \in Targets : DefineName(s, n, t)
    \/ AdvanceClock

UndoT == UndoAddSheetT \/ UndoCell \/ UndoName \/ UndoClock
RedoT == RedoAddSheetT \/ RedoCell \/ RedoName \/ RedoClock

----------------------------------------------------------------------------
\* armS: names are not journaled, and redo() of a copy copies once more.

\* The entry names the source, not the text.
CopyS(s, a, t, b) ==
    /\ s \in present /\ t \in present
    /\ cells[s][a] # Empty
    /\ cells' = [cells EXCEPT ![t][b] = CopyText(cells[s][a], a, b)]
    /\ Log(Record("copy", t, b, cells[t][b], << s, a >>))
    /\ UNCHANGED << present, order, names, clock >>

DefineNameS(s, n, t) ==
    /\ s \in present /\ ValidTarget(t)
    /\ names' = [names EXCEPT ![s][n] = t]
    /\ UNCHANGED << present, order, cells, clock, journal, redo, past >>

\* A sheet goes and comes with all it holds.
UndoAddSheetS ==
    /\ Undoing({"add_sheet"})
    /\ LET s == Last(journal).sheet
       IN /\ present' = present \ {s} /\ order' = RemoveFirst(order, s)
          /\ cells' = [cells EXCEPT ![s] = BlankCells]
          /\ names' = [names EXCEPT ![s] = BlankNames]
    /\ UNCHANGED clock

RedoAddSheetS ==
    /\ Redoing({"add_sheet"})
    /\ LET s == Last(redo).sheet
       IN /\ present' = present \cup {s} /\ order' = Append(order, s)
          /\ cells' = [cells EXCEPT ![s] = BlankCells]
          /\ names' = [names EXCEPT ![s] = BlankNames]
    /\ UNCHANGED clock

RedoSetS ==
    /\ Redoing({"set"})
    /\ LET e == Last(redo) IN cells' = [cells EXCEPT ![e.sheet][e.key] = e.new]
    /\ UNCHANGED << present, order, names, clock >>

\* The source of a copy is gone.
SourceLost(e) == e.new[1] \notin present \/ cells[e.new[1]][e.new[2]] = Empty

\* Mutant: the text of the source is stored as it stands.
RedoCopyVerbatim ==
    /\ Redoing({"copy"})
    /\ LET e == Last(redo)
       IN cells' = IF SourceLost(e) THEN cells
                   ELSE [cells EXCEPT ![e.sheet][e.key] = cells[e.new[1]][e.new[2]]]
    /\ UNCHANGED << present, order, names, clock >>

\* Copies what the source holds now.
RedoCopyS ==
    /\ Redoing({"copy"})
    /\ LET e == Last(redo)
       IN cells' = IF SourceLost(e) THEN cells
                   ELSE [cells EXCEPT ![e.sheet][e.key] =
                            CopyText(cells[e.new[1]][e.new[2]], e.new[2], e.key)]
    /\ UNCHANGED << present, order, names, clock >>

\* The clock is set to what it was before the operation.
RedoClockS ==
    /\ Redoing({"advance_clock"})
    /\ clock' = Last(redo).old
    /\ UNCHANGED << present, order, cells, names >>

\* The names are not looked at.
ReloadS ==
    /\ journal' = << >> /\ redo' = << >> /\ past' = past + Len(journal)
    /\ UNCHANGED content

EditS ==
    \/ \E s \in Sheets : AddSheet(s)
    \/ \E s \in Sheets, a \in Addrs, v \in Raws : SetCell(s, a, v)
    \/ \E s, t \in Sheets, a, b \in Addrs : CopyS(s, a, t, b)
    \/ AdvanceClock

UndoS == UndoAddSheetS \/ UndoCell \/ UndoClock
RedoS == RedoAddSheetS \/ RedoSetS \/ RedoCopyS \/ RedoClockS
=============================================================================
