--------------------------- MODULE XlTwinsProofs ---------------------------
(***************************************************************************)
(* armK and the reference workbook of the graders take the same calls and  *)
(* store the same, for any sheets, cells, names and contents and any       *)
(* number of operations.  Before that, the counters of armK's sheets;      *)
(* after it, the lines of contents that armT and armS walk.                *)
(***************************************************************************)
EXTENDS XlTwins, XlLines, XlProofs

----------------------------------------------------------------------------
(*                              The counters                                *)

CInv == CTypeOK /\ SavedIsLast

(***************************************************************************)
(* What does not concern the counters takes no sheet away.                 *)
(***************************************************************************)
LEMMA OtherKeepsSheets == ASSUME COther PROVE present \subseteq present'
<1>1. CASE \E s \in Sheets, a \in Addrs, v \in Raws : SetCell(s, a, v)
  BY <1>1 DEF SetCell
<1>2. CASE \E s, t \in Sheets, a, b \in Addrs : Copy(s, a, t, b)
  BY <1>2 DEF Copy
<1>3. CASE \E s \in Sheets, n \in NameIds, t \in Targets : DefineName(s, n, t)
  BY <1>3 DEF DefineName
<1>4. CASE AdvanceClock \/ UndoCell \/ UndoName \/ UndoClock
  BY <1>4 DEF AdvanceClock, UndoCell, UndoName, UndoClock
<1>5. CASE Redo
  BY <1>5 DEF Redo, RedoAddSheet, RedoCell, RedoName, RedoClock
<1> QED BY <1>1, <1>2, <1>3, <1>4, <1>5 DEF COther, CEdit, CWalk, CUndoOther, CRedo

(***************************************************************************)
(* The counter saved for a sheet that is away is its last one.  An         *)
(* inductive invariant: only undo() takes a sheet away, and saves it then. *)
(***************************************************************************)
LEMMA CountersStep ==
  ASSUME CInv, [CNext]_cvars
  PROVE  CInv' /\ (Reload \/ \A s \in Sheets : evals'[s] >= evals[s])
<1> USE DEF CInv, CTypeOK, SavedIsLast
<1>1. ASSUME NEW s \in Sheets, CAddSheet(s)
      PROVE  CInv' /\ (\A r \in Sheets : evals'[r] >= evals[r])
  <2>1. present' = present \cup {s} /\ saved' = saved
    BY <1>1 DEF CAddSheet, AddSheet
  <2>2. s \notin present /\ saved[s] = evals[s] /\ evals' = [evals EXCEPT ![s] = saved[s]]
    BY <1>1 DEF CAddSheet, AddSheet
  <2> QED BY <2>1, <2>2
<1>2. ASSUME NEW s \in Sheets, Started(s)
      PROVE  CInv' /\ (\A r \in Sheets : evals'[r] >= evals[r])
  <2>1. /\ s \in present /\ present' = present /\ saved' = saved
        /\ evals' = [evals EXCEPT ![s] = evals[s] + 1]
    BY <1>2 DEF Started, vars, content
  <2> QED BY <2>1
<1>3. CASE CUndoAddSheet
  <2> DEFINE l == Last(journal).sheet
  <2>1. present' = present \ {l}
    BY <1>3 DEF CUndoAddSheet, UndoAddSheet
  <2>2. evals' = evals /\ saved' = [saved EXCEPT ![l] = evals[l]]
    BY <1>3 DEF CUndoAddSheet
  <2> HIDE DEF l
  <2>3. \A s \in Sheets : saved'[s] = IF s = l THEN evals[s] ELSE saved[s]
    BY <2>2
  <2>4. saved' = [s \in Sheets |-> saved'[s]]
    BY <2>2
  <2>5. CTypeOK'
    <3>1. \A s \in Sheets : saved'[s] \in Nat
      BY <2>3
    <3>2. evals' \in [Sheets -> Nat]
      BY <2>2
    <3> QED BY <2>4, <3>1, <3>2
  <2>6. SavedIsLast'
    BY <2>1, <2>2, <2>3
  <2>7. \A s \in Sheets : evals'[s] >= evals[s]
    BY <2>2
  <2> QED BY <2>5, <2>6, <2>7
<1>4. CASE COther
  <2>1. present \subseteq present' /\ evals' = evals /\ saved' = saved
    BY <1>4, OtherKeepsSheets DEF COther, CEdit, CWalk, CUndoOther, CRedo
  <2> QED BY <2>1
<1>5. CASE UNCHANGED cvars
  BY <1>5 DEF cvars, vars, content
<1>6. CASE CReload
  BY <1>6 DEF CReload
<1> QED BY <1>1, <1>2, <1>3, <1>4, <1>5, <1>6 DEF CNext, COther

(***************************************************************************)
(* The eval_count that undo() saves is the one a name comes back with, for *)
(* any sheets and any number of operations and evaluations.                *)
(***************************************************************************)
THEOREM SavedAlwaysLast == CSpec => [](CTypeOK /\ SavedIsLast)
<1>1. CInit => CInv
  BY DEF CInit, CInv, CTypeOK, SavedIsLast
<1>2. CInv /\ [CNext]_cvars => CInv'
  BY CountersStep
<1>3. CInv => CTypeOK /\ SavedIsLast
  BY DEF CInv
<1> QED BY <1>1, <1>2, <1>3, PTL DEF CSpec

(***************************************************************************)
(* No eval_count ever drops before the workbook is saved and loaded again, *)
(* for any sheets and any number of operations and evaluations.            *)
(***************************************************************************)
THEOREM NoCountDrops == CSpec => CountsNeverDrop
<1>1. CSpec => []CInv
  BY SavedAlwaysLast, PTL DEF CInv
<1>2. CInv /\ [CNext]_cvars => [Reload \/ \A s \in Sheets : evals'[s] >= evals[s]]_cvars
  BY CountersStep
<1> QED BY <1>1, <1>2, PTL DEF CSpec, CountsNeverDrop

----------------------------------------------------------------------------
\* Stacks

Pictures == {EntryOf(e) : e \in Entry}

LEMMA PicturedSeq ==
  ASSUME NEW q \in Seq(Entry)
  PROVE  /\ Pictured(q) \in Seq(Pictures) /\ Len(Pictured(q)) = Len(q)
         /\ \A i \in 1 .. Len(q) : Pictured(q)[i] = EntryOf(q[i])
<1> DEFINE P(i) == EntryOf(q[i])
<1>1. Len(q) \in Nat /\ \A i \in 1 .. Len(q) : P(i) \in Pictures
  BY DEF Pictures
<1> QED BY <1>1 DEF Pictured

LEMMA PicturedEmpty == Pictured(<< >>) = << >>
  BY DEF Pictured

(***************************************************************************)
(* append() and pop() of armK's stacks, seen in the reference's.           *)
(***************************************************************************)
LEMMA PicturedAppend ==
  ASSUME NEW q \in Seq(Entry), NEW e \in Entry
  PROVE  Pictured(Append(q, e)) = Append(Pictured(q), EntryOf(e))
<1> DEFINE r == Append(q, e)
           s == Append(Pictured(q), EntryOf(e))
<1>1. /\ r \in Seq(Entry) /\ Len(r) = Len(q) + 1 /\ Len(q) \in Nat
      /\ \A j \in 1 .. Len(q) : r[j] = q[j]
      /\ r[Len(q) + 1] = e
  BY AppendSeq
<1>2. EntryOf(e) \in Pictures
  BY DEF Pictures
<1>3. /\ s \in Seq(Pictures) /\ Len(s) = Len(q) + 1
      /\ \A j \in 1 .. Len(q) : s[j] = EntryOf(q[j])
      /\ s[Len(q) + 1] = EntryOf(e)
  BY <1>2, PicturedSeq, AppendSeq
<1> HIDE DEF r, s
<1>4. /\ Pictured(r) \in Seq(Pictures) /\ Len(Pictured(r)) = Len(q) + 1
      /\ \A j \in 1 .. Len(q) + 1 : Pictured(r)[j] = EntryOf(r[j])
  BY <1>1, PicturedSeq
<1>5. \A j \in 1 .. Len(q) + 1 : Pictured(r)[j] = s[j]
  BY <1>1, <1>3, <1>4
<1>6. Pictured(r) = s
  BY <1>3, <1>4, <1>5, SeqEqual
<1> QED BY <1>6 DEF r, s

LEMMA PicturedPop ==
  ASSUME NEW q \in Seq(Entry), q # << >>
  PROVE  /\ Pictured(q) # << >> /\ Last(q) \in Entry
         /\ Last(Pictured(q)) = EntryOf(Last(q))
         /\ Pictured(Front(q)) = Front(Pictured(q))
<1> DEFINE n == Len(q)
           p == Pictured(q)
<1>1. n \in Nat \ {0} /\ n \in 1 .. n
  BY EmptySeq
<1>2. /\ p \in Seq(Pictures) /\ Len(p) = n /\ \A i \in 1 .. n : p[i] = EntryOf(q[i])
  BY PicturedSeq
<1>3. p # << >> /\ Last(p) = EntryOf(Last(q)) /\ Last(q) \in Entry
  BY <1>1, <1>2 DEF Last
<1>4. /\ Front(q) \in Seq(Entry) /\ Len(Front(q)) = n - 1
      /\ \A j \in 1 .. n - 1 : Front(q)[j] = q[j]
  BY FrontSeq DEF Front
<1>5. /\ Front(p) \in Seq(Pictures) /\ Len(Front(p)) = n - 1
      /\ \A j \in 1 .. n - 1 : Front(p)[j] = p[j]
  <2> HIDE DEF p
  <2> QED BY <1>2, <1>3, FrontSeq DEF Front
<1>6. /\ Pictured(Front(q)) \in Seq(Pictures) /\ Len(Pictured(Front(q))) = n - 1
      /\ \A j \in 1 .. n - 1 : Pictured(Front(q))[j] = EntryOf(Front(q)[j])
  BY <1>4, PicturedSeq
<1>7. \A j \in 1 .. n - 1 : Pictured(Front(q))[j] = Front(p)[j]
  BY <1>1, <1>2, <1>4, <1>5, <1>6
<1> QED
  <2> HIDE DEF n, p
  <2> QED BY <1>3, <1>5, <1>6, <1>7, SeqEqual DEF p

----------------------------------------------------------------------------
\* Contents

\* Contents as the reference stores them.
BookOf(p) == [sheets |-> p.order, clock |-> p.clock, cells |-> p.cells, names |-> p.names]

LEMMA SameRemoveFirst ==
  ASSUME NEW q, NEW s
  PROVE  Reference!RemoveFirst(q, s) = RemoveFirst(q, s)
  BY DEF Reference!RemoveFirst, RemoveFirst, Reference!RemoveAt, RemoveAt,
         Reference!SelectInSeq, SelectInSeq, Reference!Min, Min

LEMMA SameBlanks ==
  Reference!NoCells = BlankCells /\ Reference!NoBindings = BlankNames
  BY DEF Reference!NoCells, BlankCells, Reference!NoBindings, BlankNames

(***************************************************************************)
(* What an entry of armK's journal leads to, the reference's entry leads   *)
(* to as well.                                                             *)
(***************************************************************************)
LEMMA AppliedAlike ==
  ASSUME NEW e \in Entry, NEW p \in Points, NEW q \in Points, Links(e, p, q),
         book = BookOf(p)
  PROVE  Reference!Applied(EntryOf(e)) = BookOf(q)
<1>1. /\ p.cells \in [Sheets -> [Addrs -> Raws \cup {Empty}]]
      /\ p.names \in [Sheets -> [NameIds -> Targets \cup {Unbound}]]
      /\ p.clock \in Nat
  BY DEF Points
<1>2. CASE e.op = "add_sheet"
  <2>1. /\ e.sheet \in Sheets /\ q.order = Append(p.order, e.sheet)
        /\ q.cells = p.cells /\ q.names = p.names /\ q.clock = p.clock
        /\ p.cells[e.sheet] = BlankCells /\ p.names[e.sheet] = BlankNames
    BY <1>2 DEF Links, SameTables
  <2>2. EntryOf(e) = <<"sheet", e.sheet>>
    BY <1>2 DEF EntryOf
  <2>3. /\ [p.cells EXCEPT ![e.sheet] = BlankCells] = p.cells
        /\ [p.names EXCEPT ![e.sheet] = BlankNames] = p.names
    BY <1>1, <2>1
  <2>4. Reference!Applied(<<"sheet", e.sheet>>) =
          [sheets |-> Append(p.order, e.sheet), clock |-> p.clock,
           cells |-> [p.cells EXCEPT ![e.sheet] = BlankCells],
           names |-> [p.names EXCEPT ![e.sheet] = BlankNames]]
    BY SameBlanks DEF Reference!Applied, BookOf
  <2> QED BY <2>1, <2>2, <2>3, <2>4 DEF BookOf
<1>3. CASE e.op \in {"set", "copy"}
  <2>1. /\ q.cells = [p.cells EXCEPT ![e.sheet][e.key] = e.new]
        /\ q.order = p.order /\ q.names = p.names /\ q.clock = p.clock
    BY <1>3 DEF Links, SameSheets
  <2>2. EntryOf(e) = <<"cell", e.sheet, e.key, e.old, e.new>>
    BY <1>3 DEF EntryOf
  <2>3. Reference!Applied(<<"cell", e.sheet, e.key, e.old, e.new>>) =
          [sheets |-> p.order, clock |-> p.clock, names |-> p.names,
           cells |-> [p.cells EXCEPT ![e.sheet][e.key] = e.new]]
    BY DEF Reference!Applied, BookOf
  <2> QED BY <2>1, <2>2, <2>3 DEF BookOf
<1>4. CASE e.op = "define_name"
  <2>1. /\ q.names = [p.names EXCEPT ![e.sheet][e.key] = e.new]
        /\ q.order = p.order /\ q.cells = p.cells /\ q.clock = p.clock
    BY <1>4 DEF Links, SameSheets
  <2>2. EntryOf(e) = <<"name", e.sheet, e.key, e.old, e.new>>
    BY <1>4 DEF EntryOf
  <2>3. Reference!Applied(<<"name", e.sheet, e.key, e.old, e.new>>) =
          [sheets |-> p.order, clock |-> p.clock, cells |-> p.cells,
           names |-> [p.names EXCEPT ![e.sheet][e.key] = e.new]]
    BY DEF Reference!Applied, BookOf
  <2> QED BY <2>1, <2>2, <2>3 DEF BookOf
<1>5. CASE e.op = "advance_clock"
  <2>1. /\ q.clock = p.clock + 1
        /\ q.order = p.order /\ q.cells = p.cells /\ q.names = p.names
    BY <1>5 DEF Links, SameSheets, SameTables
  <2>2. EntryOf(e) = <<"clock">>
    BY <1>5 DEF EntryOf
  <2>3. Reference!Applied(<<"clock">>) =
          [sheets |-> p.order, clock |-> p.clock + 1, cells |-> p.cells, names |-> p.names]
    BY DEF Reference!Applied, BookOf
  <2> QED BY <2>1, <2>2, <2>3 DEF BookOf
<1> QED BY <1>2, <1>3, <1>4, <1>5 DEF Links

(***************************************************************************)
(* And what it leads back to, too.                                         *)
(***************************************************************************)
LEMMA RevertedAlike ==
  ASSUME NEW e \in Entry, NEW p \in Points, NEW q \in Points, Links(e, p, q),
         WellFormed(p), book = BookOf(q)
  PROVE  Reference!Reverted(EntryOf(e)) = BookOf(p)
<1>1. /\ p.cells \in [Sheets -> [Addrs -> Raws \cup {Empty}]]
      /\ p.names \in [Sheets -> [NameIds -> Targets \cup {Unbound}]]
      /\ p.clock \in Nat /\ p.order \in Seq(Sheets) /\ p.present \subseteq Sheets
  BY DEF Points
<1>2. CASE e.op = "add_sheet"
  <2>1. /\ e.sheet \in Sheets \ p.present /\ q.order = Append(p.order, e.sheet)
        /\ q.cells = p.cells /\ q.names = p.names /\ q.clock = p.clock
        /\ p.cells[e.sheet] = BlankCells /\ p.names[e.sheet] = BlankNames
    BY <1>2 DEF Links, SameTables
  <2>2. EntryOf(e) = <<"sheet", e.sheet>>
    BY <1>2 DEF EntryOf
  <2>3. /\ [p.cells EXCEPT ![e.sheet] = BlankCells] = p.cells
        /\ [p.names EXCEPT ![e.sheet] = BlankNames] = p.names
    BY <1>1, <2>1
  <2>4. \A i \in 1 .. Len(p.order) : p.order[i] # e.sheet
    BY <2>1 DEF WellFormed, OrderMatches
  <2>5. RemoveFirst(Append(p.order, e.sheet), e.sheet) = p.order
    BY <1>1, <2>1, <2>4, RemoveLast
  <2>6. Reference!Reverted(<<"sheet", e.sheet>>) =
          [sheets |-> Reference!RemoveFirst(Append(p.order, e.sheet), e.sheet),
           clock |-> p.clock,
           cells |-> [p.cells EXCEPT ![e.sheet] = BlankCells],
           names |-> [p.names EXCEPT ![e.sheet] = BlankNames]]
    BY <2>1, SameBlanks DEF Reference!Reverted, BookOf
  <2> QED BY <2>2, <2>3, <2>5, <2>6, SameRemoveFirst DEF BookOf
<1>3. CASE e.op \in {"set", "copy"}
  <2>1. /\ e.sheet \in Sheets /\ e.key \in Addrs /\ p.cells[e.sheet][e.key] = e.old
        /\ q.cells = [p.cells EXCEPT ![e.sheet][e.key] = e.new]
        /\ q.order = p.order /\ q.names = p.names /\ q.clock = p.clock
    BY <1>1, <1>3 DEF Links, SameSheets
  <2>2. EntryOf(e) = <<"cell", e.sheet, e.key, e.old, e.new>>
    BY <1>3 DEF EntryOf
  <2>3. [q.cells EXCEPT ![e.sheet][e.key] = e.old] = p.cells
    <3> DEFINE f == p.cells
               g == q.cells
               s == e.sheet
               k == e.key
               new == e.new
    <3>1. /\ f \in [Sheets -> [Addrs -> Raws \cup {Empty}]] /\ s \in Sheets /\ k \in Addrs
          /\ g = [f EXCEPT ![s][k] = new]
      BY <1>1, <2>1
    <3> HIDE DEF f, g, s, k, new
    <3>2. \A h : h = [g EXCEPT ![s][k] = f[s][k]] => h = f
      BY <3>1, PutBack
    <3> QED BY <2>1, <3>2 DEF f, g, s, k
  <2>4. Reference!Reverted(<<"cell", e.sheet, e.key, e.old, e.new>>) =
          [sheets |-> q.order, clock |-> q.clock, names |-> q.names,
           cells |-> [q.cells EXCEPT ![e.sheet][e.key] = e.old]]
    BY DEF Reference!Reverted, BookOf
  <2> QED BY <2>1, <2>2, <2>3, <2>4 DEF BookOf
<1>4. CASE e.op = "define_name"
  <2>1. /\ e.sheet \in Sheets /\ e.key \in NameIds /\ p.names[e.sheet][e.key] = e.old
        /\ q.names = [p.names EXCEPT ![e.sheet][e.key] = e.new]
        /\ q.order = p.order /\ q.cells = p.cells /\ q.clock = p.clock
    BY <1>1, <1>4 DEF Links, SameSheets
  <2>2. EntryOf(e) = <<"name", e.sheet, e.key, e.old, e.new>>
    BY <1>4 DEF EntryOf
  <2>3. [q.names EXCEPT ![e.sheet][e.key] = e.old] = p.names
    <3> DEFINE f == p.names
               g == q.names
               s == e.sheet
               k == e.key
               new == e.new
    <3>1. /\ f \in [Sheets -> [NameIds -> Targets \cup {Unbound}]] /\ s \in Sheets /\ k \in NameIds
          /\ g = [f EXCEPT ![s][k] = new]
      BY <1>1, <2>1
    <3> HIDE DEF f, g, s, k, new
    <3>2. \A h : h = [g EXCEPT ![s][k] = f[s][k]] => h = f
      BY <3>1, PutBack
    <3> QED BY <2>1, <3>2 DEF f, g, s, k
  <2>4. Reference!Reverted(<<"name", e.sheet, e.key, e.old, e.new>>) =
          [sheets |-> q.order, clock |-> q.clock, cells |-> q.cells,
           names |-> [q.names EXCEPT ![e.sheet][e.key] = e.old]]
    BY DEF Reference!Reverted, BookOf
  <2> QED BY <2>1, <2>2, <2>3, <2>4 DEF BookOf
<1>5. CASE e.op = "advance_clock"
  <2>1. /\ q.clock = p.clock + 1
        /\ q.order = p.order /\ q.cells = p.cells /\ q.names = p.names
    BY <1>5 DEF Links, SameSheets, SameTables
  <2>2. EntryOf(e) = <<"clock">>
    BY <1>5 DEF EntryOf
  <2>3. Reference!Reverted(<<"clock">>) =
          [sheets |-> q.order, clock |-> q.clock - 1, cells |-> q.cells, names |-> q.names]
    BY DEF Reference!Reverted, BookOf
  <2>4. q.clock - 1 = p.clock
    BY <1>1, <2>1
  <2> QED BY <2>1, <2>2, <2>3, <2>4 DEF BookOf
<1> QED BY <1>2, <1>3, <1>4, <1>5 DEF Links

----------------------------------------------------------------------------
\* The invariant of the two workbooks

Alike ==
    /\ book = BookOf(Snapshot)
    /\ rjournal = Pictured(journal) /\ rredo = Pictured(redo)

TInv == HInv /\ CInv /\ Alike

(***************************************************************************)
(* Both look for the same sheets.                                          *)
(***************************************************************************)
LEMMA HasPresent ==
  ASSUME TInv, NEW s
  PROVE  Reference!Has(s) <=> s \in present
<1>1. present = {order[i] : i \in 1 .. Len(order)} /\ order \in Seq(Sheets)
  BY SnapshotWellFormed DEF TInv, WellFormed, OrderMatches, Snapshot, HInv, TypeOK
<1>2. book.sheets = order
  BY DEF TInv, Alike, BookOf, Snapshot
<1> QED BY <1>1, <1>2 DEF Reference!Has, Reference!ToSet

(***************************************************************************)
(* An operation both journal.                                              *)
(***************************************************************************)
LEMMA JournaledAlike ==
  ASSUME TInv, NEW e \in Entry, Log(e), Links(e, Snapshot, Snapshot'), Snapshot' \in Points,
         Reference!Journaled(EntryOf(e))
  PROVE  Alike'
<1>1. Snapshot \in Points /\ journal \in Seq(Entry)
  BY Lengths DEF TInv
<1>2. book' = BookOf(Snapshot')
  BY <1>1, AppliedAlike DEF TInv, Alike, Reference!Journaled
<1>3. rjournal' = Pictured(journal')
  BY <1>1, PicturedAppend DEF TInv, Alike, Reference!Journaled, Log
<1>4. rredo' = Pictured(redo')
  BY PicturedEmpty DEF Reference!Journaled, Log
<1>5. BookOf(Snapshot)' = BookOf(Snapshot')
  BY DEF BookOf
<1> QED BY <1>2, <1>3, <1>4, <1>5 DEF Alike

(***************************************************************************)
(* Each operation that both workbooks take keeps them alike.               *)
(***************************************************************************)
LEMMA EditAlike ==
  ASSUME TInv, WEdit
  PROVE  Alike'
<1>0. present \subseteq Sheets /\ cells \in [Sheets -> [Addrs -> Raws \cup {Empty}]]
  BY DEF TInv, HInv, TypeOK
<1>1. book.cells = cells /\ book.names = names
  BY DEF TInv, Alike, BookOf, Snapshot
<1>2. ASSUME NEW s \in Sheets, NEW a \in Addrs, NEW v \in Raws,
             SetCell(s, a, v), Reference!RefSet(s, a, v)
      PROVE  Alike'
  <2> DEFINE e == Record("set", s, a, cells[s][a], v)
  <2>1. /\ s \in present /\ Log(e) /\ cells' = [cells EXCEPT ![s][a] = v]
        /\ UNCHANGED << present, order, names, clock >>
    BY <1>2 DEF SetCell
  <2>2. EntryOf(e) = <<"cell", s, a, cells[s][a], v>>
    BY DEF EntryOf, Record
  <2>3. Reference!Journaled(EntryOf(e))
    BY <1>1, <1>2, <2>1, <2>2, HasPresent DEF Reference!RefSet
  <2>4. e \in Entry /\ Links(e, Snapshot, Snapshot') /\ Snapshot' \in Points
    BY <2>1, CellLinks DEF TInv
  <2> QED BY <2>1, <2>3, <2>4, JournaledAlike
<1>3. ASSUME NEW s \in Sheets, NEW t \in Sheets, NEW a \in Addrs, NEW b \in Addrs,
             Copy(s, a, t, b), Reference!RefCopy(s, a, t, b)
      PROVE  Alike'
  <2> DEFINE v == CopyText(cells[s][a], a, b)
             e == Record("copy", t, b, cells[t][b], v)
  <2>1. /\ s \in present /\ t \in present /\ cells[s][a] # Empty
        /\ Log(e) /\ cells' = [cells EXCEPT ![t][b] = v]
        /\ UNCHANGED << present, order, names, clock >>
    BY <1>3 DEF Copy
  <2>2. EntryOf(e) = <<"cell", t, b, cells[t][b], v>>
    BY DEF EntryOf, Record
  <2>3. Reference!Journaled(EntryOf(e))
    BY <1>1, <1>3, <2>1, <2>2, HasPresent DEF Reference!RefCopy
  <2>4. v \in Raws
    BY <1>0, <2>1, CopyAssumption
  <2>5. e \in Entry /\ Links(e, Snapshot, Snapshot') /\ Snapshot' \in Points
    <3> HIDE DEF v
    <3> QED BY <2>1, <2>4, CellLinks DEF TInv
  <2> QED BY <2>1, <2>3, <2>5, JournaledAlike
<1>4. ASSUME NEW s \in Sheets, NEW n \in NameIds, NEW t \in Targets,
             DefineName(s, n, t), Reference!RefDefineName(s, n, t)
      PROVE  Alike'
  <2> DEFINE e == Record("define_name", s, n, names[s][n], t)
  <2>1. s \in present /\ QualifierOf(t) \in present \cup {NoSheet} /\ Log(e)
    BY <1>4 DEF DefineName, ValidTarget
  <2>2. EntryOf(e) = <<"name", s, n, names[s][n], t>>
    BY DEF EntryOf, Record
  <2>3. Reference!Journaled(EntryOf(e))
    BY <1>1, <1>4, <2>1, <2>2, HasPresent DEF Reference!RefDefineName
  <2>4. e \in Entry /\ Links(e, Snapshot, Snapshot') /\ Snapshot' \in Points
    BY <1>4, NameLinks DEF TInv
  <2> QED BY <2>1, <2>3, <2>4, JournaledAlike
<1>5. ASSUME AdvanceClock, Reference!RefAdvanceClock
      PROVE  Alike'
  <2> DEFINE e == Record("advance_clock", NoSheet, NoSheet, clock, clock + 1)
  <2>1. EntryOf(e) = <<"clock">>
    BY DEF EntryOf, Record
  <2>2. Reference!Journaled(EntryOf(e)) /\ Log(e)
    BY <1>5, <2>1 DEF Reference!RefAdvanceClock, AdvanceClock
  <2>3. e \in Entry /\ Links(e, Snapshot, Snapshot') /\ Snapshot' \in Points
    BY <1>5, ClockLinks DEF TInv
  <2> QED BY <2>2, <2>3, JournaledAlike
<1> QED BY <1>2, <1>3, <1>4, <1>5 DEF WEdit

LEMMA AddSheetAlike ==
  ASSUME TInv, NEW s \in Sheets, AddSheet(s), Reference!RefAddSheet(s)
  PROVE  Alike'
<1> DEFINE e == Record("add_sheet", s, NoSheet, 0, 0)
<1>1. EntryOf(e) = <<"sheet", s>>
  BY DEF EntryOf, Record
<1>2. s \notin present /\ Log(e)
  BY DEF AddSheet
<1>3. Reference!Journaled(EntryOf(e))
  BY <1>1, <1>2, HasPresent DEF Reference!RefAddSheet
<1>4. e \in Entry /\ Links(e, Snapshot, Snapshot') /\ Snapshot' \in Points
  BY AddSheetLinks DEF TInv
<1> QED BY <1>2, <1>3, <1>4, JournaledAlike

(***************************************************************************)
(* undo() and redo() move the same entry and revert or apply it alike.     *)
(***************************************************************************)
LEMMA UndoAlike ==
  ASSUME TInv, Undo, UNCHANGED hist, Reference!RefUndo
  PROVE  Alike'
<1> DEFINE e == Last(journal)
           p == hist[Len(journal)]
<1>1. /\ journal # << >> /\ journal' = Front(journal)
      /\ redo' = Append(redo, e) /\ Snapshot' = p
  BY UndoArrives DEF TInv
<1>2. /\ e \in Entry /\ p \in Points /\ Links(e, p, Snapshot) /\ WellFormed(p)
      /\ Snapshot \in Points /\ journal \in Seq(Entry) /\ redo \in Seq(Entry)
  BY <1>1, UndoLink, Lengths DEF TInv
<1>3. /\ Pictured(journal) # << >> /\ Last(Pictured(journal)) = EntryOf(e)
      /\ Pictured(journal') = Front(Pictured(journal))
      /\ Pictured(redo') = Append(Pictured(redo), EntryOf(e))
  BY <1>1, <1>2, PicturedPop, PicturedAppend
<1> HIDE DEF e, p
<1>4. /\ book' = Reference!Reverted(EntryOf(e))
      /\ rjournal' = Pictured(journal') /\ rredo' = Pictured(redo')
  <2>1. Reference!Last(rjournal) = Last(rjournal) /\ Reference!Front(rjournal) = Front(rjournal)
    BY DEF Reference!Last, Last, Reference!Front, Front
  <2> QED BY <1>3, <2>1 DEF TInv, Alike, Reference!RefUndo
<1>5. Reference!Reverted(EntryOf(e)) = BookOf(p)
  BY <1>2, RevertedAlike DEF TInv, Alike
<1>6. BookOf(Snapshot)' = BookOf(Snapshot')
  BY DEF BookOf
<1> QED BY <1>1, <1>4, <1>5, <1>6 DEF Alike

LEMMA RedoAlike ==
  ASSUME TInv, Redo, UNCHANGED hist, Reference!RefRedo
  PROVE  Alike'
<1> DEFINE e == Last(redo)
           q == hist[Len(journal) + 2]
<1>1. /\ redo # << >> /\ redo' = Front(redo)
      /\ journal' = Append(journal, e) /\ Snapshot' = q
  BY RedoArrives DEF TInv
<1>2. /\ e \in Entry /\ q \in Points /\ Links(e, Snapshot, q)
      /\ Snapshot \in Points /\ journal \in Seq(Entry) /\ redo \in Seq(Entry)
  BY <1>1, RedoLink, Lengths DEF TInv
<1>3. /\ Pictured(redo) # << >> /\ Last(Pictured(redo)) = EntryOf(e)
      /\ Pictured(redo') = Front(Pictured(redo))
      /\ Pictured(journal') = Append(Pictured(journal), EntryOf(e))
  BY <1>1, <1>2, PicturedPop, PicturedAppend
<1> HIDE DEF e, q
<1>4. /\ book' = Reference!Applied(EntryOf(e))
      /\ rjournal' = Pictured(journal') /\ rredo' = Pictured(redo')
  <2>1. Reference!Last(rredo) = Last(rredo) /\ Reference!Front(rredo) = Front(rredo)
    BY DEF Reference!Last, Last, Reference!Front, Front
  <2> QED BY <1>3, <2>1 DEF TInv, Alike, Reference!RefRedo
<1>5. Reference!Applied(EntryOf(e)) = BookOf(q)
  BY <1>2, AppliedAlike DEF TInv, Alike
<1>6. BookOf(Snapshot)' = BookOf(Snapshot')
  BY DEF BookOf
<1> QED BY <1>1, <1>4, <1>5, <1>6 DEF Alike

LEMMA ReloadAlike ==
  ASSUME TInv, Reload, hist' = << Snapshot' >>, Reference!RefReload
  PROVE  Alike'
<1>1. UNCHANGED Snapshot /\ journal' = << >> /\ redo' = << >>
  BY ReloadStep DEF TInv, Reload
<1>2. /\ cells \in [Sheets -> [Addrs -> Raws \cup {Empty}]]
      /\ names \in [Sheets -> [NameIds -> Targets \cup {Unbound}]]
      /\ \A s \in Sheets \ present : cells[s] = BlankCells /\ names[s] = BlankNames
  BY SnapshotWellFormed DEF TInv, HInv, TypeOK, WellFormed, DetachedBlank, Snapshot
<1>3. /\ [s \in Sheets |-> IF s \in present THEN cells[s] ELSE BlankCells] = cells
      /\ [s \in Sheets |-> IF s \in present THEN names[s] ELSE BlankNames] = names
  BY <1>2
<1>4. book = [sheets |-> order, clock |-> clock, cells |-> cells, names |-> names]
  BY DEF TInv, Alike, BookOf, Snapshot
<1>5. /\ [s \in Sheets |-> IF Reference!Has(s) THEN cells[s] ELSE Reference!NoCells] = cells
      /\ [s \in Sheets |-> IF Reference!Has(s) THEN names[s] ELSE Reference!NoBindings] = names
  BY <1>3, HasPresent, SameBlanks
<1>6. book' = book
  <2> DEFINE C == [s \in Sheets |-> IF Reference!Has(s) THEN book.cells[s] ELSE Reference!NoCells]
             N == [s \in Sheets |-> IF Reference!Has(s) THEN book.names[s] ELSE Reference!NoBindings]
  <2>1. book' = [book EXCEPT !.cells = C, !.names = N]
    BY DEF Reference!RefReload
  <2>2. book.cells = cells /\ book.names = names
    BY <1>4
  <2>3. C = cells /\ N = names
    BY <1>5, <2>2
  <2> HIDE DEF C, N
  <2>4. book \in [sheets : {order}, clock : {clock}, cells : {cells}, names : {names}]
    BY <1>4
  <2>5. [book EXCEPT !.cells = cells, !.names = names] = book
    BY <2>2, <2>4, Zenon
  <2>6. book' = [book EXCEPT !.cells = cells, !.names = names]
    BY <2>1, <2>3
  <2> QED BY <2>5, <2>6
<1>7. BookOf(Snapshot)' = BookOf(Snapshot)
  BY <1>1 DEF BookOf
<1> QED BY <1>1, <1>6, <1>7, PicturedEmpty DEF Reference!RefReload, TInv, Alike

(***************************************************************************)
(* What armK refuses the reference refuses.                                *)
(***************************************************************************)
LEMMA RefusedAlike ==
  ASSUME TInv, WRefused
  PROVE  UNCHANGED wvars
<1> USE DEF Reference!Refused, Reference!rvars
<1>0. present \subseteq Sheets
  BY DEF TInv, HInv, TypeOK
<1>1. book.cells = cells
  BY DEF TInv, Alike, BookOf, Snapshot
<1>2. ASSUME NEW s \in present, Reference!RefAddSheet(s)
      PROVE  UNCHANGED << book, rjournal, rredo >>
  BY <1>2, HasPresent DEF Reference!RefAddSheet
<1>3. ASSUME NEW s \in Sheets \ present, NEW a \in Addrs, NEW v \in Raws,
             Reference!RefSet(s, a, v)
      PROVE  UNCHANGED << book, rjournal, rredo >>
  BY <1>3, HasPresent DEF Reference!RefSet
<1>4. ASSUME NEW s \in Sheets, NEW t \in Sheets, NEW a \in Addrs, NEW b \in Addrs,
             ~ (s \in present /\ t \in present /\ cells[s][a] # Empty),
             Reference!RefCopy(s, a, t, b)
      PROVE  UNCHANGED << book, rjournal, rredo >>
  BY <1>1, <1>4, HasPresent DEF Reference!RefCopy
<1>5. ASSUME NEW s \in Sheets, NEW n \in NameIds, NEW t \in Targets,
             ~ (s \in present /\ ValidTarget(t)), Reference!RefDefineName(s, n, t)
      PROVE  UNCHANGED << book, rjournal, rredo >>
  BY <1>5, HasPresent DEF Reference!RefDefineName, ValidTarget
<1>6. ASSUME journal = << >>, Reference!RefUndo
      PROVE  UNCHANGED << book, rjournal, rredo >>
  BY <1>6, PicturedEmpty DEF Reference!RefUndo, TInv, Alike
<1>7. ASSUME redo = << >>, Reference!RefRedo
      PROVE  UNCHANGED << book, rjournal, rredo >>
  BY <1>7, PicturedEmpty DEF Reference!RefRedo, TInv, Alike
<1>8. UNCHANGED << vars, hist, evals, saved >>
  BY DEF WRefused
<1>9. UNCHANGED << book, rjournal, rredo >>
  BY <1>2, <1>3, <1>4, <1>5, <1>6, <1>7 DEF WRefused
<1> QED BY <1>8, <1>9 DEF wvars

----------------------------------------------------------------------------
\* The theorems

(***************************************************************************)
(* armK does nothing in company that it would not do alone: its contents   *)
(* and line, and its counters, are those of the two specifications above.  *)
(***************************************************************************)
LEMMA StepsAlone ==
  ASSUME TInv, [WNext]_wvars
  PROVE  [HNext]_hvars /\ [CNext]_cvars
<1>1. ASSUME NEW s \in Sheets, CAddSheet(s), Extended
      PROVE  HNext /\ CNext
  <2>1. Edit
    BY <1>1 DEF CAddSheet, Edit
  <2> QED BY <1>1, <2>1 DEF Extended, HNext, CNext
<1>2. ASSUME NEW s \in Sheets, Started(s), UNCHANGED hist
      PROVE  UNCHANGED hvars /\ CNext
  BY <1>2 DEF Started, hvars, CNext
<1>3. CASE WEdit /\ Extended
  <2>1. /\ \/ \E s \in Sheets, a \in Addrs, v \in Raws : SetCell(s, a, v)
           \/ \E s, t \in Sheets, a, b \in Addrs : Copy(s, a, t, b)
           \/ \E s \in Sheets, n \in NameIds, t \in Targets : DefineName(s, n, t)
           \/ AdvanceClock
        /\ UNCHANGED << evals, saved >>
    BY <1>3 DEF WEdit
  <2>2. Edit /\ CEdit
    BY <2>1 DEF Edit, CEdit
  <2> QED BY <1>3, <2>2 DEF Extended, HNext, CNext
<1>4. CASE (CUndoAddSheet \/ CUndoOther) /\ UNCHANGED hist
  <2>1. Undo
    BY <1>4 DEF Undo, CUndoAddSheet, CUndoOther
  <2> QED BY <1>4, <2>1 DEF HNext, CNext, CWalk
<1>5. CASE CRedo /\ UNCHANGED hist
  BY <1>5 DEF CRedo, HNext, CNext, CWalk
<1>6. CASE CReload /\ hist' = << Snapshot' >>
  BY <1>6 DEF CReload, HNext, CNext
<1>7. CASE WRefused
  BY <1>7 DEF WRefused, hvars, cvars
<1>8. CASE UNCHANGED wvars
  BY <1>8 DEF wvars, hvars, cvars
<1> QED BY <1>1, <1>2, <1>3, <1>4, <1>5, <1>6, <1>7, <1>8 DEF WNext

LEMMA TwinsStep ==
  ASSUME TInv, [WNext]_wvars
  PROVE  TInv'
<1>1. HInv'
  BY StepsAlone, HInvStep DEF TInv
<1>2. CInv'
  BY StepsAlone, CountersStep DEF TInv
<1>3. Alike'
  <2>1. CASE \E s \in Sheets : CAddSheet(s) /\ Reference!RefAddSheet(s) /\ Extended
    BY <2>1, AddSheetAlike DEF CAddSheet
  <2>2. CASE \E s \in Sheets : Started(s) /\ UNCHANGED << hist, book, rjournal, rredo >>
    BY <2>2 DEF Started, vars, content, TInv, Alike, BookOf, Snapshot, Pictured
  <2>3. CASE WEdit
    BY <2>3, EditAlike
  <2>4. CASE (CUndoAddSheet \/ CUndoOther) /\ Reference!RefUndo /\ UNCHANGED hist
    <3>1. Undo
      BY <2>4 DEF Undo, CUndoAddSheet, CUndoOther
    <3> QED BY <2>4, <3>1, UndoAlike
  <2>5. CASE CRedo /\ Reference!RefRedo /\ UNCHANGED hist
    BY <2>5, RedoAlike DEF CRedo
  <2>6. CASE CReload /\ Reference!RefReload /\ hist' = << Snapshot' >>
    BY <2>6, ReloadAlike DEF CReload
  <2>7. CASE WRefused \/ UNCHANGED wvars
    <3>1. UNCHANGED wvars
      BY <2>7, RefusedAlike
    <3> QED BY <3>1 DEF wvars, vars, content, TInv, Alike, BookOf, Snapshot, Pictured
  <2> QED BY <2>1, <2>2, <2>3, <2>4, <2>5, <2>6, <2>7 DEF WNext
<1> QED BY <1>1, <1>2, <1>3 DEF TInv

LEMMA TwinsInvariant == WSpec => []TInv
<1>1. WInit => TInv
  <2> SUFFICES ASSUME WInit PROVE TInv
    OBVIOUS
  <2>1. HInv /\ CInv
    BY HInvInit DEF WInit, CInit, CInv, CTypeOK, SavedIsLast
  <2>2. Alike
    BY PicturedEmpty, SameBlanks
    DEF WInit, HInit, Init, Reference!RefInit, Alike, BookOf, Snapshot
  <2> QED BY <2>1, <2>2 DEF TInv
<1>2. TInv /\ [WNext]_wvars => TInv'
  BY TwinsStep
<1> QED BY <1>1, <1>2, PTL DEF WSpec

(***************************************************************************)
(* Whatever is called, undone, redone and reloaded, armK and the reference *)
(* of the graders accept the same calls, store the same, and hold the same *)
(* operations to undo and to redo.                                         *)
(***************************************************************************)
THEOREM ReferenceStoresTheSame == WSpec => []ReferenceAgrees
<1>1. TInv => ReferenceAgrees
  <2> SUFFICES ASSUME TInv PROVE ReferenceAgrees
    OBVIOUS
  <2>1. /\ cells \in [Sheets -> [Addrs -> Raws \cup {Empty}]]
        /\ names \in [Sheets -> [NameIds -> Targets \cup {Unbound}]]
        /\ \A s \in Sheets \ present : cells[s] = BlankCells /\ names[s] = BlankNames
    BY SnapshotWellFormed DEF TInv, HInv, TypeOK, WellFormed, DetachedBlank, Snapshot
  <2>2. /\ [s \in Sheets |-> IF s \in present THEN cells[s] ELSE BlankCells] = cells
        /\ [s \in Sheets |-> IF s \in present THEN names[s] ELSE BlankNames] = names
    BY <2>1
  <2> QED BY <2>2 DEF TInv, Alike, BookOf, Snapshot, ReferenceAgrees
<1> QED BY <1>1, TwinsInvariant, PTL

(***************************************************************************)
(* Driven together with the reference, armK keeps all that is proved of    *)
(* its history and its counters.                                           *)
(***************************************************************************)
THEOREM TwinsKeepTheRest ==
  WSpec => /\ [](TypeOK /\ HistoryInv /\ AlwaysWellFormed /\ SavedIsLast)
           /\ ImplementsTimeLine /\ CountsNeverDrop
<1>1. WInit => HInit /\ CInit
  BY DEF WInit
<1>2. TInv /\ [WNext]_wvars => [HNext]_hvars /\ [CNext]_cvars
  BY StepsAlone
<1>3. WSpec => HSpec /\ CSpec
  BY <1>1, <1>2, TwinsInvariant, PTL DEF WSpec, HSpec, CSpec
<1> QED
  BY <1>3, TypeCorrect, HistoryInvariant, WorkbookWellFormed, UndoRedoRefinement,
     SavedAlwaysLast, NoCountDrops, PTL

----------------------------------------------------------------------------
(*                 The lines of contents of armT and armS                   *)

\* The entries of both stacks in the order in which they lead along the line.
Done == [i \in 1 .. Len(journal) + Len(redo) |->
            IF i <= Len(journal) THEN journal[i] ELSE redo[Len(journal) + Len(redo) + 1 - i]]

\* armS: e leads from contents p to contents q and back, the names and the clock aside.
LeadsS(e, p, q) ==
    \/ /\ e.op = "add_sheet" /\ q.cells = p.cells
       /\ e.sheet \in Sheets \ p.present
       /\ q.present = p.present \cup {e.sheet} /\ q.order = Append(p.order, e.sheet)
    \/ /\ e.op = "set" /\ SameSheets(p, q)
       /\ e.sheet \in p.present /\ e.key \in Addrs
       /\ p.cells[e.sheet][e.key] = e.old
       /\ q.cells = [p.cells EXCEPT ![e.sheet][e.key] = e.new]
    \/ /\ e.op = "copy" /\ SameSheets(p, q)
       /\ e.sheet \in p.present /\ e.key \in Addrs
       /\ e.new \in p.present \X Addrs /\ p.cells[e.new[1]][e.new[2]] # Empty
       /\ p.cells[e.sheet][e.key] = e.old
       /\ q.cells = [p.cells EXCEPT ![e.sheet][e.key] =
                        CopyText(p.cells[e.new[1]][e.new[2]], e.new[2], e.key)]
    \/ /\ e.op = "advance_clock" /\ SameSheets(p, q) /\ q.cells = p.cells

\* Sheets in order, and nothing in a sheet that is not there.
TidyS(p) == OrderMatches(p) /\ \A s \in Sheets \ p.present : p.cells[s] = BlankCells

\* Tidy points, each led to from the one before it.
ChainS(D, h) ==
    /\ \A i \in 1 .. Len(h) : TidyS(h[i])
    /\ \A i \in 1 .. Len(h) - 1 : LeadsS(D[i], h[i], h[i + 1])

\* Step i of the line is an advance_clock().
Ticks(D, i) == D[i].op = "advance_clock"

\* What advance_clock() found is a clock that no later point has run behind.
ClockLine(D, h) ==
    \A i \in 1 .. Len(h) - 1 :
        IF Ticks(D, i)
        THEN /\ D[i].old \in Nat /\ D[i].old <= h[i].clock
             /\ \A m \in i + 1 .. Len(h) : D[i].old <= h[m].clock
             /\ \A k \in i + 1 .. Len(h) - 1 : Ticks(D, k) => D[i].old <= D[k].old
        ELSE h[i + 1].clock <= h[i].clock

\* Clock c at point n of the line: not behind what advance_clock() found, and
\* not ahead of any point up to the next advance_clock().
ClockFits(D, h, n, c) ==
    /\ \A i \in 1 .. n - 1 : Ticks(D, i) => D[i].old <= c
    /\ \A m \in n .. Len(h) : (\A i \in n .. m - 1 : ~ Ticks(D, i)) => c <= h[m].clock

\* The entries of armS's stacks: a copy names its source.
EntryS == [op : {"add_sheet", "set", "copy", "advance_clock"},
           sheet : Sheets \cup {NoSheet}, key : Addrs \cup {NoSheet},
           old : Raws \cup {Empty} \cup Nat, new : Raws \cup Nat \cup (Sheets \X Addrs)]

\* The types of the stacks and of the line, and one entry between two points.
StacksS ==
    /\ journal \in Seq(EntryS) /\ redo \in Seq(EntryS) /\ hist \in Seq(Points)
    /\ Len(hist) = Len(journal) + Len(redo) + 1
    /\ Snapshot \in Points

\* The workbook holds what p does, the names and the clock aside.
StandsS(p) == present = p.present /\ order = p.order /\ cells = p.cells

\* armS is somewhere on a line along which its entries lead.
SoloInv ==
    /\ StacksS
    /\ StandsS(hist[Len(journal) + 1])
    /\ ChainS(Done, hist) /\ ClockLine(Done, hist)
    /\ ClockFits(Done, hist, Len(journal) + 1, clock)

\* The inductive invariant: armT satisfies that of armK.
LineInv ==
    /\ arm = "thin" => TypeOK /\ HistoryInv
    /\ arm = "solo" => SoloInv

(***************************************************************************)
(* armT makes and drops the cells of a sheet where armK keeps them.        *)
(* Nothing is in them then, so each step of armT stores what a step of     *)
(* armK stores.                                                            *)
(***************************************************************************)
LEMMA ThinIsThick == ASSUME HInv, ThinLine PROVE HNext
<1>0. WellFormed(Snapshot) /\ names \in [Sheets -> [NameIds -> Targets \cup {Unbound}]]
      /\ cells \in [Sheets -> [Addrs -> Raws \cup {Empty}]]
  BY SnapshotWellFormed DEF HInv, TypeOK
<1>1. CASE EditT /\ Written
  <2>1. ASSUME NEW s \in Sheets, AddSheetT(s) PROVE AddSheet(s)
    <3>1. s \notin present /\ names' = names
      BY <2>1 DEF AddSheetT, SheetComesT
    <3>2. names[s] = BlankNames
      BY <1>0, <3>1 DEF WellFormed, DetachedBlank, Snapshot
    <3>3. names' = [names EXCEPT ![s] = BlankNames]
      BY <1>0, <3>1, <3>2
    <3> QED BY <2>1, <3>3 DEF AddSheetT, SheetComesT, AddSheet
  <2> QED BY <1>1, <2>1 DEF EditT, Edit, Written, HNext
<1>2. CASE UndoT /\ UNCHANGED hist
  <2>1. ASSUME UndoAddSheetT PROVE UndoAddSheet
    <3> DEFINE s == Last(journal).sheet
    <3>1. journal # << >> /\ Last(journal).op = "add_sheet"
          /\ cells' = [cells EXCEPT ![s] = BlankCells]
      BY <2>1 DEF UndoAddSheetT, Undoing
    <3>2. s \in Sheets /\ cells[s] = BlankCells
      BY <3>1, UndoLink DEF Links, SameTables, Snapshot
    <3>3. cells' = cells
      BY <1>0, <3>1, <3>2
    <3> QED BY <2>1, <3>3 DEF UndoAddSheetT, UndoAddSheet
  <2> QED BY <1>2, <2>1 DEF UndoT, Undo, HNext
<1>3. CASE RedoT /\ UNCHANGED hist
  <2>1. ASSUME RedoAddSheetT PROVE RedoAddSheet
    <3> DEFINE s == Last(redo).sheet
    <3>1. redo # << >> /\ Last(redo).op = "add_sheet"
          /\ cells' = [cells EXCEPT ![s] = BlankCells]
      BY <2>1 DEF RedoAddSheetT, SheetComesT, Redoing
    <3>2. s \in Sheets /\ cells[s] = BlankCells
      BY <3>1, RedoLink DEF Links, SameTables, Snapshot
    <3>3. cells' = cells
      BY <1>0, <3>1, <3>2
    <3> QED BY <2>1, <3>3 DEF RedoAddSheetT, SheetComesT, RedoAddSheet
  <2> QED BY <1>3, <2>1 DEF RedoT, Redo, HNext
<1>4. CASE Reload /\ hist' = << Snapshot' >>
  BY <1>4 DEF HNext
<1> QED BY <1>1, <1>2, <1>3, <1>4 DEF ThinLine

(***************************************************************************)
(* A workbook just loaded stands on its line, which is that one point.     *)
(***************************************************************************)
LEMMA LoadedFits == LInit => HInv
<1> SUFFICES ASSUME LInit PROVE HInv
  OBVIOUS
<1>1. PICK w \in Workbooks :
         /\ present = w.present /\ order = w.order /\ clock = w.clock
         /\ cells = w.cells /\ names = w.names
  BY DEF LInit
<1>2. w \in Points /\ WellFormed(w)
  BY WorkbooksAssumption
<1>3. Snapshot = w /\ journal = << >> /\ redo = << >> /\ past = 0 /\ hist = << Snapshot >>
  <2>1. w = [present |-> w.present, order |-> w.order, cells |-> w.cells,
             names |-> w.names, clock |-> w.clock]
    BY <1>2 DEF Points
  <2> QED BY <1>1, <2>1 DEF LInit, Snapshot
<1>4. TypeOK
  BY <1>1, <1>2, <1>3 DEF TypeOK, Points
<1>5. hist \in Seq(Points) /\ Len(hist) = 1 /\ hist[1] = Snapshot
  BY <1>2, <1>3
<1>6. StandsOnLine /\ JournalLinks /\ RedoLinks
  BY <1>3, <1>5 DEF StandsOnLine, JournalLinks, RedoLinks
<1>7. AllWellFormed
  BY <1>2, <1>3, <1>5 DEF AllWellFormed
<1> QED BY <1>4, <1>6, <1>7 DEF HInv, HistoryInv

\* After n steps D along h comes one more, and the rest of h is cut off.
Prolongs(D, h, D2, h2, n) ==
    /\ n \in Nat /\ Len(h) \in Nat /\ n + 1 <= Len(h) /\ Len(h2) = n + 2
    /\ \A i \in 1 .. n + 1 : h2[i] = h[i]
    /\ \A i \in 1 .. n : D2[i] = D[i]

\* An operation that finds clock c and leaves c2 has entry e in the journal.
Clocked(e, c, c2) ==
    IF e.op = "advance_clock" THEN e.old = c /\ c2 = c + 1 ELSE c2 = c

(***************************************************************************)
(* The clocks of a line that grows: an operation found clock c at point k  *)
(* and left c2 at the next.                                                *)
(***************************************************************************)
LEMMA ClockGrows ==
  ASSUME NEW D, NEW h, NEW D2, NEW h2, NEW n, NEW top, NEW e,
         NEW c \in Nat, NEW c2 \in Nat,
         Prolongs(D, h, D2, h2, n), top = n + 1, D2[top] = e, h2[top + 1].clock = c2,
         \A i \in 1 .. Len(h) : h[i].clock \in Nat,
         Clocked(e, c, c2), ClockLine(D, h), ClockFits(D, h, top, c)
  PROVE  ClockLine(D2, h2) /\ ClockFits(D2, h2, top + 1, c2)
<1>0. /\ n \in Nat /\ Len(h) \in Nat /\ n + 1 <= Len(h) /\ Len(h2) = n + 2
      /\ \A i \in 1 .. n + 1 : h2[i] = h[i]
      /\ \A i \in 1 .. n : D2[i] = D[i]
      /\ top = n + 1 /\ top + 1 = n + 2
      /\ IF Ticks(D2, n + 1) THEN D2[n + 1].old = c /\ c2 = c + 1 ELSE c2 = c
  BY DEF Prolongs, Clocked, Ticks
<1>1. /\ \A i \in 1 .. n : Ticks(D, i) => D[i].old <= c /\ D[i].old \in Nat
      /\ c <= h[n + 1].clock /\ c <= c2
  BY <1>0 DEF ClockFits, ClockLine
<1>2. \A i \in 1 .. n + 1 : Ticks(D2, i) => D2[i].old <= c /\ D2[i].old \in Nat
  <2> TAKE i \in 1 .. n + 1
  <2>1. CASE i \in 1 .. n
    BY <1>0, <1>1, <2>1 DEF Ticks
  <2>2. CASE i = n + 1
    BY <1>0, <2>2
  <2> QED BY <1>0, <2>1, <2>2
<1>3. ClockFits(D2, h2, n + 2, c2)
  <2>1. \A i \in 1 .. (n + 2) - 1 : Ticks(D2, i) => D2[i].old <= c2
    BY <1>0, <1>1, <1>2
  <2> QED BY <1>0, <2>1 DEF ClockFits
<1>4. ClockLine(D2, h2)
  <2> SUFFICES ASSUME NEW i \in 1 .. n + 1
               PROVE  IF Ticks(D2, i)
                      THEN /\ D2[i].old \in Nat /\ D2[i].old <= h2[i].clock
                           /\ \A m \in i + 1 .. n + 2 : D2[i].old <= h2[m].clock
                           /\ \A k \in i + 1 .. n + 1 : Ticks(D2, k) => D2[i].old <= D2[k].old
                      ELSE h2[i + 1].clock <= h2[i].clock
    <3>1. Len(h2) = n + 2 /\ Len(h2) - 1 = n + 1
      BY <1>0
    <3> QED BY <3>1 DEF ClockLine
  <2>1. CASE i = n + 1
    BY <1>0, <1>1, <1>2, <2>1
  <2>2. CASE i \in 1 .. n /\ ~ Ticks(D2, i)
    <3>1. /\ i \in 1 .. Len(h) - 1 /\ i \in 1 .. n + 1 /\ i + 1 \in 1 .. n + 1
          /\ D2[i] = D[i]
      BY <1>0, <2>2
    <3>2. h[i + 1].clock <= h[i].clock
      BY <2>2, <3>1 DEF ClockLine, Ticks
    <3> QED BY <1>0, <2>2, <3>1, <3>2
  <2>3. CASE i \in 1 .. n /\ Ticks(D2, i)
    <3>1. /\ D2[i] = D[i] /\ Ticks(D, i) /\ h2[i] = h[i]
          /\ D[i].old \in Nat /\ D[i].old <= h[i].clock /\ D[i].old <= c
          /\ \A m \in i + 1 .. Len(h) : D[i].old <= h[m].clock
          /\ \A k \in i + 1 .. Len(h) - 1 : Ticks(D, k) => D[i].old <= D[k].old
      <4>1. i \in 1 .. Len(h) - 1 /\ i \in 1 .. n + 1
        BY <1>0, <2>3
      <4>2. D2[i] = D[i] /\ h2[i] = h[i] /\ Ticks(D, i)
        BY <1>0, <2>3, <4>1 DEF Ticks
      <4>3. D[i].old <= c
        BY <1>0, <1>1, <2>3, <4>2
      <4> QED BY <1>0, <4>1, <4>2, <4>3 DEF ClockLine
    <3>2. ASSUME NEW m \in i + 1 .. n + 2 PROVE D[i].old <= h2[m].clock
      <4>1. CASE m = n + 2
        BY <1>0, <1>1, <3>1, <4>1
      <4>2. CASE m \in i + 1 .. n + 1
        <5>1. m \in 1 .. n + 1 /\ m \in i + 1 .. Len(h)
          BY <1>0, <4>2
        <5> QED BY <1>0, <3>1, <5>1
      <4> QED BY <1>0, <4>1, <4>2
    <3>3. ASSUME NEW k \in i + 1 .. n + 1, Ticks(D2, k) PROVE D[i].old <= D2[k].old
      <4>1. CASE k = n + 1
        BY <1>0, <3>1, <3>3, <4>1
      <4>2. CASE k \in i + 1 .. n
        <5>1. k \in 1 .. n /\ k \in i + 1 .. Len(h) - 1
          BY <1>0, <4>2
        <5> QED BY <1>0, <3>1, <3>3, <5>1 DEF Ticks
      <4> QED BY <1>0, <4>1, <4>2
    <3> QED BY <1>0, <2>3, <3>1, <3>2, <3>3
  <2> QED BY <1>0, <2>1, <2>2, <2>3
<1> QED BY <1>0, <1>3, <1>4

(***************************************************************************)
(* undo() of advance_clock() sets the clock to what the operation had      *)
(* found, any other undo() leaves it: it fits the point before.            *)
(***************************************************************************)
LEMMA ClockBack ==
  ASSUME NEW D, NEW h, NEW n \in Nat \ {0}, NEW c \in Nat, NEW c2,
         Len(h) \in Nat, n + 1 <= Len(h), \A i \in 1 .. Len(h) : h[i].clock \in Nat,
         c2 = IF Ticks(D, n) THEN D[n].old ELSE c,
         ClockLine(D, h), ClockFits(D, h, n + 1, c)
  PROVE  c2 \in Nat /\ ClockFits(D, h, n, c2)
<1>1. n \in 1 .. Len(h) - 1
  OBVIOUS
<1>2. CASE Ticks(D, n)
  <2>1. c2 \in Nat /\ c2 <= h[n].clock
    BY <1>1, <1>2 DEF ClockLine
  <2>2. \A i \in 1 .. n - 1 : Ticks(D, i) => D[i].old <= c2
    <3> SUFFICES ASSUME NEW i \in 1 .. n - 1, Ticks(D, i) PROVE D[i].old <= D[n].old
      BY <1>2
    <3>1. i \in 1 .. Len(h) - 1 /\ n \in i + 1 .. Len(h) - 1
      BY <1>1
    <3> QED BY <1>2, <3>1 DEF ClockLine
  <2>3. ASSUME NEW m \in n .. Len(h), \A i \in n .. m - 1 : ~ Ticks(D, i)
        PROVE  m = n
    <3>1. CASE m > n
      <4>1. n \in n .. m - 1
        BY <3>1
      <4> QED BY <1>2, <2>3, <4>1
    <3> QED BY <3>1
  <2> QED BY <2>1, <2>2, <2>3 DEF ClockFits
<1>3. CASE ~ Ticks(D, n)
  <2>1. c2 = c /\ h[n + 1].clock <= h[n].clock
    BY <1>1, <1>3 DEF ClockLine
  <2>2. \A i \in 1 .. n - 1 : Ticks(D, i) => D[i].old <= c
    BY DEF ClockFits
  <2>3. ASSUME NEW m \in n .. Len(h), \A i \in n .. m - 1 : ~ Ticks(D, i)
        PROVE  c <= h[m].clock
    <3>1. c <= h[n + 1].clock
      BY DEF ClockFits
    <3>2. CASE m = n
      <4>1. n \in 1 .. Len(h) /\ n + 1 \in 1 .. Len(h)
        OBVIOUS
      <4> QED BY <2>1, <3>1, <3>2, <4>1
    <3>3. CASE m \in n + 1 .. Len(h)
      <4>1. \A i \in n + 1 .. m - 1 : ~ Ticks(D, i)
        BY <2>3
      <4> QED BY <3>3, <4>1 DEF ClockFits
    <3> QED BY <3>2, <3>3
  <2> QED BY <2>1, <2>2, <2>3 DEF ClockFits
<1> QED BY <1>2, <1>3

(***************************************************************************)
(* redo() of advance_clock() sets the clock to what the operation had      *)
(* found: behind what it left, but not behind what later entries will set  *)
(* it to.                                                                  *)
(***************************************************************************)
LEMMA ClockForth ==
  ASSUME NEW D, NEW h, NEW n \in Nat, NEW c \in Nat, NEW c2,
         Len(h) \in Nat, n + 2 <= Len(h), \A i \in 1 .. Len(h) : h[i].clock \in Nat,
         c2 = IF Ticks(D, n + 1) THEN D[n + 1].old ELSE c,
         ClockLine(D, h), ClockFits(D, h, n + 1, c)
  PROVE  c2 \in Nat /\ ClockFits(D, h, n + 2, c2)
<1>1. n + 1 \in 1 .. Len(h) - 1
  OBVIOUS
<1>2. CASE Ticks(D, n + 1)
  <2>1. c2 \in Nat /\ c2 = D[n + 1].old /\ \A m \in n + 2 .. Len(h) : c2 <= h[m].clock
    BY <1>1, <1>2 DEF ClockLine
  <2>2. ASSUME NEW i \in 1 .. (n + 2) - 1, Ticks(D, i) PROVE D[i].old <= c2
    <3>1. CASE i = n + 1
      BY <2>1, <3>1
    <3>2. CASE i \in 1 .. n
      <4>1. i \in 1 .. Len(h) - 1 /\ n + 1 \in i + 1 .. Len(h) - 1
        BY <3>2
      <4> QED BY <1>2, <2>1, <2>2, <4>1 DEF ClockLine
    <3> QED BY <3>1, <3>2
  <2> QED BY <2>1, <2>2 DEF ClockFits
<1>3. CASE ~ Ticks(D, n + 1)
  <2>1. c2 = c
    BY <1>3
  <2>2. ASSUME NEW i \in 1 .. (n + 2) - 1, Ticks(D, i) PROVE D[i].old <= c
    <3>1. i \in 1 .. (n + 1) - 1
      BY <1>3, <2>2
    <3> QED BY <2>2, <3>1 DEF ClockFits
  <2>3. ASSUME NEW m \in n + 2 .. Len(h), \A i \in n + 2 .. m - 1 : ~ Ticks(D, i)
        PROVE  c <= h[m].clock
    <3>1. \A i \in n + 1 .. m - 1 : ~ Ticks(D, i)
      BY <1>3, <2>3
    <3> QED BY <3>1 DEF ClockFits
  <2> QED BY <2>1, <2>2, <2>3 DEF ClockFits
<1> QED BY <1>2, <1>3

(***************************************************************************)
(* The other contents of a line that grows.                                *)
(***************************************************************************)
LEMMA ChainGrows ==
  ASSUME NEW D, NEW h, NEW D2, NEW h2, NEW n, Prolongs(D, h, D2, h2, n),
         LeadsS(D2[n + 1], h2[n + 1], h2[n + 2]), TidyS(h2[n + 2]),
         ChainS(D, h)
  PROVE  ChainS(D2, h2)
<1>0. /\ n \in Nat /\ Len(h) \in Nat /\ n + 1 <= Len(h) /\ Len(h2) = n + 2
      /\ \A i \in 1 .. n + 1 : h2[i] = h[i]
      /\ \A i \in 1 .. n : D2[i] = D[i]
  BY DEF Prolongs
<1>1. ASSUME NEW i \in 1 .. n + 2 PROVE TidyS(h2[i])
  <2>1. CASE i = n + 2
    BY <1>0, <2>1
  <2>2. CASE i \in 1 .. n + 1
    <3>1. i \in 1 .. Len(h)
      BY <1>0, <2>2
    <3> QED BY <1>0, <2>2, <3>1 DEF ChainS
  <2> QED BY <1>0, <2>1, <2>2
<1>2. ASSUME NEW i \in 1 .. n + 1 PROVE LeadsS(D2[i], h2[i], h2[i + 1])
  <2>1. CASE i = n + 1
    <3>1. i + 1 = n + 2
      BY <1>0, <2>1
    <3> QED BY <1>0, <2>1, <3>1
  <2>2. CASE i \in 1 .. n
    <3>1. i \in 1 .. Len(h) - 1 /\ i \in 1 .. n + 1 /\ i + 1 \in 1 .. n + 1
      BY <1>0, <2>2
    <3>2. LeadsS(D[i], h[i], h[i + 1])
      BY <1>0, <3>1 DEF ChainS
    <3> QED BY <1>0, <2>2, <3>1, <3>2
  <2> QED BY <1>0, <2>1, <2>2
<1>3. Len(h2) - 1 = n + 1
  BY <1>0
<1> QED BY <1>0, <1>1, <1>2, <1>3 DEF ChainS

(***************************************************************************)
(* What the stacks and the line hold, and how long they are.               *)
(***************************************************************************)
LEMMA Counts ==
  ASSUME StacksS
  PROVE  /\ journal \in Seq(EntryS) /\ redo \in Seq(EntryS) /\ hist \in Seq(Points)
         /\ Len(journal) \in Nat /\ Len(redo) \in Nat /\ Len(hist) \in Nat
         /\ Len(hist) = Len(journal) + Len(redo) + 1
         /\ \A i \in 1 .. Len(hist) : hist[i] \in Points /\ hist[i].clock \in Nat
         /\ clock \in Nat
<1>1. /\ journal \in Seq(EntryS) /\ redo \in Seq(EntryS) /\ hist \in Seq(Points)
      /\ Len(hist) = Len(journal) + Len(redo) + 1
  BY DEF StacksS
<1>2. Len(journal) \in Nat /\ Len(redo) \in Nat /\ Len(hist) \in Nat
  BY <1>1
<1>3. \A i \in 1 .. Len(hist) : hist[i] \in Points
  BY <1>1
<1>4. \A p \in Points : p.clock \in Nat
  BY DEF Points
<1>5. clock \in Nat
  BY <1>4 DEF StacksS, Snapshot
<1> QED BY <1>1, <1>2, <1>3, <1>4, <1>5

(***************************************************************************)
(* undo() and redo() move an entry from one stack to the other: the        *)
(* entries along the line stay what they are.                              *)
(***************************************************************************)
LEMMA DoneBack ==
  ASSUME StacksS, journal # << >>,
         journal' = Front(journal), redo' = Append(redo, Last(journal))
  PROVE  /\ Len(journal) \in Nat \ {0} /\ Len(journal') + 1 = Len(journal)
         /\ journal' \in Seq(EntryS) /\ redo' \in Seq(EntryS)
         /\ Len(journal') + Len(redo') = Len(journal) + Len(redo)
         /\ Done' = Done /\ Last(journal) = Done[Len(journal)]
<1> DEFINE n == Len(journal)
           r == Len(redo)
<1>0. n \in Nat \ {0} /\ r \in Nat
  BY Counts, EmptySeq
<1>1. /\ journal' \in Seq(EntryS) /\ Len(journal') = n - 1
      /\ \A i \in 1 .. n - 1 : journal'[i] = journal[i]
  BY Counts, FrontSeq DEF Front
<1>2. Last(journal) = journal[n] /\ journal[n] \in EntryS
  BY <1>0, Counts DEF Last
<1>3. /\ redo' \in Seq(EntryS) /\ Len(redo') = r + 1 /\ redo'[r + 1] = Last(journal)
      /\ \A j \in 1 .. r : redo'[j] = redo[j]
  BY <1>2, Counts, AppendSeq
<1>4. Done' = Done
  <2>1. Len(journal') + Len(redo') = n + r
    BY <1>0, <1>1, <1>3
  <2>2. ASSUME NEW i \in 1 .. n + r
        PROVE  (IF i <= n - 1 THEN journal'[i] ELSE redo'[n + r + 1 - i])
                   = (IF i <= n THEN journal[i] ELSE redo[n + r + 1 - i])
    <3>1. CASE i <= n - 1
      BY <1>0, <1>1, <3>1
    <3>2. CASE i = n
      BY <1>0, <1>2, <1>3, <3>2
    <3>3. CASE i > n
      <4>1. n + r + 1 - i \in 1 .. r
        BY <1>0, <3>3
      <4> QED BY <1>0, <1>3, <3>3, <4>1
    <3> QED BY <1>0, <3>1, <3>2, <3>3
  <2>3. Done' = [i \in 1 .. n + r |-> IF i <= n - 1 THEN journal'[i] ELSE redo'[n + r + 1 - i]]
    BY <1>1, <2>1 DEF Done
  <2> QED BY <2>2, <2>3 DEF Done
<1>5. Last(journal) = Done[n]
  BY <1>0, <1>2 DEF Done
<1> QED BY <1>0, <1>1, <1>3, <1>4, <1>5

LEMMA DoneForth ==
  ASSUME StacksS, redo # << >>,
         redo' = Front(redo), journal' = Append(journal, Last(redo))
  PROVE  /\ Len(journal') = Len(journal) + 1 /\ Len(journal) + 2 <= Len(hist)
         /\ journal' \in Seq(EntryS) /\ redo' \in Seq(EntryS)
         /\ Len(journal') + Len(redo') = Len(journal) + Len(redo)
         /\ Done' = Done /\ Last(redo) = Done[Len(journal) + 1]
<1> DEFINE n == Len(journal)
           r == Len(redo)
<1>0. n \in Nat /\ r \in Nat \ {0} /\ Len(hist) = n + r + 1
  BY Counts, EmptySeq
<1>1. /\ redo' \in Seq(EntryS) /\ Len(redo') = r - 1
      /\ \A j \in 1 .. r - 1 : redo'[j] = redo[j]
  BY Counts, FrontSeq DEF Front
<1>2. Last(redo) = redo[r] /\ redo[r] \in EntryS
  BY <1>0, Counts DEF Last
<1>3. /\ journal' \in Seq(EntryS) /\ Len(journal') = n + 1 /\ journal'[n + 1] = Last(redo)
      /\ \A i \in 1 .. n : journal'[i] = journal[i]
  BY <1>2, Counts, AppendSeq
<1>4. Done' = Done
  <2>1. Len(journal') + Len(redo') = n + r
    BY <1>0, <1>1, <1>3
  <2>2. ASSUME NEW i \in 1 .. n + r
        PROVE  (IF i <= n + 1 THEN journal'[i] ELSE redo'[n + r + 1 - i])
                   = (IF i <= n THEN journal[i] ELSE redo[n + r + 1 - i])
    <3>1. CASE i <= n
      BY <1>0, <1>3, <3>1
    <3>2. CASE i = n + 1
      BY <1>0, <1>2, <1>3, <3>2
    <3>3. CASE i > n + 1
      <4>1. n + r + 1 - i \in 1 .. r - 1
        BY <1>0, <3>3
      <4> QED BY <1>0, <1>1, <3>3, <4>1
    <3> QED BY <1>0, <3>1, <3>2, <3>3
  <2>3. Done' = [i \in 1 .. n + r |-> IF i <= n + 1 THEN journal'[i] ELSE redo'[n + r + 1 - i]]
    BY <1>3, <2>1 DEF Done
  <2> QED BY <2>2, <2>3 DEF Done
<1>5. Last(redo) = Done[n + 1]
  BY <1>0, <1>2 DEF Done
<1> QED BY <1>0, <1>1, <1>3, <1>4, <1>5

(***************************************************************************)
(* A journaled operation drops the entries of the redo stack and the       *)
(* points they led to.                                                     *)
(***************************************************************************)
LEMMA DoneGrows ==
  ASSUME StacksS, NEW e \in EntryS, Log(e), Written, Snapshot' \in Points
  PROVE  LET n == Len(journal)
         IN /\ StacksS' /\ Len(journal') = n + 1 /\ Len(hist') = n + 2
            /\ \A i \in 1 .. n + 1 : hist'[i] = hist[i]
            /\ hist'[n + 2] = Snapshot'
            /\ \A i \in 1 .. n : Done'[i] = Done[i]
            /\ Done'[n + 1] = e
<1> DEFINE n == Len(journal)
           r == Len(redo)
           cut == SubSeq(hist, 1, n + 1)
<1>0. n \in Nat /\ r \in Nat /\ Len(hist) = n + r + 1 /\ n + 1 \in 0 .. Len(hist)
  BY Counts
<1>1. /\ cut \in Seq(Points) /\ Len(cut) = n + 1
      /\ \A i \in 1 .. n + 1 : cut[i] = hist[i]
  BY <1>0, Counts, PrefixSeq
<1>2. /\ hist' \in Seq(Points) /\ Len(hist') = n + 2
      /\ \A i \in 1 .. n + 1 : hist'[i] = hist[i]
      /\ hist'[n + 2] = Snapshot'
  <2> DEFINE q == Snapshot'
  <2>1. hist' = Append(cut, q) /\ q \in Points
    BY DEF Written
  <2> HIDE DEF cut, q, n
  <2>2. n + 1 + 1 = n + 2
    BY <1>0
  <2> QED BY <2>1, <2>2, <1>0, <1>1, AppendSeq DEF q
<1>3. /\ journal' \in Seq(EntryS) /\ Len(journal') = n + 1 /\ journal'[n + 1] = e
      /\ \A i \in 1 .. n : journal'[i] = journal[i]
      /\ redo' = << >> /\ Len(redo') = 0 /\ redo' \in Seq(EntryS)
  BY Counts, AppendSeq DEF Log
<1>4. StacksS'
  BY <1>0, <1>2, <1>3 DEF StacksS
<1>5. Done' = [i \in 1 .. n + 1 |-> IF i <= n + 1 THEN journal'[i] ELSE redo'[n + 2 - i]]
  <2>1. Len(journal') + Len(redo') = n + 1 /\ n + 1 + 1 = n + 2
    BY <1>0, <1>3
  <2> QED BY <1>3, <2>1 DEF Done
<1>6. \A i \in 1 .. n : Done'[i] = journal[i] /\ Done[i] = journal[i]
  <2> TAKE i \in 1 .. n
  <2>1. i \in 1 .. n + 1 /\ i \in 1 .. n + r /\ i <= n
    BY <1>0
  <2>2. Done'[i] = journal[i]
    BY <1>0, <1>3, <1>5, <2>1
  <2>3. Done[i] = journal[i]
    BY <2>1 DEF Done
  <2> QED BY <2>2, <2>3
<1>7. Done'[n + 1] = e
  BY <1>0, <1>3, <1>5
<1> QED BY <1>2, <1>3, <1>4, <1>6, <1>7

(***************************************************************************)
(* The point the workbook stands on, and the types of what it stores.      *)
(***************************************************************************)
LEMMA SoloHere ==
  ASSUME SoloInv
  PROVE  LET p == hist[Len(journal) + 1]
         IN /\ Len(journal) + 1 \in 1 .. Len(hist) /\ p \in Points /\ StandsS(p)
            /\ TidyS(p) /\ TidyS(Snapshot)
            /\ present \subseteq Sheets /\ order \in Seq(Sheets) /\ clock \in Nat
            /\ cells \in [Sheets -> [Addrs -> Raws \cup {Empty}]]
            /\ names \in [Sheets -> [NameIds -> Targets \cup {Unbound}]]
<1>1. StacksS
  BY DEF SoloInv
<1>2. Len(journal) + 1 \in 1 .. Len(hist)
  BY <1>1, Counts
<1>3. hist[Len(journal) + 1] \in Points /\ StandsS(hist[Len(journal) + 1])
  BY <1>1, <1>2, Counts DEF SoloInv
<1>4. TidyS(hist[Len(journal) + 1])
  BY <1>2 DEF SoloInv, ChainS
<1>5. TidyS(Snapshot)
  BY <1>3, <1>4 DEF TidyS, OrderMatches, StandsS, Snapshot
<1>6. /\ present \subseteq Sheets /\ order \in Seq(Sheets) /\ clock \in Nat
      /\ cells \in [Sheets -> [Addrs -> Raws \cup {Empty}]]
      /\ names \in [Sheets -> [NameIds -> Targets \cup {Unbound}]]
  BY <1>1 DEF StacksS, Snapshot, Points
<1> QED BY <1>2, <1>3, <1>4, <1>5, <1>6

(***************************************************************************)
(* A journaled operation that leads from the present contents to tidy ones *)
(* cuts the line and adds a point.                                         *)
(***************************************************************************)
LEMMA SoloDoes ==
  ASSUME SoloInv, NEW e \in EntryS, Log(e), Written, Snapshot' \in Points,
         LeadsS(e, Snapshot, Snapshot'), TidyS(Snapshot'),
         Clocked(e, clock, clock')
  PROVE  SoloInv'
<1> DEFINE n == Len(journal)
<1>0. /\ StacksS /\ ChainS(Done, hist) /\ ClockLine(Done, hist)
      /\ ClockFits(Done, hist, n + 1, clock)
  BY DEF SoloInv
<1>1. /\ n \in Nat /\ Len(hist) \in Nat /\ n + 1 <= Len(hist)
      /\ \A i \in 1 .. Len(hist) : hist[i].clock \in Nat
      /\ clock \in Nat /\ clock' \in Nat
  <2>1. clock' \in Nat
    BY DEF Snapshot, Points
  <2> QED BY <1>0, <2>1, Counts
<1>2. /\ StacksS' /\ Len(journal') = n + 1 /\ Len(hist') = n + 2
      /\ \A i \in 1 .. n + 1 : hist'[i] = hist[i]
      /\ hist'[n + 2] = Snapshot'
      /\ \A i \in 1 .. n : Done'[i] = Done[i]
      /\ Done'[n + 1] = e
  BY <1>0, DoneGrows
<1>3. LeadsS(e, hist[n + 1], Snapshot')
  BY SoloHere DEF LeadsS, SameSheets, StandsS, Snapshot
<1>4. hist'[n + 1] = hist[n + 1]
  BY <1>1, <1>2
<1>5. hist'[n + 2].clock = clock'
  BY <1>2 DEF Snapshot
<1>6. Done'[n + 1] = e /\ Clocked(e, clock, clock')
  BY <1>2
<1>7. LeadsS(Done'[n + 1], hist'[n + 1], hist'[n + 2]) /\ TidyS(hist'[n + 2])
  BY <1>2, <1>3, <1>4
<1> HIDE DEF n
<1>8. Prolongs(Done, hist, Done', hist', n)
  BY <1>1, <1>2 DEF Prolongs
<1>9. /\ ChainS(Done', hist')
      /\ ClockLine(Done', hist') /\ ClockFits(Done', hist', n + 2, clock')
  <2> DEFINE D == Done
             D2 == Done'
             h2 == hist'
             c2 == clock'
  <2>1. /\ Prolongs(D, hist, D2, h2, n) /\ ChainS(D, hist)
        /\ ClockLine(D, hist) /\ ClockFits(D, hist, n + 1, clock)
        /\ LeadsS(D2[n + 1], h2[n + 1], h2[n + 2]) /\ TidyS(h2[n + 2])
        /\ h2[n + 2].clock = c2 /\ c2 \in Nat
        /\ D2[n + 1] = e /\ Clocked(e, clock, c2)
    BY <1>0, <1>1, <1>2, <1>5, <1>6, <1>7, <1>8
  <2> HIDE DEF D, D2, h2, c2
  <2>2. ClockLine(D2, h2) /\ ClockFits(D2, h2, n + 2, c2)
    <3>1. n \in Nat /\ clock \in Nat /\ \A i \in 1 .. Len(hist) : hist[i].clock \in Nat
      BY <1>1
    <3> DEFINE k == n + 1
    <3>2. k = n + 1 /\ D2[k] = e /\ h2[k + 1].clock = c2 /\ k + 1 = n + 2
          /\ Clocked(e, clock, c2) /\ ClockFits(D, hist, k, clock)
      BY <2>1, <3>1
    <3> HIDE DEF k
    <3> QED BY <2>1, <3>1, <3>2, ClockGrows
  <2>3. ChainS(D2, h2)
    BY <2>1, ChainGrows
  <2> QED BY <2>2, <2>3 DEF D2, h2, c2
<1>10. Len(journal') + 1 = n + 2
  BY <1>1, <1>2
<1>11. StandsS(hist[Len(journal) + 1])'
  BY <1>2, <1>10 DEF StandsS, Snapshot
<1> QED BY <1>2, <1>9, <1>10, <1>11 DEF SoloInv

(***************************************************************************)
(* undo() and redo() that arrive at the neighbouring point, the names and  *)
(* the clock aside.                                                        *)
(***************************************************************************)
LEMMA SoloGoesBack ==
  ASSUME SoloInv, journal # << >>,
         journal' = Front(journal), redo' = Append(redo, Last(journal)), hist' = hist,
         names' \in [Sheets -> [NameIds -> Targets \cup {Unbound}]],
         present' = hist[Len(journal)].present, order' = hist[Len(journal)].order,
         cells' = hist[Len(journal)].cells,
         clock' = IF Last(journal).op = "advance_clock" THEN Last(journal).old ELSE clock
  PROVE  SoloInv'
<1> DEFINE n == Len(journal)
<1>0. /\ StacksS /\ ChainS(Done, hist) /\ ClockLine(Done, hist)
      /\ ClockFits(Done, hist, n + 1, clock)
  BY DEF SoloInv
<1>1. /\ n \in Nat \ {0} /\ Len(journal') + 1 = n
      /\ journal' \in Seq(EntryS) /\ redo' \in Seq(EntryS)
      /\ Len(journal') + Len(redo') = Len(journal) + Len(redo)
      /\ Done' = Done /\ Last(journal) = Done[n]
  BY <1>0, DoneBack
<1>2. /\ Len(hist) \in Nat /\ n + 1 <= Len(hist) /\ clock \in Nat
      /\ \A i \in 1 .. Len(hist) : hist[i] \in Points /\ hist[i].clock \in Nat
  BY <1>0, <1>1, Counts
<1>3. clock' = IF Ticks(Done, n) THEN Done[n].old ELSE clock
  BY <1>1 DEF Ticks
<1>4. hist[n] \in Points
  BY <1>1, <1>2
<1>5. StandsS(hist[Len(journal) + 1])'
  BY <1>1 DEF StandsS
<1> HIDE DEF n
<1>6. clock' \in Nat /\ ClockFits(Done, hist, n, clock')
  BY <1>0, <1>1, <1>2, <1>3, ClockBack
<1>7. Snapshot' \in Points
  BY <1>4, <1>6 DEF Snapshot, Points, n
<1>8. StacksS'
  BY <1>0, <1>1, <1>7 DEF StacksS
<1> QED BY <1>0, <1>1, <1>5, <1>6, <1>8 DEF SoloInv

LEMMA SoloGoesForth ==
  ASSUME SoloInv, redo # << >>,
         redo' = Front(redo), journal' = Append(journal, Last(redo)), hist' = hist,
         names' \in [Sheets -> [NameIds -> Targets \cup {Unbound}]],
         present' = hist[Len(journal) + 2].present, order' = hist[Len(journal) + 2].order,
         cells' = hist[Len(journal) + 2].cells,
         clock' = IF Last(redo).op = "advance_clock" THEN Last(redo).old ELSE clock
  PROVE  SoloInv'
<1> DEFINE n == Len(journal)
<1>0. /\ StacksS /\ ChainS(Done, hist) /\ ClockLine(Done, hist)
      /\ ClockFits(Done, hist, n + 1, clock)
  BY DEF SoloInv
<1>1. /\ Len(journal') = n + 1 /\ n + 2 <= Len(hist)
      /\ journal' \in Seq(EntryS) /\ redo' \in Seq(EntryS)
      /\ Len(journal') + Len(redo') = Len(journal) + Len(redo)
      /\ Done' = Done /\ Last(redo) = Done[n + 1]
  BY <1>0, DoneForth
<1>2. /\ Len(hist) \in Nat /\ n \in Nat /\ clock \in Nat /\ Len(journal') + 1 = n + 2
      /\ \A i \in 1 .. Len(hist) : hist[i] \in Points /\ hist[i].clock \in Nat
  BY <1>0, <1>1, Counts
<1>3. clock' = IF Ticks(Done, n + 1) THEN Done[n + 1].old ELSE clock
  BY <1>1 DEF Ticks
<1>4. hist[n + 2] \in Points
  BY <1>1, <1>2
<1>5. StandsS(hist[Len(journal) + 1])'
  BY <1>2 DEF StandsS
<1> HIDE DEF n
<1>6. clock' \in Nat /\ ClockFits(Done, hist, n + 2, clock')
  BY <1>0, <1>1, <1>2, <1>3, ClockForth
<1>7. Snapshot' \in Points
  BY <1>4, <1>6 DEF Snapshot, Points, n
<1>8. StacksS'
  BY <1>0, <1>1, <1>7 DEF StacksS
<1> QED BY <1>0, <1>1, <1>2, <1>5, <1>6, <1>8 DEF SoloInv

(***************************************************************************)
(* define_name() touches neither the stacks nor the line.                  *)
(***************************************************************************)
LEMMA SoloStays ==
  ASSUME SoloInv, names' \in [Sheets -> [NameIds -> Targets \cup {Unbound}]],
         UNCHANGED << present, order, cells, clock, journal, redo, hist >>
  PROVE  SoloInv'
<1>1. Snapshot' \in Points
  BY DEF SoloInv, StacksS, Snapshot, Points
<1>2. StacksS' /\ Done' = Done
  BY <1>1 DEF SoloInv, StacksS, Done
<1> QED BY <1>2 DEF SoloInv, StandsS

\* Nothing to undo or redo, and a line of one point.
Fresh ==
    /\ journal = << >> /\ redo = << >> /\ hist = << Snapshot >>
    /\ Snapshot \in Points /\ TidyS(Snapshot)

(***************************************************************************)
(* A fresh workbook, loaded or reloaded.                                   *)
(***************************************************************************)
LEMMA SoloRestarts == Fresh => SoloInv
<1> SUFFICES ASSUME Fresh PROVE SoloInv
  OBVIOUS
<1>0. /\ journal = << >> /\ redo = << >> /\ hist = << Snapshot >>
      /\ Snapshot \in Points /\ TidyS(Snapshot)
  BY DEF Fresh
<1>1. /\ hist \in Seq(Points) /\ Len(hist) = 1 /\ hist[1] = Snapshot
      /\ Len(journal) = 0 /\ Len(redo) = 0
  BY <1>0
<1>2. StacksS
  BY <1>0, <1>1 DEF StacksS
<1>3. StandsS(hist[1]) /\ hist[1].clock = clock /\ clock \in Nat
  BY <1>1, <1>2, Counts DEF StandsS, Snapshot
<1>4. ChainS(Done, hist)
  BY <1>0, <1>1 DEF ChainS
<1>5. ClockLine(Done, hist) /\ ClockFits(Done, hist, 1, clock)
  BY <1>1, <1>3 DEF ClockLine, ClockFits
<1> QED BY <1>1, <1>2, <1>3, <1>4, <1>5 DEF SoloInv

LEMMA SoloRestarted == Fresh' => SoloInv'
BY SoloRestarts, PTL

LEMMA SoloInit == ASSUME LInit PROVE SoloInv
<1>1. HInv
  BY LoadedFits
<1>2. journal = << >> /\ redo = << >> /\ hist = << Snapshot >>
  BY DEF LInit
<1>3. Snapshot \in Points /\ WellFormed(Snapshot)
  BY <1>1, Lengths, SnapshotWellFormed
<1>4. TidyS(Snapshot)
  BY <1>3 DEF TidyS, WellFormed, DetachedBlank
<1> QED BY <1>2, <1>3, <1>4, SoloRestarts DEF Fresh

(***************************************************************************)
(* The journaled operations.                                               *)
(***************************************************************************)
LEMMA SoloAddsSheet ==
  ASSUME SoloInv, Written, NEW s \in Sheets, AddSheet(s)
  PROVE  SoloInv'
<1> DEFINE e == Record("add_sheet", s, NoSheet, 0, 0)
<1>0. /\ present \subseteq Sheets /\ order \in Seq(Sheets) /\ clock \in Nat
      /\ cells \in [Sheets -> [Addrs -> Raws \cup {Empty}]]
      /\ names \in [Sheets -> [NameIds -> Targets \cup {Unbound}]]
      /\ s \in Sheets \ present
  BY SoloHere DEF AddSheet
<1>1. /\ present = {order[i] : i \in 1 .. Len(order)}
      /\ \A i, j \in 1 .. Len(order) : order[i] = order[j] => i = j
      /\ \A x \in Sheets \ present : cells[x] = BlankCells
  BY SoloHere DEF TidyS, OrderMatches, Snapshot
<1>2. cells[s] = BlankCells
  BY <1>0, <1>1
<1>3. cells' = cells /\ clock' = clock /\ names' = [names EXCEPT ![s] = BlankNames]
  BY <1>0, <1>2 DEF AddSheet
<1>4. present' = present \cup {s} /\ order' = Append(order, s) /\ Log(e)
  BY DEF AddSheet
<1>5. e \in EntryS /\ Clocked(e, clock, clock')
  BY <1>3 DEF Record, EntryS, Clocked
<1>6. LeadsS(e, Snapshot, Snapshot')
  BY <1>0, <1>3, <1>4 DEF LeadsS, Record, Snapshot
<1>7. /\ Len(order) \in Nat /\ Len(order') = Len(order) + 1 /\ order' \in Seq(Sheets)
      /\ \A i \in 1 .. Len(order) : order'[i] = order[i]
      /\ order'[Len(order) + 1] = s
  BY <1>0, <1>4, AppendSeq
<1>8. Snapshot' \in Points
  <2>1. BlankNames \in [NameIds -> Targets \cup {Unbound}]
    BY DEF BlankNames
  <2> QED BY <1>0, <1>3, <1>4, <1>7, <2>1 DEF Snapshot, Points
<1>9. TidyS(Snapshot')
  <2>1. present' = {order'[i] : i \in 1 .. Len(order')}
    <3>1. \A x \in present' : \E i \in 1 .. Len(order') : order'[i] = x
      BY <1>1, <1>4, <1>7
    <3>2. \A i \in 1 .. Len(order') : order'[i] \in present'
      BY <1>1, <1>4, <1>7
    <3> QED BY <3>1, <3>2
  <2>2. \A i \in 1 .. Len(order) : order[i] # s
    BY <1>0, <1>1
  <2>3. \A i, j \in 1 .. Len(order') : order'[i] = order'[j] => i = j
    BY <1>1, <1>7, <2>2
  <2>4. \A x \in Sheets \ present' : cells'[x] = BlankCells
    BY <1>1, <1>3, <1>4
  <2> QED BY <2>1, <2>3, <2>4 DEF TidyS, OrderMatches, Snapshot
<1> HIDE DEF e
<1> QED BY <1>4, <1>5, <1>6, <1>8, <1>9, SoloDoes

LEMMA SoloWritesCell ==
  ASSUME SoloInv, Written, NEW e \in EntryS, Log(e), NEW s \in present, NEW a \in Addrs,
         NEW v \in Raws, cells' = [cells EXCEPT ![s][a] = v],
         UNCHANGED << present, order, names, clock >>,
         e.op # "advance_clock", LeadsS(e, Snapshot, Snapshot')
  PROVE  SoloInv'
<1>0. /\ present \subseteq Sheets /\ order \in Seq(Sheets) /\ clock \in Nat
      /\ cells \in [Sheets -> [Addrs -> Raws \cup {Empty}]]
      /\ names \in [Sheets -> [NameIds -> Targets \cup {Unbound}]]
  BY SoloHere
<1>1. /\ cells' \in [Sheets -> [Addrs -> Raws \cup {Empty}]]
      /\ \A x \in Sheets \ present : cells'[x] = cells[x]
  BY <1>0
<1>2. Snapshot' \in Points
  BY <1>0, <1>1 DEF Snapshot, Points
<1>3. TidyS(Snapshot')
  <2>1. TidyS(Snapshot)
    BY SoloHere
  <2> QED BY <1>1, <2>1 DEF TidyS, OrderMatches, Snapshot
<1>4. Clocked(e, clock, clock')
  BY DEF Clocked
<1> QED BY <1>2, <1>3, <1>4, SoloDoes

LEMMA SoloSets ==
  ASSUME SoloInv, Written, NEW s \in Sheets, NEW a \in Addrs, NEW v \in Raws, SetCell(s, a, v)
  PROVE  SoloInv'
<1> DEFINE e == Record("set", s, a, cells[s][a], v)
<1>1. /\ s \in present /\ cells' = [cells EXCEPT ![s][a] = v] /\ Log(e)
      /\ UNCHANGED << present, order, names, clock >>
  BY DEF SetCell
<1>2. cells[s][a] \in Raws \cup {Empty}
  BY SoloHere
<1>3. e \in EntryS /\ e.op # "advance_clock"
  BY <1>2 DEF Record, EntryS
<1>4. LeadsS(e, Snapshot, Snapshot')
  BY <1>1 DEF LeadsS, SameSheets, Record, Snapshot
<1> HIDE DEF e
<1> QED BY <1>1, <1>3, <1>4, SoloWritesCell

LEMMA SoloCopies ==
  ASSUME SoloInv, Written, NEW s \in Sheets, NEW a \in Addrs, NEW t \in Sheets, NEW b \in Addrs,
         CopyS(s, a, t, b)
  PROVE  SoloInv'
<1> DEFINE e == Record("copy", t, b, cells[t][b], << s, a >>)
           v == CopyText(cells[s][a], a, b)
<1>1. /\ s \in present /\ t \in present /\ cells[s][a] # Empty
      /\ cells' = [cells EXCEPT ![t][b] = v] /\ Log(e)
      /\ UNCHANGED << present, order, names, clock >>
  BY DEF CopyS
<1>2. cells[t][b] \in Raws \cup {Empty} /\ cells[s][a] \in Raws
  BY <1>1, SoloHere
<1>3. v \in Raws
  BY <1>2, CopyAssumption
<1>4. e \in EntryS /\ e.op # "advance_clock"
  BY <1>2 DEF Record, EntryS
<1>5. LeadsS(e, Snapshot, Snapshot')
  <2>1. /\ e.op = "copy" /\ e.sheet = t /\ e.key = b /\ e.old = cells[t][b]
        /\ e.new = << s, a >> /\ e.new[1] = s /\ e.new[2] = a
    BY DEF Record
  <2> HIDE DEF e
  <2> QED BY <1>1, <2>1 DEF LeadsS, SameSheets, Snapshot
<1> HIDE DEF e, v
<1> QED BY <1>1, <1>3, <1>4, <1>5, SoloWritesCell

LEMMA SoloTicks ==
  ASSUME SoloInv, Written, AdvanceClock
  PROVE  SoloInv'
<1> DEFINE e == Record("advance_clock", NoSheet, NoSheet, clock, clock + 1)
<1>0. /\ present \subseteq Sheets /\ order \in Seq(Sheets) /\ clock \in Nat
      /\ cells \in [Sheets -> [Addrs -> Raws \cup {Empty}]]
      /\ names \in [Sheets -> [NameIds -> Targets \cup {Unbound}]]
  BY SoloHere
<1>1. clock' = clock + 1 /\ Log(e) /\ UNCHANGED << present, order, cells, names >>
  BY DEF AdvanceClock
<1>2. e \in EntryS /\ Clocked(e, clock, clock')
  BY <1>0, <1>1 DEF Record, EntryS, Clocked
<1>3. LeadsS(e, Snapshot, Snapshot')
  <2>1. e.op = "advance_clock"
    BY DEF Record
  <2> QED BY <1>1, <2>1 DEF LeadsS, SameSheets, Snapshot
<1>4. Snapshot' \in Points
  BY <1>0, <1>1 DEF Snapshot, Points
<1>5. TidyS(Snapshot')
  <2>1. TidyS(Snapshot)
    BY SoloHere
  <2> QED BY <1>1, <2>1 DEF TidyS, OrderMatches, Snapshot
<1> HIDE DEF e
<1> QED BY <1>1, <1>2, <1>3, <1>4, <1>5, SoloDoes

(***************************************************************************)
(* The entry on top of a stack leads to the neighbouring point.            *)
(***************************************************************************)
LEMMA SoloUndoLink ==
  ASSUME SoloInv, journal # << >>
  PROVE  LET p == hist[Len(journal)]
         IN p \in Points /\ TidyS(p) /\ LeadsS(Last(journal), p, Snapshot)
<1>1. StacksS
  BY DEF SoloInv
<1>2. Len(journal) \in Nat \ {0}
  BY <1>1, Counts, EmptySeq
<1>3. Len(journal) \in 1 .. Len(hist) - 1 /\ Len(journal) \in 1 .. Len(hist)
  BY <1>1, <1>2, Counts
<1>4. Last(journal) = Done[Len(journal)]
  <2>1. Len(journal) \in 1 .. Len(journal) + Len(redo) /\ Len(journal) <= Len(journal)
    BY <1>1, <1>2, Counts
  <2> QED BY <2>1 DEF Last, Done
<1>5. LeadsS(Last(journal), hist[Len(journal)], hist[Len(journal) + 1])
  BY <1>3, <1>4 DEF SoloInv, ChainS
<1>6. hist[Len(journal)] \in Points /\ TidyS(hist[Len(journal)])
  BY <1>1, <1>3, Counts DEF SoloInv, ChainS
<1>7. LeadsS(Last(journal), hist[Len(journal)], Snapshot)
  BY <1>5, SoloHere DEF LeadsS, SameSheets, StandsS, Snapshot
<1> QED BY <1>6, <1>7

LEMMA SoloRedoLink ==
  ASSUME SoloInv, redo # << >>
  PROVE  LET q == hist[Len(journal) + 2]
         IN q \in Points /\ TidyS(q) /\ LeadsS(Last(redo), Snapshot, q)
<1>1. StacksS
  BY DEF SoloInv
<1>2. Len(redo) \in Nat \ {0} /\ Len(journal) \in Nat
  BY <1>1, Counts, EmptySeq
<1>3. /\ Len(journal) + 1 \in 1 .. Len(hist) - 1 /\ Len(journal) + 2 \in 1 .. Len(hist)
      /\ Len(journal) + 1 + 1 = Len(journal) + 2
  BY <1>1, <1>2, Counts
<1>4. Last(redo) = Done[Len(journal) + 1]
  <2>1. /\ Len(journal) + 1 \in 1 .. Len(journal) + Len(redo) /\ ~ (Len(journal) + 1 <= Len(journal))
        /\ Len(journal) + Len(redo) + 1 - (Len(journal) + 1) = Len(redo)
    BY <1>2
  <2> QED BY <2>1 DEF Last, Done
<1>5. LeadsS(Last(redo), hist[Len(journal) + 1], hist[Len(journal) + 2])
  BY <1>3, <1>4 DEF SoloInv, ChainS
<1>6. hist[Len(journal) + 2] \in Points /\ TidyS(hist[Len(journal) + 2])
  BY <1>1, <1>3, Counts DEF SoloInv, ChainS
<1>7. LeadsS(Last(redo), Snapshot, hist[Len(journal) + 2])
  BY <1>5, SoloHere DEF LeadsS, SameSheets, StandsS, Snapshot
<1> QED BY <1>6, <1>7

(***************************************************************************)
(* Reverting an entry, or applying it again, arrives at the neighbouring   *)
(* point. A copy is copied again: what its source held is there again, so  *)
(* the same text is stored.                                                *)
(***************************************************************************)
LEMMA SoloUndoes ==
  ASSUME SoloInv, UndoS, hist' = hist
  PROVE  SoloInv'
<1> DEFINE e == Last(journal)
           p == hist[Len(journal)]
<1>1. /\ journal # << >> /\ journal' = Front(journal) /\ redo' = Append(redo, e)
  BY DEF UndoS, UndoAddSheetS, UndoCell, UndoClock, Undoing
<1>2. p \in Points /\ TidyS(p) /\ LeadsS(e, p, Snapshot)
  BY <1>1, SoloUndoLink
<1>3. /\ p.order \in Seq(Sheets) /\ p.present \subseteq Sheets
      /\ p.cells \in [Sheets -> [Addrs -> Raws \cup {Empty}]]
  BY <1>2 DEF Points
<1>4. names \in [Sheets -> [NameIds -> Targets \cup {Unbound}]]
  BY SoloHere
<1> HIDE DEF e, p
<1>5. CASE UndoAddSheetS
  <2>1. /\ e.op = "add_sheet" /\ present' = present \ {e.sheet}
        /\ order' = RemoveFirst(order, e.sheet) /\ clock' = clock
        /\ cells' = [cells EXCEPT ![e.sheet] = BlankCells]
        /\ names' = [names EXCEPT ![e.sheet] = BlankNames]
    BY <1>5 DEF UndoAddSheetS, Undoing, e
  <2>2. /\ e.sheet \in Sheets /\ e.sheet \notin p.present /\ cells = p.cells
        /\ present = p.present \cup {e.sheet} /\ order = Append(p.order, e.sheet)
    BY <1>2, <2>1 DEF LeadsS, SameSheets, Snapshot
  <2>3. \A i \in 1 .. Len(p.order) : p.order[i] # e.sheet
    BY <1>2, <2>2 DEF TidyS, OrderMatches
  <2>4. order' = p.order
    BY <1>3, <2>1, <2>2, <2>3, RemoveLast
  <2>5. present' = p.present
    BY <2>1, <2>2
  <2>6. p.cells[e.sheet] = BlankCells
    BY <1>2, <2>2 DEF TidyS
  <2>7. cells' = p.cells
    BY <1>3, <2>1, <2>2, <2>6
  <2>8. names' \in [Sheets -> [NameIds -> Targets \cup {Unbound}]]
    <3>1. BlankNames \in [NameIds -> Targets \cup {Unbound}]
      BY DEF BlankNames
    <3> QED BY <1>4, <2>1, <3>1
  <2> QED BY <1>1, <2>1, <2>4, <2>5, <2>7, <2>8, SoloGoesBack DEF e, p
<1>6. CASE UndoCell
  <2>1. /\ e.op \in {"set", "copy"} /\ cells' = [cells EXCEPT ![e.sheet][e.key] = e.old]
        /\ UNCHANGED << present, order, names, clock >>
    BY <1>6 DEF UndoCell, Undoing, e
  <2>2. /\ e.sheet \in p.present /\ e.key \in Addrs
        /\ p.cells[e.sheet][e.key] = e.old
        /\ \E v : cells = [p.cells EXCEPT ![e.sheet][e.key] = v]
        /\ present = p.present /\ order = p.order
    BY <1>2, <2>1 DEF LeadsS, SameSheets, Snapshot
  <2>3. PICK v : cells = [p.cells EXCEPT ![e.sheet][e.key] = v]
    BY <2>2
  <2>4. cells' = p.cells
    <3> DEFINE f == p.cells
    <3>1. e.sheet \in Sheets /\ cells' = [cells EXCEPT ![e.sheet][e.key] = f[e.sheet][e.key]]
      BY <1>3, <2>1, <2>2
    <3>2. /\ f \in [Sheets -> [Addrs -> Raws \cup {Empty}]] /\ e.sheet \in Sheets /\ e.key \in Addrs
          /\ cells = [f EXCEPT ![e.sheet][e.key] = v]
          /\ cells' = [cells EXCEPT ![e.sheet][e.key] = f[e.sheet][e.key]]
      BY <1>3, <2>2, <2>3, <3>1
    <3> HIDE DEF f
    <3>3. [cells EXCEPT ![e.sheet][e.key] = f[e.sheet][e.key]] = f
      BY <3>2, PutBack
    <3> QED BY <3>2, <3>3 DEF f
  <2>5. e.op # "advance_clock" /\ present' = p.present /\ order' = p.order
        /\ names' \in [Sheets -> [NameIds -> Targets \cup {Unbound}]] /\ clock' = clock
    BY <1>4, <2>1, <2>2
  <2> QED BY <1>1, <2>4, <2>5, SoloGoesBack DEF e, p
<1>7. CASE UndoClock
  <2>1. /\ e.op = "advance_clock" /\ clock' = e.old
        /\ UNCHANGED << present, order, cells, names >>
    BY <1>7 DEF UndoClock, Undoing, e
  <2>2. present = p.present /\ order = p.order /\ cells = p.cells
    BY <1>2, <2>1 DEF LeadsS, SameSheets, Snapshot
  <2>3. present' = p.present /\ order' = p.order /\ cells' = p.cells
        /\ names' \in [Sheets -> [NameIds -> Targets \cup {Unbound}]]
    BY <1>4, <2>1, <2>2
  <2> QED BY <1>1, <2>1, <2>3, SoloGoesBack DEF e, p
<1> QED BY <1>5, <1>6, <1>7 DEF UndoS

LEMMA SoloRedoes ==
  ASSUME SoloInv, RedoS, hist' = hist
  PROVE  SoloInv'
<1> DEFINE e == Last(redo)
           q == hist[Len(journal) + 2]
<1>1. /\ redo # << >> /\ redo' = Front(redo) /\ journal' = Append(journal, e)
  BY DEF RedoS, RedoAddSheetS, RedoSetS, RedoCopyS, RedoClockS, Redoing
<1>2. q \in Points /\ TidyS(q) /\ LeadsS(e, Snapshot, q)
  BY <1>1, SoloRedoLink
<1>3. /\ cells \in [Sheets -> [Addrs -> Raws \cup {Empty}]] /\ TidyS(Snapshot)
      /\ names \in [Sheets -> [NameIds -> Targets \cup {Unbound}]]
  BY SoloHere
<1> HIDE DEF e, q
<1>4. CASE RedoAddSheetS
  <2>1. /\ e.op = "add_sheet" /\ present' = present \cup {e.sheet}
        /\ order' = Append(order, e.sheet) /\ clock' = clock
        /\ cells' = [cells EXCEPT ![e.sheet] = BlankCells]
        /\ names' = [names EXCEPT ![e.sheet] = BlankNames]
    BY <1>4 DEF RedoAddSheetS, Redoing, e
  <2>2. /\ e.sheet \in Sheets \ present /\ q.cells = cells
        /\ q.present = present \cup {e.sheet} /\ q.order = Append(order, e.sheet)
    BY <1>2, <2>1 DEF LeadsS, SameSheets, Snapshot
  <2>3. cells[e.sheet] = BlankCells
    BY <1>3, <2>2 DEF TidyS, Snapshot
  <2>4. cells' = q.cells /\ present' = q.present /\ order' = q.order
    BY <1>3, <2>1, <2>2, <2>3
  <2>5. names' \in [Sheets -> [NameIds -> Targets \cup {Unbound}]]
    <3>1. BlankNames \in [NameIds -> Targets \cup {Unbound}]
      BY DEF BlankNames
    <3> QED BY <1>3, <2>1, <3>1
  <2> QED BY <1>1, <2>1, <2>4, <2>5, SoloGoesForth DEF e, q
<1>5. CASE RedoSetS
  <2>1. /\ e.op = "set" /\ cells' = [cells EXCEPT ![e.sheet][e.key] = e.new]
        /\ UNCHANGED << present, order, names, clock >>
    BY <1>5 DEF RedoSetS, Redoing, e
  <2>2. /\ q.cells = [cells EXCEPT ![e.sheet][e.key] = e.new]
        /\ q.present = present /\ q.order = order
    BY <1>2, <2>1 DEF LeadsS, SameSheets, Snapshot
  <2>3. /\ cells' = q.cells /\ present' = q.present /\ order' = q.order
        /\ names' \in [Sheets -> [NameIds -> Targets \cup {Unbound}]]
        /\ e.op # "advance_clock" /\ clock' = clock
    BY <1>3, <2>1, <2>2
  <2> QED BY <1>1, <2>3, SoloGoesForth DEF e, q
<1>6. CASE RedoCopyS
  <2>1. /\ e.op = "copy"
        /\ cells' = IF SourceLost(e) THEN cells
                    ELSE [cells EXCEPT ![e.sheet][e.key] =
                             CopyText(cells[e.new[1]][e.new[2]], e.new[2], e.key)]
        /\ UNCHANGED << present, order, names, clock >>
    BY <1>6 DEF RedoCopyS, Redoing, e
  <2>2. /\ e.new \in present \X Addrs /\ cells[e.new[1]][e.new[2]] # Empty
        /\ q.cells = [cells EXCEPT ![e.sheet][e.key] =
                         CopyText(cells[e.new[1]][e.new[2]], e.new[2], e.key)]
        /\ q.present = present /\ q.order = order
    BY <1>2, <2>1 DEF LeadsS, SameSheets, Snapshot
  <2>3. ~ SourceLost(e)
    BY <2>2 DEF SourceLost
  <2>4. /\ cells' = q.cells /\ present' = q.present /\ order' = q.order
        /\ names' \in [Sheets -> [NameIds -> Targets \cup {Unbound}]]
        /\ e.op # "advance_clock" /\ clock' = clock
    BY <1>3, <2>1, <2>2, <2>3
  <2> QED BY <1>1, <2>4, SoloGoesForth DEF e, q
<1>7. CASE RedoClockS
  <2>1. /\ e.op = "advance_clock" /\ clock' = e.old
        /\ UNCHANGED << present, order, cells, names >>
    BY <1>7 DEF RedoClockS, Redoing, e
  <2>2. q.present = present /\ q.order = order /\ q.cells = cells
    BY <1>2, <2>1 DEF LeadsS, SameSheets, Snapshot
  <2>3. present' = q.present /\ order' = q.order /\ cells' = q.cells
        /\ names' \in [Sheets -> [NameIds -> Targets \cup {Unbound}]]
    BY <1>3, <2>1, <2>2
  <2> QED BY <1>1, <2>1, <2>3, SoloGoesForth DEF e, q
<1> QED BY <1>4, <1>5, <1>6, <1>7 DEF RedoS

(***************************************************************************)
(* The inductive invariant of both workbooks.                              *)
(***************************************************************************)
LEMMA SoloStep ==
  ASSUME SoloInv, SoloLine
  PROVE  SoloInv'
<1>1. CASE EditS /\ Written
  BY <1>1, SoloAddsSheet, SoloSets, SoloCopies, SoloTicks DEF EditS
<1>2. ASSUME NEW s \in Sheets, NEW n \in NameIds, NEW t \in Targets,
             DefineNameS(s, n, t), UNCHANGED hist
      PROVE  SoloInv'
  <2>1. names' \in [Sheets -> [NameIds -> Targets \cup {Unbound}]]
    BY <1>2, SoloHere DEF DefineNameS
  <2> QED BY <1>2, <2>1, SoloStays DEF DefineNameS
<1>3. CASE UndoS /\ UNCHANGED hist
  BY <1>3, SoloUndoes
<1>4. CASE RedoS /\ UNCHANGED hist
  BY <1>4, SoloRedoes
<1>5. CASE ReloadS /\ hist' = << Snapshot' >>
  <2>1. TidyS(Snapshot) /\ Snapshot \in Points
    BY SoloHere DEF SoloInv, StacksS
  <2>2. Snapshot' = Snapshot /\ journal' = << >> /\ redo' = << >>
    BY <1>5 DEF ReloadS, content, Snapshot
  <2>3. TidyS(Snapshot') /\ Snapshot' \in Points
    BY <2>1, <2>2
  <2> QED BY <1>5, <2>2, <2>3, SoloRestarted DEF Fresh
<1> QED BY <1>1, <1>2, <1>3, <1>4, <1>5 DEF SoloLine

LEMMA LineInvStep ==
  ASSUME LineInv, [LNext]_lvars
  PROVE  LineInv'
<1>1. CASE arm = "thin" /\ ThinLine /\ arm' = arm
  <2>1. HInv
    BY <1>1 DEF LineInv, HInv
  <2>2. HInv'
    BY <1>1, <2>1, ThinIsThick, HInvStep
  <2> QED BY <1>1, <2>2 DEF LineInv, HInv
<1>2. CASE arm = "solo" /\ SoloLine /\ arm' = arm
  BY <1>2, SoloStep DEF LineInv
<1>3. CASE UNCHANGED lvars
  <2>1. ASSUME arm = "thin" PROVE TypeOK' /\ HistoryInv'
    <3>1. HInv /\ UNCHANGED hvars
      BY <1>3, <2>1 DEF LineInv, HInv, lvars
    <3>2. HInv'
      BY <3>1, HInvStep
    <3> QED BY <3>2 DEF HInv
  <2>2. ASSUME arm = "solo" PROVE SoloInv'
    BY <1>3, <2>2, SoloStays, SoloHere DEF LineInv, lvars, hvars, vars, content
  <2> QED BY <1>3, <2>1, <2>2 DEF LineInv, lvars
<1> QED BY <1>1, <1>2, <1>3 DEF LNext

LEMMA LineInvariant == LSpec => []LineInv
<1>1. LInit => LineInv
  BY LoadedFits, SoloInit DEF LineInv, HInv
<1>2. LineInv /\ [LNext]_lvars => LineInv'
  BY LineInvStep
<1> QED BY <1>1, <1>2, PTL DEF LSpec

(***************************************************************************)
(* Whatever was undone and redone, armT's workbook holds exactly what it   *)
(* held at that point of its line; armS's holds the same sheets and cells, *)
(* and its clock is never ahead of that point's. For any workbook loaded,  *)
(* any sheets, cells, names and contents and any number of operations.     *)
(***************************************************************************)
THEOREM LineAlwaysWalked == LSpec => []WalksTheLine
<1>1. ASSUME LineInv, arm = "thin" PROVE WalksTheLine
  <2>1. HInv
    BY <1>1 DEF LineInv, HInv
  <2> QED BY <1>1, <2>1, Lengths DEF WalksTheLine, Snapshot
<1>2. ASSUME LineInv, arm = "solo" PROVE WalksTheLine
  <2>1. SoloInv
    BY <1>2 DEF LineInv
  <2>2. Len(hist) = 1 + Len(journal) + Len(redo)
    BY <2>1, Counts DEF SoloInv
  <2>3. clock <= hist[Len(journal) + 1].clock
    <3> DEFINE n == Len(journal) + 1
    <3>1. n \in n .. Len(hist) /\ n \in Nat
      BY <2>1, Counts DEF SoloInv
    <3>2. ClockFits(Done, hist, n, clock)
      BY <2>1 DEF SoloInv
    <3> HIDE DEF n
    <3>3. \A i \in n .. n - 1 : ~ Ticks(Done, i)
      BY <3>1
    <3>4. clock <= hist[n].clock
      BY <3>1, <3>2, <3>3 DEF ClockFits
    <3> QED BY <3>4 DEF n
  <2> QED BY <1>2, <2>1, <2>2, <2>3 DEF WalksTheLine, SoloInv, StandsS
<1>3. LInit => arm \in {"thin", "solo"}
  BY ArmsAssumption DEF LInit
<1>4. arm \in {"thin", "solo"} /\ [LNext]_lvars => (arm \in {"thin", "solo"})'
  BY DEF LNext, lvars
<1>5. LineInv /\ arm \in {"thin", "solo"} => WalksTheLine
  BY <1>1, <1>2
<1> QED BY <1>3, <1>4, <1>5, LineInvariant, PTL DEF LSpec

(***************************************************************************)
(* armT's undo() and redo() store what armK's would, step by step.         *)
(***************************************************************************)
THEOREM ThinStoresAsThick == LSpec => [][arm = "thin" => [HNext]_hvars]_lvars
<1>1. LineInv /\ [LNext]_lvars => [arm = "thin" => [HNext]_hvars]_lvars
  BY ThinIsThick DEF LNext, LineInv, HInv
<1> QED BY <1>1, LineInvariant, PTL DEF LSpec

(***************************************************************************)
(* armT's undo() and redo() move along one line of contents, as armK's do. *)
(***************************************************************************)
THEOREM ThinWalksTimeLine ==
  LSpec => [][arm = "thin" => [Line!Next]_<< hist, Len(journal) + 1, Snapshot >>]_lvars
<1>1. LineInv /\ [LNext]_lvars
      => [arm = "thin" => [Line!Next]_<< hist, Len(journal) + 1, Snapshot >>]_lvars
  BY ThinIsThick, LineMoves DEF LNext, LineInv, HInv
<1> QED BY <1>1, LineInvariant, PTL DEF LSpec
=============================================================================
