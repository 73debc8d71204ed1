------------------------------ MODULE XlTwins ------------------------------
(***************************************************************************)
(* An armK workbook and the reference workbook of the graders driven by    *)
(* the same calls, as the differential tests do: each operation of one is  *)
(* taken together with its counterpart, and what armK refuses is asked of  *)
(* the reference too.  The line of contents and the counters of armK are   *)
(* carried along.                                                          *)
(***************************************************************************)
EXTENDS XlHistory, XlCounters

VARIABLES book, rjournal, rredo

Reference == INSTANCE XlReference

wvars == << vars, hist, evals, saved, book, rjournal, rredo >>

Extended == hist' = Append(SubSeq(hist, 1, Len(journal) + 1), Snapshot')

WInit == HInit /\ CInit /\ Reference!RefInit

\* An operation that does not concern the counters, in both workbooks.
WEdit ==
    /\ \/ \E s \in Sheets, a \in Addrs, v \in Raws : SetCell(s, a, v) /\ Reference!RefSet(s, a, v)
       \/ \E s, t \in Sheets, a, b \in Addrs : Copy(s, a, t, b) /\ Reference!RefCopy(s, a, t, b)
       \/ \E s \in Sheets, n \in NameIds, t \in Targets :
             DefineName(s, n, t) /\ Reference!RefDefineName(s, n, t)
       \/ AdvanceClock /\ Reference!RefAdvanceClock
    /\ UNCHANGED << evals, saved >>

\* A call armK answers with an error or with False, which changes nothing there.
WRefused ==
    /\ \/ \E s \in present : Reference!RefAddSheet(s)
       \/ \E s \in Sheets \ present, a \in Addrs, v \in Raws : Reference!RefSet(s, a, v)
       \/ \E s, t \in Sheets, a, b \in Addrs :
             /\ ~ (s \in present /\ t \in present /\ cells[s][a] # Empty)
             /\ Reference!RefCopy(s, a, t, b)
       \/ \E s \in Sheets, n \in NameIds, t \in Targets :
             ~ (s \in present /\ ValidTarget(t)) /\ Reference!RefDefineName(s, n, t)
       \/ journal = << >> /\ Reference!RefUndo
       \/ redo = << >> /\ Reference!RefRedo
    /\ UNCHANGED << vars, hist, evals, saved >>

WNext ==
    \/ \E s \in Sheets : CAddSheet(s) /\ Reference!RefAddSheet(s) /\ Extended
    \/ \E s \in Sheets : Started(s) /\ UNCHANGED << hist, book, rjournal, rredo >>
    \/ WEdit /\ Extended
    \/ (CUndoAddSheet \/ CUndoOther) /\ Reference!RefUndo /\ UNCHANGED hist
    \/ CRedo /\ Reference!RefRedo /\ UNCHANGED hist
    \/ CReload /\ Reference!RefReload /\ hist' = << Snapshot' >>
    \/ WRefused

WSpec == WInit /\ [][WNext]_wvars
----------------------------------------------------------------------------
\* The entry of the reference's journal for an entry of armK's.
EntryOf(e) ==
    CASE e.op = "add_sheet" -> <<"sheet", e.sheet>>
      [] e.op \in {"set", "copy"} -> <<"cell", e.sheet, e.key, e.old, e.new>>
      [] e.op = "define_name" -> <<"name", e.sheet, e.key, e.old, e.new>>
      [] e.op = "advance_clock" -> <<"clock">>

Pictured(stack) == [i \in 1 .. Len(stack) |-> EntryOf(stack[i])]

\* Whatever is called, armK and the reference take the same calls, store the
\* same, and can undo and redo the same operations in the same order.
ReferenceAgrees ==
    /\ book = [sheets |-> order, clock |-> clock,
               cells |-> [s \in Sheets |-> IF s \in present THEN cells[s] ELSE BlankCells],
               names |-> [s \in Sheets |-> IF s \in present THEN names[s] ELSE BlankNames]]
    /\ rjournal = Pictured(journal) /\ rredo = Pictured(redo)
=============================================================================
