----------------------------- MODULE XlCounters -----------------------------
(***************************************************************************)
(* The eval_count of the sheets through the lifetime of an armK workbook.  *)
(* evals[s] is the counter in the _SheetState of s, also while undo() has  *)
(* taken the sheet away; saved is the workbook's _eval_counts, from which  *)
(* add_sheet() starts the counter of a sheet that replaces one taken away. *)
(***************************************************************************)
EXTENDS XlContents

CONSTANT MaxEvals   \* bound on a counter
ASSUME EvalsAssumption == MaxEvals \in Nat

VARIABLES evals, saved

cvars == << vars, evals, saved >>

CTypeOK == evals \in [Sheets -> Nat] /\ saved \in [Sheets -> Nat]

CInit ==
    /\ Init
    /\ evals = [s \in Sheets |-> 0] /\ saved = [s \in Sheets |-> 0]

\* Mutant: a sheet always starts counting from zero.
CAddSheetAtZero(s) ==
    AddSheet(s) /\ evals' = [evals EXCEPT ![s] = 0] /\ UNCHANGED saved

CAddSheet(s) ==
    AddSheet(s) /\ evals' = [evals EXCEPT ![s] = saved[s]] /\ UNCHANGED saved

\* Mutant: what the sheet counted is forgotten with it.
CUndoAddSheetUnsaved == UndoAddSheet /\ UNCHANGED << evals, saved >>

CUndoAddSheet ==
    /\ UndoAddSheet
    /\ saved' = [saved EXCEPT ![Last(journal).sheet] = evals[Last(journal).sheet]]
    /\ UNCHANGED evals

\* A get() on any sheet starts the computation of a formula cell of s.
Started(s) ==
    /\ s \in present /\ evals[s] < MaxEvals
    /\ evals' = [evals EXCEPT ![s] = @ + 1]
    /\ UNCHANGED << vars, saved >>

\* The operations that do not concern the counters.
CEdit ==
    /\ \/ \E s \in Sheets, a \in Addrs, v \in Raws : SetCell(s, a, v)
       \/ \E s, t \in Sheets, a, b \in Addrs : Copy(s, a, t, b)
       \/ \E s \in Sheets, n \in NameIds, t \in Targets : DefineName(s, n, t)
       \/ AdvanceClock
    /\ UNCHANGED << evals, saved >>

CUndoOther == (UndoCell \/ UndoName \/ UndoClock) /\ UNCHANGED << evals, saved >>
CRedo == Redo /\ UNCHANGED << evals, saved >>
CWalk == CUndoOther \/ CRedo

COther == CEdit \/ CWalk

\* from_json() makes a workbook that has evaluated nothing.
CReload ==
    /\ Reload
    /\ evals' = [s \in Sheets |-> 0] /\ saved' = [s \in Sheets |-> 0]

CNext ==
    \/ \E s \in Sheets : CAddSheet(s) \/ Started(s)
    \/ CUndoAddSheet
    \/ CEdit
    \/ CWalk
    \/ CReload

CSpec == CInit /\ [][CNext]_cvars

\* A sheet that is away comes back with the counter it left with, whether by
\* redo() or by a new add_sheet().
SavedIsLast == \A s \in Sheets \ present : saved[s] = evals[s]

\* The eval_count of a name never drops in the life of one workbook, however
\* often the sheet is taken away, brought back or replaced.
CountsNeverDrop == [][Reload \/ \A s \in Sheets : evals'[s] >= evals[s]]_cvars
=============================================================================
