------------------------------- MODULE XlLines -------------------------------
(***************************************************************************)
(* What the workbooks of armT and armS store, engines left out, with the   *)
(* line of contents it goes through: arm says which of the two a behaviour *)
(* runs.  It starts from any workbook that a program may have loaded.      *)
(***************************************************************************)
EXTENDS XlHistory

CONSTANTS Workbooks, Arms

ASSUME WorkbooksAssumption == \A w \in Workbooks : w \in Points /\ WellFormed(w)
ASSUME ArmsAssumption == Arms \subseteq {"thin", "solo"}

VARIABLE arm

lvars == << hvars, arm >>

LInit ==
    /\ arm \in Arms
    /\ \E w \in Workbooks :
          /\ present = w.present /\ order = w.order /\ clock = w.clock
          /\ cells = w.cells /\ names = w.names
    /\ journal = << >> /\ redo = << >> /\ past = 0
    /\ hist = << Snapshot >>

\* The contents after a journaled operation follow the ones before it.
Written == hist' = Append(SubSeq(hist, 1, Len(journal) + 1), Snapshot')

ThinLine ==
    \/ EditT /\ Written
    \/ (UndoT \/ RedoT) /\ UNCHANGED hist
    \/ Reload /\ hist' = << Snapshot' >>

SoloLine ==
    \/ EditS /\ Written
    \/ \E s \in Sheets, n \in NameIds, t \in Targets : DefineNameS(s, n, t) /\ UNCHANGED hist
    \/ (UndoS \/ RedoS) /\ UNCHANGED hist
    \/ ReloadS /\ hist' = << Snapshot' >>

LNext ==
    /\ \/ arm = "thin" /\ ThinLine
       \/ arm = "solo" /\ SoloLine
    /\ UNCHANGED arm

LSpec == LInit /\ [][LNext]_lvars

----------------------------------------------------------------------------
\* Properties

\* Undo and redo walk the line of contents that the journaled operations went
\* through.  In armS the names are no part of it, and the clock may lag behind.
WalksTheLine ==
    LET then == hist[Len(journal) + 1]
    IN /\ Len(hist) = 1 + Len(journal) + Len(redo)
       /\ present = then.present /\ order = then.order /\ cells = then.cells
       /\ arm = "thin" => names = then.names /\ clock = then.clock
       /\ arm = "solo" => clock <= then.clock
=============================================================================
