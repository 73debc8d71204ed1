------------------------------ MODULE TimeLine ------------------------------
(***************************************************************************)
(* What undo() and redo() promise: one line of workbook contents, a        *)
(* position on it, and a workbook that holds what the line says there.  An *)
(* operation cuts off whatever lies beyond the position and adds a new     *)
(* last point; undo() and redo() only move; a reload starts a new line at  *)
(* the present point.                                                      *)
(***************************************************************************)
EXTENDS Naturals, Sequences

CONSTANT First      \* the contents of a new workbook

VARIABLES line, at,
          now       \* what the workbook holds

Init == line = << First >> /\ at = 1 /\ now = First

Do ==
    /\ at' = at + 1
    /\ line' = Append(SubSeq(line, 1, at), now')

Undo == at > 1 /\ at' = at - 1 /\ now' = line[at - 1] /\ UNCHANGED line

Redo == at < Len(line) /\ at' = at + 1 /\ now' = line[at + 1] /\ UNCHANGED line

Restart == line' = << now >> /\ at' = 1 /\ UNCHANGED now

Next == Do \/ Undo \/ Redo \/ Restart

Spec == Init /\ [][Next]_<< line, at, now >>
=============================================================================
