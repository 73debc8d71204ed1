-------------------------------- MODULE KvTx --------------------------------
(***************************************************************************)
(* What the key/value store promises to its user: nested transactions as a *)
(* stack of whole snapshots.  begin() duplicates the visible contents,     *)
(* set() and delete() change the innermost copy, rollback() throws it away *)
(* and commit() makes it the only one.  No implementation is written like  *)
(* this; KvOverlay, which is, has to be indistinguishable from it.         *)
(***************************************************************************)
EXTENDS Naturals, Sequences

CONSTANTS
    Keys,      \* the strings used as keys
    Values,    \* the strings used as values
    None,      \* what get() answers for a key that is not set
    MaxNest    \* bound on the nesting depth (the code has none)

VARIABLE snaps    \* committed contents first, innermost transaction last

Contents == [Keys -> Values \cup {None}]

Top == snaps[Len(snaps)]

OnTop(c) == snaps' = [snaps EXCEPT ![Len(snaps)] = c]

TypeOK == snaps \in Seq(Contents) /\ Len(snaps) \in 1 .. MaxNest + 1

Init == snaps = << [k \in Keys |-> None] >>

Set(k, v) == OnTop([Top EXCEPT ![k] = v])

Delete(k) == OnTop([Top EXCEPT ![k] = None])

Begin == Len(snaps) <= MaxNest /\ snaps' = Append(snaps, Top)

Rollback == Len(snaps) > 1 /\ snaps' = SubSeq(snaps, 1, Len(snaps) - 1)

Commit == Len(snaps) > 1 /\ snaps' = << Top >>

Next ==
    \/ \E k \in Keys, v \in Values : Set(k, v)
    \/ \E k \in Keys : Delete(k)
    \/ Begin
    \/ Rollback
    \/ Commit

Spec == Init /\ [][Next]_snaps
=============================================================================
