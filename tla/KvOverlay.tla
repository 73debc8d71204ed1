----------------------------- MODULE KvOverlay -----------------------------
(***************************************************************************)
(* The transaction machine all three kvtx implementations share: committed *)
(* contents plus a stack of overlay frames, where a frame holds only what  *)
(* was written since its begin() and a deletion is a tombstone.            *)
(*                                                                         *)
(* commit() is a loop over the frames and, inside, over the items of each; *)
(* an action per item, one to move to the next frame and one to clear the  *)
(* stack keep the loop's own invariant visible.  The caller is inside the  *)
(* call for all of it, so no other operation can start.                    *)
(***************************************************************************)
EXTENDS Naturals, Sequences, FiniteSets

CONSTANTS
    Keys, Values, None, MaxNest,
    Deleted,   \* the tombstone: _DELETED, or None in the rerun arm
    Absent     \* the frame has no entry for this key

ASSUME SentinelAssumption ==
    /\ None \notin Values /\ Deleted \notin Values /\ Absent \notin Values
    /\ Deleted # Absent
ASSUME NestAssumption == MaxNest \in Nat

VARIABLES
    base,      \* committed contents
    frames,    \* tx_stack, outermost first
    pc,        \* "idle", or "commit" inside commit()
    fi,        \* the frame commit() is applying
    todo       \* its items not applied yet

vars == << base, frames, pc, fi, todo >>

Frame == [Keys -> Values \cup {Deleted, Absent}]
EmptyFrame == [k \in Keys |-> Absent]
Touched(f) == {k \in Keys : f[k] # Absent}

TypeOK ==
    /\ base \in [Keys -> Values \cup {None}]
    /\ frames \in Seq(Frame) /\ Len(frames) <= MaxNest
    /\ pc \in {"idle", "commit"}
    /\ fi \in Nat
    /\ todo \subseteq Keys

\* The value an overlay entry stands for, over what lies below it.
Over(entry, below) ==
    CASE entry = Absent  -> below
      [] entry = Deleted -> None
      [] OTHER           -> entry

----------------------------------------------------------------------------
\* Reads

\* Mutant: the walk over the stack starts at the outermost frame.
OutermostHolder(k, n) ==
    LET H == {i \in 1 .. n : frames[i][k] # Absent}
    IN IF H = {} THEN 0 ELSE CHOOSE i \in H : \A j \in H : i <= j

\* The innermost of the first n frames that has an entry for k, 0 if none.
Holder(k, n) ==
    LET H == {i \in 1 .. n : frames[i][k] # Absent}
    IN IF H = {} THEN 0 ELSE CHOOSE i \in H : \A j \in H : j <= i

ReadAt(k, n) ==
    LET i == Holder(k, n) IN IF i = 0 THEN base[k] ELSE Over(frames[i][k], None)

Get(k) == ReadAt(k, Len(frames))

\* Mutant: only the committed keys are looked at.
CommittedKeysOnly == {k \in Keys : base[k] # None}

\* count() looks at the keys of the base and of every frame, no others.
CountKeys ==
    {k \in Keys : base[k] # None} \cup UNION {Touched(frames[i]) : i \in 1 .. Len(frames)}

Count(v) == Cardinality({k \in CountKeys : Get(k) = v})

----------------------------------------------------------------------------
\* Operations

Init ==
    /\ base = [k \in Keys |-> None]
    /\ frames = << >>
    /\ pc = "idle" /\ fi = 0 /\ todo = {}

\* set() writes v, delete() a tombstone, to the innermost frame when there is
\* one and to the base when there is none.
Write(k, entry) ==
    /\ pc = "idle"
    /\ IF frames # << >>
       THEN /\ frames' = [frames EXCEPT ![Len(frames)][k] = entry]
            /\ UNCHANGED base
       ELSE /\ base' = [base EXCEPT ![k] = Over(entry, base[k])]
            /\ UNCHANGED frames
    /\ UNCHANGED << pc, fi, todo >>

Set(k, v) == Write(k, v)

Delete(k) == Write(k, Deleted)

Begin ==
    /\ pc = "idle" /\ Len(frames) < MaxNest
    /\ frames' = Append(frames, EmptyFrame)
    /\ UNCHANGED << base, pc, fi, todo >>

\* Mutant: rollback() closes every open transaction.
RollbackAll ==
    /\ pc = "idle" /\ frames # << >>
    /\ frames' = << >>
    /\ UNCHANGED << base, pc, fi, todo >>

Rollback ==
    /\ pc = "idle" /\ frames # << >>
    /\ frames' = SubSeq(frames, 1, Len(frames) - 1)
    /\ UNCHANGED << base, pc, fi, todo >>

CommitStart ==
    /\ pc = "idle" /\ frames # << >>
    /\ pc' = "commit" /\ fi' = 1 /\ todo' = Touched(frames[1])
    /\ UNCHANGED << base, frames >>

\* Mutant: the tombstone itself is stored in the base.
CommitItemRaw(k) ==
    /\ pc = "commit" /\ k \in todo
    /\ base' = [base EXCEPT ![k] = frames[fi][k]]
    /\ todo' = todo \ {k}
    /\ UNCHANGED << frames, pc, fi >>

CommitItem(k) ==
    /\ pc = "commit" /\ k \in todo
    /\ base' = [base EXCEPT ![k] = Over(frames[fi][k], base[k])]
    /\ todo' = todo \ {k}
    /\ UNCHANGED << frames, pc, fi >>

\* Mutant: the loop moves on to the frame it has just applied.
CommitSameFrame ==
    /\ pc = "commit" /\ todo = {} /\ fi < Len(frames)
    /\ fi' = fi /\ todo' = Touched(frames[fi])
    /\ UNCHANGED << base, frames, pc >>

CommitNextFrame ==
    /\ pc = "commit" /\ todo = {} /\ fi < Len(frames)
    /\ fi' = fi + 1 /\ todo' = Touched(frames[fi + 1])
    /\ UNCHANGED << base, frames, pc >>

\* Mutant: each applied frame is dropped from the stack at once, innermost
\* frame first, before the outer ones reach the base.
CommitDropInnermost ==
    /\ pc = "commit" /\ todo = {} /\ fi <= Len(frames)
    /\ frames' = SubSeq(frames, 1, Len(frames) - 1)
    /\ IF Len(frames) = 1 THEN pc' = "idle" /\ fi' = 0 ELSE UNCHANGED << pc, fi >>
    /\ UNCHANGED << base, todo >>

CommitEnd ==
    /\ pc = "commit" /\ todo = {} /\ fi = Len(frames)
    /\ frames' = << >> /\ pc' = "idle" /\ fi' = 0
    /\ UNCHANGED << base, todo >>

Next ==
    \/ \E k \in Keys, v \in Values : Set(k, v)
    \/ \E k \in Keys : Delete(k)
    \/ Begin
    \/ Rollback
    \/ CommitStart
    \/ \E k \in Keys : CommitItem(k)
    \/ CommitNextFrame
    \/ CommitEnd

Spec == Init /\ [][Next]_vars

----------------------------------------------------------------------------
\* Properties

\* The snapshots the frames encode.  From the first step of commit() on, the
\* caller can only ever see the fully committed contents.
AbsSnaps ==
    IF pc = "commit"
    THEN << [k \in Keys |-> Get(k)] >>
    ELSE [n \in 1 .. Len(frames) + 1 |-> [k \in Keys |-> ReadAt(k, n - 1)]]

Abs == INSTANCE KvTx WITH snaps <- AbsSnaps

\* Overlays, tombstones and the commit loop together are indistinguishable
\* from a stack of snapshots: rollback() restores exactly what the matching
\* begin() saw, commit() keeps what the innermost transaction saw.
ImplementsSnapshots == Abs!Spec

\* count() finds every key that reads as v although it only looks at keys the
\* base or some frame mentions, and a tombstone is never counted.
CountIsExact ==
    \A v \in Values : Count(v) = Cardinality({k \in Keys : Get(k) = v})

\* Merging frames outermost first never changes what a read would see while
\* the frames are still stacked on top of the half-merged base.
CommitKeepsView ==
    [][pc = "commit" => \A k \in Keys : Get(k)' = Get(k)]_vars

\* commit() ends, whatever the number of frames and items.
CommitTerminates == (pc = "commit") ~> (pc = "idle")
=============================================================================
