------------------------------ MODULE KvGhost ------------------------------
(***************************************************************************)
(* KvOverlay with the snapshots it stands for carried along as a history   *)
(* variable.  The history is only written, never read, by the operations,  *)
(* so it adds nothing to what they can do; it gives the inductive          *)
(* invariant behind ImplementsSnapshots something to talk about.           *)
(***************************************************************************)
EXTENDS KvOverlay

VARIABLE snaps

gvars == << vars, snaps >>

\* What a write of entry does to the snapshot on top.
SnapWrite(k, entry) ==
    snaps' = [snaps EXCEPT ![Len(snaps)] =
                 [@ EXCEPT ![k] = IF entry = Deleted THEN None ELSE entry]]

GInit == Init /\ snaps = << [k \in Keys |-> None] >>

GNext ==
    \/ \E k \in Keys, v \in Values : Set(k, v) /\ SnapWrite(k, v)
    \/ \E k \in Keys : Delete(k) /\ SnapWrite(k, Deleted)
    \/ Begin /\ snaps' = Append(snaps, snaps[Len(snaps)])
    \/ Rollback /\ snaps' = SubSeq(snaps, 1, Len(snaps) - 1)
    \/ CommitStart /\ UNCHANGED snaps
    \/ \E k \in Keys : CommitItem(k) /\ UNCHANGED snaps
    \/ CommitNextFrame /\ UNCHANGED snaps
    \/ CommitEnd /\ snaps' = << snaps[Len(snaps)] >>

GSpec == GInit /\ [][GNext]_gvars

\* A call that has started runs on: commit()'s loop is never abandoned.
GFairSpec == GSpec /\ WF_gvars(pc = "commit" /\ GNext)

Promise == INSTANCE KvTx

----------------------------------------------------------------------------
\* Properties

SnapsType == snaps \in Seq(Promise!Contents) /\ Len(snaps) = Len(frames) + 1

\* Each frame is exactly the difference between two neighbouring snapshots.
FramesEncodeSnaps ==
    \A j \in 1 .. Len(frames) : \A k \in Keys :
        snaps[j + 1][k] = Over(frames[j][k], snaps[j][k])

\* Outside commit() the committed contents are the outermost snapshot.
BaseIsOutermost == pc = "idle" => base = snaps[1]

\* The loop invariant of commit(): while frame fi is being applied, the base
\* is snapshot fi on the items still to do and snapshot fi + 1 elsewhere.
CommitLoop ==
    pc = "commit" =>
        /\ fi \in 1 .. Len(frames)
        /\ todo \subseteq Touched(frames[fi])
        /\ \A k \in Keys :
              base[k] = IF k \in todo THEN snaps[fi][k] ELSE snaps[fi + 1][k]

GhostInv == TypeOK /\ SnapsType /\ FramesEncodeSnaps /\ BaseIsOutermost /\ CommitLoop

\* A read goes to the innermost frame that mentions the key and returns what
\* the innermost snapshot holds, in every state, also half way through commit().
ReadsTop == \A k \in Keys : Get(k) = snaps[Len(snaps)][k]
=============================================================================
