-------------------------------- MODULE MCKv --------------------------------
(***************************************************************************)
(* The overlay machine with its snapshots and both value indexes carried   *)
(* along in one run.                                                       *)
(***************************************************************************)
EXTENDS KvGhost, KvIndexed

kvars == << vars, snaps, vc, vk >>

KInit == GInit /\ IInit

KNext ==
    \/ \E k \in Keys, v \in Values : IWrite(k, v) /\ SnapWrite(k, v)
    \/ \E k \in Keys : IWrite(k, Deleted) /\ SnapWrite(k, Deleted)
    \/ Begin /\ snaps' = Append(snaps, snaps[Len(snaps)]) /\ UNCHANGED << vc, vk >>
    \/ Rollback /\ snaps' = SubSeq(snaps, 1, Len(snaps) - 1) /\ UNCHANGED << vc, vk >>
    \/ CommitStart /\ UNCHANGED << snaps, vc, vk >>
    \/ \E k \in Keys : ICommitItem(k) /\ UNCHANGED snaps
    \/ CommitNextFrame /\ UNCHANGED << snaps, vc, vk >>
    \/ CommitEnd /\ snaps' = << snaps[Len(snaps)] >> /\ UNCHANGED << vc, vk >>

\* A call that has started runs on: commit()'s loop is never abandoned.
KSpec == KInit /\ [][KNext]_kvars /\ WF_kvars(pc = "commit" /\ KNext)
=============================================================================
