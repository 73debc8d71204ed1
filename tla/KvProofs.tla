------------------------------ MODULE KvProofs ------------------------------
(***************************************************************************)
(* KvOverlay is indistinguishable from a stack of snapshots, and the value *)
(* index of KvIndexed is exact, for any keys, values and nesting depth.    *)
(***************************************************************************)
EXTENDS KvGhost, KvIndexed, ProofLemmas, FiniteSetTheorems

(***************************************************************************)
(* The value of an overlay entry is a value or None whenever what lies     *)
(* below it is one.                                                        *)
(***************************************************************************)
LEMMA OverType ==
  ASSUME NEW entry \in Values \cup {Deleted, Absent}, NEW below \in Values \cup {None}
  PROVE  Over(entry, below) \in Values \cup {None}
BY SentinelAssumption DEF Over

(***************************************************************************)
(* What the frames, the half-merged base and the history have to do with   *)
(* each other, at every step of every operation and of commit()'s loop.    *)
(***************************************************************************)
THEOREM GhostInvariant == GSpec => []GhostInv
<1> USE SentinelAssumption, NestAssumption
<1>1. GInit => GhostInv
  BY DEF GInit, Init, GhostInv, TypeOK, SnapsType, FramesEncodeSnaps,
         BaseIsOutermost, CommitLoop, Frame, Promise!Contents
<1>2. GhostInv /\ [GNext]_gvars => GhostInv'
  <2> SUFFICES ASSUME GhostInv, [GNext]_gvars PROVE GhostInv'
    OBVIOUS
  <2> USE DEF GhostInv, SnapsType
  <2> DEFINE n == Len(frames)
  <2>0. /\ n \in Nat /\ Len(snaps) = n + 1
        /\ \A j \in 1 .. n + 1 : snaps[j] \in [Keys -> Values \cup {None}]
        /\ \A j \in 1 .. n : frames[j] \in Frame
    BY DEF TypeOK, Promise!Contents
  <2>1. ASSUME NEW k \in Keys, NEW entry \in Values \cup {Deleted},
               Write(k, entry), SnapWrite(k, entry)
        PROVE  GhostInv'
    <3>1. pc = "idle" /\ UNCHANGED << pc, fi, todo >>
      BY <2>1 DEF Write
    <3>2. CASE frames # << >>
      <4>1. /\ n \in 1 .. MaxNest
            /\ frames' = [frames EXCEPT ![n] = [@ EXCEPT ![k] = entry]]
            /\ base' = base
        BY <2>1, <3>2, <2>0 DEF Write, TypeOK
      <4>2. frames'[n] = [frames[n] EXCEPT ![k] = entry] /\ frames'[n] \in Frame
        BY <4>1, <2>0 DEF Frame
      <4>3. frames' \in Seq(Frame) /\ Len(frames') = n
        BY <4>1, <4>2 DEF TypeOK
      <4>4. /\ snaps' \in Seq(Promise!Contents) /\ Len(snaps') = n + 1
            /\ snaps'[n + 1] = [snaps[n + 1] EXCEPT ![k] = IF entry = Deleted THEN None ELSE entry]
            /\ \A j \in 1 .. n : snaps'[j] = snaps[j]
        BY <2>1, <2>0 DEF SnapWrite, Promise!Contents
      <4>5. \A j \in 1 .. n - 1 : frames'[j] = frames[j]
        BY <4>1, <2>0
      <4>6. FramesEncodeSnaps'
        <5> SUFFICES ASSUME NEW j \in 1 .. n, NEW l \in Keys
                     PROVE  snaps'[j + 1][l] = Over(frames'[j][l], snaps'[j][l])
          BY <4>3 DEF FramesEncodeSnaps
        <5>1. snaps[j + 1][l] = Over(frames[j][l], snaps[j][l])
          BY DEF FramesEncodeSnaps
        <5>2. CASE j = n
          <6>1. snaps'[n] = snaps[n]
            BY <4>1, <4>4
          <6>2. CASE l = k
            <7>1. frames'[n][k] = entry
              BY <4>2, <2>0, <4>1 DEF Frame
            <7>2. snaps'[n + 1][k] = IF entry = Deleted THEN None ELSE entry
              BY <4>4, <2>0
            <7> QED BY <5>2, <6>2, <7>1, <7>2 DEF Over
          <6>3. CASE l # k
            <7>1. frames'[n][l] = frames[n][l]
              BY <4>2, <6>3, <2>0, <4>1 DEF Frame
            <7>2. snaps'[n + 1][l] = snaps[n + 1][l]
              BY <4>4, <6>3, <2>0
            <7> QED BY <5>1, <5>2, <6>1, <7>1, <7>2
          <6> QED BY <6>2, <6>3
        <5>3. CASE j # n
          BY <5>1, <5>3, <4>4, <4>5, <2>0
        <5> QED BY <5>2, <5>3
      <4>7. TypeOK'
        BY <4>1, <4>3, <3>1 DEF TypeOK
      <4>8. SnapsType' /\ BaseIsOutermost'
        BY <4>1, <4>3, <4>4, <3>1, <2>0 DEF BaseIsOutermost
      <4>9. CommitLoop'
        BY <3>1 DEF CommitLoop
      <4> QED BY <4>6, <4>7, <4>8, <4>9
    <3>3. CASE frames = << >>
      <4>1. n = 0 /\ frames' = frames /\ base' = [base EXCEPT ![k] = Over(entry, base[k])]
        BY <2>1, <3>3 DEF Write
      <4>2. /\ snaps' \in Seq(Promise!Contents) /\ Len(snaps') = 1
            /\ snaps'[1] = [snaps[1] EXCEPT ![k] = IF entry = Deleted THEN None ELSE entry]
        BY <2>1, <2>0, <4>1 DEF SnapWrite, Promise!Contents
      <4>3. Over(entry, base[k]) = IF entry = Deleted THEN None ELSE entry
        BY DEF Over
      <4>4. base = snaps[1] /\ base \in [Keys -> Values \cup {None}]
        BY <3>1 DEF BaseIsOutermost, TypeOK
      <4>5. base' = snaps'[1] /\ base' \in [Keys -> Values \cup {None}]
        BY <4>1, <4>2, <4>3, <4>4
      <4>6. TypeOK'
        BY <4>1, <4>5, <3>1 DEF TypeOK
      <4>7. SnapsType' /\ BaseIsOutermost' /\ FramesEncodeSnaps' /\ CommitLoop'
        BY <4>1, <4>2, <4>5, <3>1 DEF BaseIsOutermost, FramesEncodeSnaps, CommitLoop
      <4> QED BY <4>6, <4>7
    <3> QED BY <3>2, <3>3
  <2>2. CASE Begin /\ snaps' = Append(snaps, snaps[Len(snaps)])
    <3>1. /\ pc = "idle" /\ n < MaxNest /\ frames' = Append(frames, EmptyFrame)
          /\ UNCHANGED << base, pc, fi, todo >>
      BY <2>2 DEF Begin
    <3>2. EmptyFrame \in Frame
      BY DEF EmptyFrame, Frame
    <3>3. /\ frames' \in Seq(Frame) /\ Len(frames') = n + 1
          /\ \A j \in 1 .. n : frames'[j] = frames[j]
          /\ frames'[n + 1] = EmptyFrame
      BY <3>1, <3>2 DEF TypeOK
    <3>4. /\ snaps' \in Seq(Promise!Contents) /\ Len(snaps') = n + 2
          /\ \A j \in 1 .. n + 1 : snaps'[j] = snaps[j]
          /\ snaps'[n + 2] = snaps[n + 1]
      BY <2>2, <2>0 DEF Promise!Contents
    <3>5. FramesEncodeSnaps'
      <4> SUFFICES ASSUME NEW j \in 1 .. n + 1, NEW l \in Keys
                   PROVE  snaps'[j + 1][l] = Over(frames'[j][l], snaps'[j][l])
        BY <3>3 DEF FramesEncodeSnaps
      <4>1. CASE j = n + 1
        <5>1. frames'[j][l] = Absent
          BY <4>1, <3>3 DEF EmptyFrame
        <5>2. snaps'[j + 1] = snaps[n + 1] /\ snaps'[j] = snaps[n + 1]
          BY <4>1, <3>4, <2>0
        <5> QED BY <5>1, <5>2 DEF Over
      <4>2. CASE j \in 1 .. n
        <5>1. j + 1 \in 1 .. n + 1 /\ j \in 1 .. n + 1
          BY <4>2, <2>0
        <5>2. snaps'[j + 1] = snaps[j + 1] /\ snaps'[j] = snaps[j] /\ frames'[j] = frames[j]
          BY <5>1, <4>2, <3>3, <3>4
        <5>3. snaps[j + 1][l] = Over(frames[j][l], snaps[j][l])
          BY <4>2 DEF FramesEncodeSnaps
        <5> QED BY <5>2, <5>3
      <4> QED BY <4>1, <4>2, <2>0
    <3>6. TypeOK' /\ SnapsType'
      BY <3>1, <3>3, <3>4, <2>0 DEF TypeOK
    <3>7. BaseIsOutermost' /\ CommitLoop'
      BY <3>1, <3>4, <2>0 DEF BaseIsOutermost, CommitLoop
    <3> QED BY <3>5, <3>6, <3>7
  <2>3. CASE Rollback /\ snaps' = SubSeq(snaps, 1, Len(snaps) - 1)
    <3>1. /\ pc = "idle" /\ n > 0 /\ frames' = SubSeq(frames, 1, n - 1)
          /\ UNCHANGED << base, pc, fi, todo >>
      BY <2>3, <2>0 DEF Rollback, TypeOK
    <3>2. /\ frames' \in Seq(Frame) /\ Len(frames') = n - 1
          /\ \A j \in 1 .. n - 1 : frames'[j] = frames[j]
      BY <3>1, <2>0, FrontSeq DEF TypeOK
    <3>3. /\ snaps' \in Seq(Promise!Contents) /\ Len(snaps') = n
          /\ \A j \in 1 .. n : snaps'[j] = snaps[j]
      BY <2>3, <3>1, <2>0 DEF Promise!Contents
    <3>4. FramesEncodeSnaps'
      BY <3>2, <3>3, <2>0 DEF FramesEncodeSnaps
    <3>5. TypeOK' /\ SnapsType'
      BY <3>1, <3>2, <3>3, <2>0 DEF TypeOK
    <3>6. BaseIsOutermost' /\ CommitLoop'
      BY <3>1, <3>3, <2>0 DEF BaseIsOutermost, CommitLoop
    <3> QED BY <3>4, <3>5, <3>6
  <2>4. CASE CommitStart /\ UNCHANGED snaps
    <3>1. /\ pc = "idle" /\ n > 0 /\ pc' = "commit" /\ fi' = 1
          /\ todo' = Touched(frames[1]) /\ UNCHANGED << base, frames, snaps >>
      BY <2>4, <2>0 DEF CommitStart, TypeOK
    <3>2. CommitLoop'
      <4> SUFFICES ASSUME NEW k \in Keys
                   PROVE  base[k] = IF k \in Touched(frames[1]) THEN snaps[1][k] ELSE snaps[2][k]
        BY <3>1, <2>0 DEF CommitLoop
      <4>1. base[k] = snaps[1][k]
        BY <3>1 DEF BaseIsOutermost
      <4>2. snaps[2][k] = Over(frames[1][k], snaps[1][k])
        BY <3>1, <2>0 DEF FramesEncodeSnaps
      <4>3. k \notin Touched(frames[1]) => frames[1][k] = Absent
        BY DEF Touched
      <4> QED BY <4>1, <4>2, <4>3 DEF Over
    <3>3. TypeOK' /\ SnapsType'
      BY <3>1, <2>0 DEF TypeOK, Touched
    <3>4. BaseIsOutermost' /\ FramesEncodeSnaps'
      BY <3>1 DEF BaseIsOutermost, FramesEncodeSnaps
    <3> QED BY <3>2, <3>3, <3>4
  <2>5. ASSUME NEW k \in Keys, CommitItem(k), UNCHANGED snaps PROVE GhostInv'
    <3>1. /\ pc = "commit" /\ k \in todo /\ todo' = todo \ {k}
          /\ base' = [base EXCEPT ![k] = Over(frames[fi][k], base[k])]
          /\ UNCHANGED << frames, pc, fi, snaps >>
      BY <2>5 DEF CommitItem
    <3>2. fi \in 1 .. n /\ frames[fi] \in Frame /\ base \in [Keys -> Values \cup {None}]
      BY <3>1, <2>0 DEF CommitLoop, TypeOK
    <3>3. Over(frames[fi][k], base[k]) \in Values \cup {None}
      BY <3>2, OverType DEF Frame
    <3>4. base[k] = snaps[fi][k]
      BY <3>1 DEF CommitLoop
    <3>5. base'[k] = snaps[fi + 1][k]
      BY <3>1, <3>2, <3>4 DEF FramesEncodeSnaps
    <3>6. CommitLoop'
      BY <3>1, <3>2, <3>5 DEF CommitLoop
    <3>7. TypeOK' /\ SnapsType'
      BY <3>1, <3>2, <3>3, <2>0 DEF TypeOK
    <3>8. BaseIsOutermost' /\ FramesEncodeSnaps'
      BY <3>1 DEF BaseIsOutermost, FramesEncodeSnaps
    <3> QED BY <3>6, <3>7, <3>8
  <2>6. CASE CommitNextFrame /\ UNCHANGED snaps
    <3>1. /\ pc = "commit" /\ todo = {} /\ fi < n /\ fi' = fi + 1
          /\ todo' = Touched(frames[fi + 1]) /\ UNCHANGED << base, frames, pc, snaps >>
      BY <2>6 DEF CommitNextFrame
    <3>2. fi \in 1 .. n /\ fi + 1 \in 1 .. n
      BY <3>1, <2>0 DEF CommitLoop
    <3>3. CommitLoop'
      <4> SUFFICES ASSUME NEW k \in Keys
                   PROVE  base[k] = IF k \in Touched(frames[fi + 1])
                                    THEN snaps[fi + 1][k] ELSE snaps[fi + 2][k]
        BY <3>1, <3>2 DEF CommitLoop
      <4>1. base[k] = snaps[fi + 1][k]
        BY <3>1 DEF CommitLoop
      <4>2. snaps[fi + 2][k] = Over(frames[fi + 1][k], snaps[fi + 1][k])
        BY <3>2 DEF FramesEncodeSnaps
      <4>3. k \notin Touched(frames[fi + 1]) => frames[fi + 1][k] = Absent
        BY DEF Touched
      <4> QED BY <4>1, <4>2, <4>3 DEF Over
    <3>4. TypeOK' /\ SnapsType'
      BY <3>1, <3>2, <2>0 DEF TypeOK, Touched
    <3>5. BaseIsOutermost' /\ FramesEncodeSnaps'
      BY <3>1 DEF BaseIsOutermost, FramesEncodeSnaps
    <3> QED BY <3>3, <3>4, <3>5
  <2>7. CASE CommitEnd /\ snaps' = << snaps[Len(snaps)] >>
    <3>1. /\ pc = "commit" /\ todo = {} /\ fi = n /\ frames' = << >> /\ pc' = "idle"
          /\ fi' = 0 /\ UNCHANGED << base, todo >> /\ snaps' = << snaps[n + 1] >>
      BY <2>7, <2>0 DEF CommitEnd
    <3>2. base = snaps[n + 1]
      <4>1. \A k \in Keys : base[k] = snaps[n + 1][k]
        BY <3>1 DEF CommitLoop
      <4> QED BY <4>1, <2>0 DEF TypeOK
    <3>3. TypeOK' /\ SnapsType'
      BY <3>1, <2>0 DEF TypeOK, Promise!Contents
    <3>4. BaseIsOutermost' /\ FramesEncodeSnaps' /\ CommitLoop'
      BY <3>1, <3>2 DEF BaseIsOutermost, FramesEncodeSnaps, CommitLoop
    <3> QED BY <3>3, <3>4
  <2>8. CASE UNCHANGED gvars
    BY <2>8 DEF gvars, vars, TypeOK, FramesEncodeSnaps, BaseIsOutermost, CommitLoop
  <2> QED
    BY <2>1, <2>2, <2>3, <2>4, <2>5, <2>6, <2>7, <2>8 DEF GNext, Set, Delete
<1> QED BY <1>1, <1>2, PTL DEF GSpec

(***************************************************************************)
(* get() walks the stack from the innermost frame outwards and returns the *)
(* first entry it meets; that is what the innermost snapshot holds.        *)
(***************************************************************************)
LEMMA InvariantReads == GhostInv => ReadsTop
<1> USE SentinelAssumption
<1> SUFFICES ASSUME GhostInv, NEW k \in Keys
             PROVE  Get(k) = snaps[Len(snaps)][k]
  BY DEF ReadsTop
<1> DEFINE n == Len(frames)
           H == {i \in 1 .. n : frames[i][k] # Absent}
           At == [j \in 0 .. n |-> snaps[j + 1][k]]
<1>0. n \in Nat /\ Len(snaps) = n + 1
  BY DEF GhostInv, TypeOK, SnapsType
<1>1. base[k] = At[IF pc = "idle" THEN 0 ELSE IF k \in todo THEN fi - 1 ELSE fi]
  BY <1>0 DEF GhostInv, TypeOK, BaseIsOutermost, CommitLoop
<1>2. \A j \in 1 .. n : At[j] = Over(frames[j][k], At[j - 1])
  BY <1>0 DEF GhostInv, FramesEncodeSnaps
<1>3. ASSUME NEW m \in 0 .. n, \A j \in m + 1 .. n : frames[j][k] = Absent
      PROVE  At[n] = At[m]
  <2> DEFINE T == {j \in m .. n : At[j] = At[n]}
  <2>1. T \in SUBSET Nat /\ n \in T
    BY <1>0
  <2>2. PICK t \in T : \A j \in T : t <= j
    <3> HIDE DEF T
    <3> QED BY <2>1, LeastNat
  <2>3. CASE t = m
    <3>1. At[t] = At[n]
      BY <2>2
    <3> HIDE DEF At
    <3> QED BY <2>3, <3>1
  <2>4. CASE t # m
    <3>1. t \in m + 1 .. n /\ t \in 1 .. n /\ t - 1 \in m .. n
      BY <2>4, <1>0
    <3>2. At[t] = At[t - 1]
      <4>1. frames[t][k] = Absent
        BY <3>1, <1>3
      <4> QED BY <3>1, <4>1, <1>2 DEF Over
    <3>3. t - 1 \in T
      BY <3>1, <3>2
    <3>4. t <= t - 1
      <4> HIDE DEF T
      <4> QED BY <2>2, <3>3
    <3>5. t \in Int
      BY <3>1
    <3> QED BY <3>4, <3>5
  <2> QED BY <2>3, <2>4
<1>4. CASE H = {}
  <2>1. Get(k) = base[k]
    BY <1>4 DEF Get, ReadAt, Holder
  <2>2. \A j \in 1 .. n : frames[j][k] = Absent
    BY <1>4
  <2>3. \A m \in 0 .. n : At[n] = At[m]
    BY <2>2, <1>3, <1>0
  <2>4. (IF pc = "idle" THEN 0 ELSE IF k \in todo THEN fi - 1 ELSE fi) \in 0 .. n
    BY <1>0 DEF GhostInv, TypeOK, CommitLoop
  <2>5. base[k] = At[n]
    <3> HIDE DEF At
    <3> QED BY <1>1, <2>3, <2>4
  <2> QED BY <2>1, <2>5, <1>0
<1>5. CASE H # {}
  <2>1. PICK i \in H : \A j \in H : j <= i
    <3>1. H \in SUBSET (1 .. n)
      OBVIOUS
    <3> HIDE DEF H
    <3> QED BY <3>1, <1>0, <1>5, GreatestBelow
  <2>2. Holder(k, n) = i
    <3>1. \A x \in H : (\A j \in H : j <= x) => x = i
      BY <2>1, <1>0
    <3>2. Holder(k, n) = CHOOSE x \in H : \A j \in H : j <= x
      BY <1>5 DEF Holder
    <3> HIDE DEF H
    <3> QED BY <3>1, <3>2, <2>1
  <2>3. i \in 1 .. n /\ frames[i][k] # Absent
    BY <2>1
  <2>4. Get(k) = Over(frames[i][k], None)
    BY <2>2, <2>3, <1>0 DEF Get, ReadAt
  <2>5. At[i] = Get(k)
    BY <2>3, <2>4, <1>2 DEF Over
  <2>6. \A j \in i + 1 .. n : frames[j][k] = Absent
    BY <2>1, <2>3, <1>0
  <2>7. At[n] = At[i]
    BY <2>3, <2>6, <1>3, <1>0
  <2> QED BY <2>5, <2>7, <1>0
<1> QED BY <1>4, <1>5

(***************************************************************************)
(* So get() is exact in every reachable state, commit()'s included.        *)
(***************************************************************************)
THEOREM ReadsAreExact == GSpec => []ReadsTop
BY GhostInvariant, InvariantReads, PTL

(***************************************************************************)
(* commit() merges frame by frame and item by item into the base, and no   *)
(* step of it changes what any key reads as: the innermost snapshot stays. *)
(***************************************************************************)
THEOREM CommitViewKept == GSpec => CommitKeepsView
<1>1. ASSUME ReadsTop, ReadsTop', [GNext]_gvars
      PROVE  [pc = "commit" => \A k \in Keys : Get(k)' = Get(k)]_vars
  <2>1. CASE UNCHANGED gvars
    BY <2>1 DEF gvars
  <2>2. CASE GNext
    <3> SUFFICES ASSUME pc = "commit", NEW k \in Keys PROVE Get(k)' = Get(k)
      OBVIOUS
    <3>1. Get(k) = snaps[Len(snaps)][k] /\ Get(k)' = snaps'[Len(snaps')][k]
      BY <1>1 DEF ReadsTop
    <3>2. snaps' = snaps \/ snaps' = << snaps[Len(snaps)] >>
      BY <2>2 DEF GNext, Set, Delete, Write, Begin, Rollback, CommitStart
    <3>3. snaps'[Len(snaps')] = snaps[Len(snaps)]
      BY <3>2
    <3> QED BY <3>1, <3>3
  <2> QED BY <1>1, <2>1, <2>2
<1> QED BY <1>1, ReadsAreExact, PTL DEF GSpec, CommitKeepsView

(***************************************************************************)
(* A key that reads as a value is one count() looks at: it is committed or *)
(* some frame has an entry for it.                                         *)
(***************************************************************************)
LEMMA HeldKeyCounted ==
  ASSUME TypeOK, NEW k \in Keys, Get(k) \in Values
  PROVE  k \in CountKeys
<1> DEFINE n == Len(frames)
           H == {i \in 1 .. n : frames[i][k] # Absent}
<1>1. CASE H = {}
  <2>1. Get(k) = base[k]
    BY <1>1 DEF Get, ReadAt, Holder
  <2>2. base[k] # None
    BY <2>1, SentinelAssumption
  <2> QED BY <2>2 DEF CountKeys
<1>2. CASE H # {}
  <2>1. PICK i \in 1 .. n : frames[i][k] # Absent
    BY <1>2
  <2>2. k \in Touched(frames[i])
    BY <2>1 DEF Touched
  <2> QED BY <2>2 DEF CountKeys
<1> QED BY <1>1, <1>2

(***************************************************************************)
(* count() of every implementation's overlay counts each key that reads as *)
(* the value, and no other, once.                                          *)
(***************************************************************************)
THEOREM CountsAreExact == GSpec => []CountIsExact
<1>1. ASSUME TypeOK, NEW v \in Values
      PROVE  {k \in CountKeys : Get(k) = v} = {k \in Keys : Get(k) = v}
  <2>1. CountKeys \subseteq Keys
    BY DEF CountKeys, Touched
  <2>2. \A k \in Keys : Get(k) = v => k \in CountKeys
    BY <1>1, HeldKeyCounted
  <2> QED BY <2>1, <2>2
<1>2. GhostInv => CountIsExact
  BY <1>1 DEF GhostInv, CountIsExact, Count
<1> QED BY <1>2, GhostInvariant, PTL

(***************************************************************************)
(* Every operation of the overlay machine is an operation of the promise   *)
(* on the snapshots it encodes, and every step inside commit() but the     *)
(* last leaves the promise untouched.                                      *)
(***************************************************************************)
THEOREM Refinement == GSpec => Promise!Spec
<1> USE SentinelAssumption, NestAssumption
<1>1. GInit => Promise!Init
  BY DEF GInit, Promise!Init
<1>2. GhostInv /\ [GNext]_gvars => [Promise!Next]_snaps
  <2> SUFFICES ASSUME GhostInv, [GNext]_gvars PROVE [Promise!Next]_snaps
    OBVIOUS
  <2>0. /\ Len(frames) \in Nat /\ Len(snaps) = Len(frames) + 1
        /\ (frames # << >> => Len(frames) > 0) /\ snaps \in Seq(Promise!Contents)
    BY EmptySeq DEF GhostInv, TypeOK, SnapsType
  <2>1. ASSUME NEW k \in Keys, NEW v \in Values, Set(k, v), SnapWrite(k, v)
        PROVE  Promise!Next
    <3>1. Promise!Set(k, v)
      BY <2>1 DEF SnapWrite, Promise!Set, Promise!OnTop, Promise!Top
    <3> QED BY <3>1 DEF Promise!Next
  <2>2. ASSUME NEW k \in Keys, Delete(k), SnapWrite(k, Deleted) PROVE Promise!Next
    <3>1. Promise!Delete(k)
      BY <2>2 DEF SnapWrite, Promise!Delete, Promise!OnTop, Promise!Top
    <3> QED BY <3>1 DEF Promise!Next
  <2>3. CASE Begin /\ snaps' = Append(snaps, snaps[Len(snaps)])
    <3>1. Promise!Begin
      BY <2>0, <2>3 DEF Begin, Promise!Begin, Promise!Top
    <3> QED BY <3>1 DEF Promise!Next
  <2>4. CASE Rollback /\ snaps' = SubSeq(snaps, 1, Len(snaps) - 1)
    <3>1. Promise!Rollback
      BY <2>0, <2>4 DEF Rollback, Promise!Rollback
    <3> QED BY <3>1 DEF Promise!Next
  <2>5. CASE CommitEnd /\ snaps' = << snaps[Len(snaps)] >>
    <3>1. Len(snaps) > 1
      BY <2>0, <2>5 DEF CommitEnd, GhostInv, CommitLoop
    <3>2. Promise!Commit
      BY <2>5, <3>1 DEF Promise!Commit, Promise!Top
    <3> QED BY <3>2 DEF Promise!Next
  <2>6. CASE UNCHANGED snaps
    BY <2>6
  <2> QED BY <2>1, <2>2, <2>3, <2>4, <2>5, <2>6 DEF GNext, gvars
<1> QED BY <1>1, <1>2, GhostInvariant, PTL DEF GSpec, Promise!Spec

----------------------------------------------------------------------------

(***************************************************************************)
(* Reindexing one key keeps both value indexes exact: the old value's      *)
(* entry is always there to be decremented, and goes with its last key.    *)
(***************************************************************************)
LEMMA ReindexExact ==
  ASSUME IndexIsExact, base \in [Keys -> Values \cup {None}],
         NEW k \in Keys, NEW new \in Values \cup {None},
         base' = [base EXCEPT ![k] = new], Reindex(k, new)
  PROVE  IndexIsExact'
<1> USE SentinelAssumption
<1> DEFINE old == base[k]
           Held(v) == {l \in Keys : base[l] = v}
           Held2(v) == {l \in Keys : base'[l] = v}
           c == IF old = None THEN vc ELSE CountOut(vc, old)
           s == IF old = None THEN vk ELSE KeysOut(vk, old, k)
           V1 == {v \in Values : Held(v) \ {k} # {}}
<1>1. \A v \in Values : IsFiniteSet(Held(v)) /\ IsFiniteSet(Held(v) \ {k})
  BY KeysAssumption, FS_Subset
<1>2. \A v \in Values : k \in Held(v) <=> v = old
  OBVIOUS
<1>3. \A v \in Values : Held2(v) = IF v = new THEN (Held(v) \ {k}) \cup {k} ELSE Held(v) \ {k}
  OBVIOUS
<1>4. /\ DOMAIN vk = {v \in Values : Held(v) # {}} /\ DOMAIN vc = DOMAIN vk
      /\ \A v \in DOMAIN vk : vk[v] = Held(v) /\ vc[v] = Cardinality(Held(v))
  BY DEF IndexIsExact, ValuesHeld, KeysHolding
<1>5. /\ DOMAIN s = V1 /\ DOMAIN c = V1
      /\ \A v \in V1 : s[v] = Held(v) \ {k} /\ c[v] = Cardinality(Held(v) \ {k})
  <2>1. CASE old = None
    <3>1. \A v \in Values : Held(v) \ {k} = Held(v)
      BY <2>1
    <3>2. V1 = DOMAIN vk
      BY <3>1, <1>4
    <3> HIDE DEF Held, V1
    <3> QED BY <2>1, <3>1, <3>2, <1>4
  <2>2. CASE old # None
    <3>1. old \in Values /\ k \in Held(old) /\ old \in DOMAIN vk
      BY <2>2, <1>4
    <3>2. /\ vk[old] = Held(old) /\ vc[old] = Cardinality(Held(old))
      BY <3>1, <1>4
    <3>3. Cardinality(Held(old) \ {k}) = Cardinality(Held(old)) - 1
      BY <3>1, <1>1, FS_RemoveElement
    <3>4. Cardinality(Held(old)) \in Nat /\ Cardinality(Held(old) \ {k}) \in Nat
      BY <3>1, <1>1, FS_CardinalityType
    <3>5. Held(old) \ {k} = {} <=> Cardinality(Held(old) \ {k}) = 0
      BY <3>1, <1>1, FS_EmptySet
    <3>6. vc[old] = 1 <=> Held(old) \ {k} = {}
      <4> HIDE DEF Held
      <4> QED BY <3>2, <3>3, <3>4, <3>5
    <3>7. vk[old] \subseteq {k} <=> Held(old) \ {k} = {}
      BY <3>2
    <3>8. \A v \in Values \ {old} : Held(v) \ {k} = Held(v)
      BY <1>2
    <3>9. CASE Held(old) \ {k} = {}
      <4>1. V1 = DOMAIN vk \ {old}
        BY <3>8, <3>9, <1>4
      <4>2. s = Drop(vk, old) /\ c = Drop(vc, old)
        BY <2>2, <3>6, <3>7, <3>9 DEF CountOut, KeysOut
      <4> HIDE DEF Held, V1, s, c
      <4> QED BY <4>1, <4>2, <3>8, <1>4 DEF Drop
    <3>10. CASE Held(old) \ {k} # {}
      <4>1. V1 = DOMAIN vk
        BY <3>1, <3>8, <3>10, <1>4
      <4>2. s = Put(vk, old, Held(old) \ {k}) /\ c = Put(vc, old, vc[old] - 1)
        BY <2>2, <3>2, <3>6, <3>7, <3>10 DEF CountOut, KeysOut
      <4>3. vc[old] - 1 = Cardinality(Held(old) \ {k})
        BY <3>2, <3>3
      <4>4. /\ s[old] = Held(old) \ {k} /\ c[old] = Cardinality(Held(old) \ {k})
        BY <4>2, <4>3 DEF Put
      <4>5. \A v \in V1 \ {old} : s[v] = vk[v] /\ c[v] = vc[v]
        <5> HIDE DEF V1, s, c
        <5> QED BY <4>1, <4>2, <3>1, <1>4 DEF Put
      <4>6. DOMAIN s = V1 /\ DOMAIN c = V1
        <5> HIDE DEF V1, s, c
        <5> QED BY <4>1, <4>2, <3>1, <1>4 DEF Put
      <4>7. \A v \in V1 : v \in Values
        OBVIOUS
      <4> HIDE DEF Held, V1, s, c
      <4> QED BY <4>1, <4>4, <4>5, <4>6, <4>7, <3>8, <1>4
    <3> QED BY <3>9, <3>10
  <2> QED BY <2>1, <2>2
<1>6. /\ DOMAIN vk' = {v \in Values : Held2(v) # {}} /\ DOMAIN vc' = DOMAIN vk'
      /\ \A v \in DOMAIN vk' : vk'[v] = Held2(v) /\ vc'[v] = Cardinality(Held2(v))
  <2>1. CASE new = None
    <3>1. vc' = c /\ vk' = s
      BY <2>1 DEF Reindex
    <3>2. \A v \in Values : Held2(v) = Held(v) \ {k}
      BY <2>1, <1>3
    <3>3. {v \in Values : Held2(v) # {}} = V1
      BY <3>2
    <3> HIDE DEF Held, Held2, V1, s, c
    <3>4. \A v \in V1 : v \in Values
      BY DEF V1
    <3> QED BY <3>1, <3>2, <3>3, <3>4, <1>5
  <2>2. CASE new # None
    <3>1. new \in Values /\ vc' = CountIn(c, new) /\ vk' = KeysIn(s, new, k)
      BY <2>2 DEF Reindex
    <3>2. \A v \in Values \ {new} : Held2(v) = Held(v) \ {k}
      BY <1>3
    <3>3. Held2(new) = (Held(new) \ {k}) \cup {k}
      BY <1>3, <3>1
    <3>4. {v \in Values : Held2(v) # {}} = V1 \cup {new}
      BY <3>1, <3>2, <3>3
    <3>5. Cardinality(Held2(new)) = Cardinality(Held(new) \ {k}) + 1
      BY <3>1, <3>3, <1>1, FS_AddElement
    <3>6. new \notin V1 => Held(new) \ {k} = {} /\ Held2(new) = {k}
      BY <3>1, <3>3
    <3>7. Cardinality({k}) = 1
      BY FS_Singleton
    <3>8. \A v \in V1 : v \in Values
      OBVIOUS
    <3> HIDE DEF Held, Held2, V1, s, c
    <3>9. /\ DOMAIN vk' = V1 \cup {new} /\ DOMAIN vc' = V1 \cup {new}
          /\ vk'[new] = Held2(new)
          /\ \A v \in V1 \ {new} : vk'[v] = s[v] /\ vc'[v] = c[v]
      BY <3>1, <3>3, <3>6, <1>5 DEF CountIn, KeysIn, Put
    <3>10. vc'[new] = Cardinality(Held2(new))
      BY <3>1, <3>5, <3>6, <3>7, <1>5 DEF CountIn, Put
    <3> QED BY <3>2, <3>4, <3>8, <3>9, <3>10, <1>5
  <2> QED BY <2>1, <2>2
<1> QED BY <1>6 DEF IndexIsExact, ValuesHeld, KeysHolding

\* What the index needs to know of the machine: commit() is always at an item
\* its frame really has.
InLoop == pc = "commit" => fi \in 1 .. Len(frames) /\ todo \subseteq Touched(frames[fi])

IndexInv == TypeOK /\ InLoop /\ IndexIsExact

(***************************************************************************)
(* Whatever is written, deleted, rolled back and committed, the value      *)
(* index of the loopspace arms is exact: no operation runs into a missing  *)
(* entry, and no entry outlives its last key.                              *)
(***************************************************************************)
THEOREM IndexInvariant == ISpec => []IndexInv
<1> USE SentinelAssumption, NestAssumption
<1>1. IInit => IndexInv
  BY DEF IInit, Init, IndexInv, TypeOK, Frame, InLoop, IndexIsExact, ValuesHeld, KeysHolding
<1>2. IndexInv /\ [INext]_ivars => IndexInv'
  <2> SUFFICES ASSUME IndexInv, [INext]_ivars PROVE IndexInv'
    OBVIOUS
  <2>0. UNCHANGED << base, vc, vk >> => IndexIsExact'
    BY DEF IndexInv, IndexIsExact, ValuesHeld, KeysHolding
  <2> USE DEF IndexInv, TypeOK
  <2>1. ASSUME NEW k \in Keys, NEW entry \in Values \cup {Deleted}, IWrite(k, entry)
        PROVE  IndexInv'
    <3>0. Write(k, entry) /\ pc = "idle"
      BY <2>1 DEF IWrite, Write
    <3>1. CASE frames # << >>
      <4>1. /\ Len(frames) \in 1 .. Len(frames) /\ UNCHANGED << base, pc, fi, todo, vc, vk >>
            /\ frames' = [frames EXCEPT ![Len(frames)] = [@ EXCEPT ![k] = entry]]
        BY <2>1, <3>0, <3>1, EmptySeq DEF Write, IWrite
      <4>2. [frames[Len(frames)] EXCEPT ![k] = entry] \in Frame
        BY <4>1 DEF Frame
      <4>3. TypeOK' /\ InLoop'
        BY <3>0, <4>1, <4>2, ExceptSeq DEF InLoop
      <4>4. IndexIsExact'
        BY <4>1, <2>0
      <4> QED BY <4>3, <4>4
    <3>2. CASE frames = << >>
      <4>1. Over(entry, base[k]) \in Values \cup {None}
        BY OverType
      <4>2. TypeOK' /\ InLoop'
        BY <3>0, <3>2, <4>1 DEF Write, InLoop
      <4>3. IndexIsExact'
        BY <2>1, <3>0, <3>2, <4>1, ReindexExact DEF Write, IWrite
      <4> QED BY <4>2, <4>3
    <3> QED BY <3>1, <3>2
  <2>2. CASE Begin /\ UNCHANGED << vc, vk >>
    <3>1. EmptyFrame \in Frame
      BY DEF EmptyFrame, Frame
    <3>2. TypeOK' /\ InLoop'
      BY <2>2, <3>1 DEF Begin, InLoop
    <3> QED BY <2>0, <2>2, <3>2 DEF Begin
  <2>3. CASE Rollback /\ UNCHANGED << vc, vk >>
    <3>1. TypeOK' /\ InLoop'
      BY <2>3, FrontSeq DEF Rollback, InLoop
    <3> QED BY <2>0, <2>3, <3>1 DEF Rollback
  <2>4. CASE (CommitStart \/ CommitNextFrame) /\ UNCHANGED << vc, vk >>
    <3>1. TypeOK' /\ UNCHANGED base
      BY <2>4 DEF CommitStart, CommitNextFrame, Touched
    <3>2. InLoop'
      BY <2>4, EmptySeq DEF CommitStart, CommitNextFrame, InLoop
    <3> QED BY <2>0, <2>4, <3>1, <3>2
  <2>5. ASSUME NEW k \in Keys, ICommitItem(k) PROVE IndexInv'
    <3>1. frames[fi][k] \in Values \cup {Deleted, Absent}
      BY <2>5 DEF ICommitItem, CommitItem, InLoop, Frame
    <3>2. Over(frames[fi][k], base[k]) \in Values \cup {None}
      BY <3>1, OverType
    <3>3. TypeOK' /\ InLoop'
      BY <2>5, <3>2 DEF ICommitItem, CommitItem, InLoop
    <3>4. IndexIsExact'
      BY <2>5, <3>2, ReindexExact DEF ICommitItem, CommitItem
    <3> QED BY <3>3, <3>4
  <2>6. CASE CommitEnd /\ UNCHANGED << vc, vk >>
    <3>1. TypeOK' /\ InLoop' /\ UNCHANGED base
      BY <2>6 DEF CommitEnd, InLoop
    <3> QED BY <2>0, <2>6, <3>1
  <2>7. CASE UNCHANGED ivars
    BY <2>0, <2>7 DEF ivars, vars, InLoop
  <2> QED BY <2>1, <2>2, <2>3, <2>4, <2>5, <2>6, <2>7 DEF INext
<1> QED BY <1>1, <1>2, PTL DEF ISpec

THEOREM IndexAlwaysExact == ISpec => []IndexIsExact
BY IndexInvariant, PTL DEF IndexInv

(***************************************************************************)
(* The indexes hold entries of values only, a positive count or a set of   *)
(* keys that is not empty: deleted with its last key, an entry is gone.    *)
(***************************************************************************)
THEOREM IndexTyped == ISpec => []ITypeOK
<1>1. IndexInv => ITypeOK
  <2> SUFFICES ASSUME IndexInv PROVE ITypeOK
    OBVIOUS
  <2>1. \A v \in ValuesHeld : KeysHolding(v) # {} /\ KeysHolding(v) \subseteq Keys
    BY DEF ValuesHeld, KeysHolding
  <2>2. \A v \in ValuesHeld : IsFiniteSet(KeysHolding(v))
    BY <2>1, KeysAssumption, FS_Subset
  <2>3. \A v \in ValuesHeld : Cardinality(KeysHolding(v)) \in Nat \ {0}
    BY <2>1, <2>2, FS_CardinalityType, FS_EmptySet
  <2>4. ValuesHeld \subseteq Values
    BY DEF ValuesHeld
  <2>5. TypeOK /\ IndexIsExact
    BY DEF IndexInv
  <2>6. DOMAIN vc \subseteq Values /\ \A v \in DOMAIN vc : vc[v] \in Nat \ {0}
    <3> SUFFICES ASSUME NEW v \in DOMAIN vc PROVE vc[v] \in Nat \ {0}
      BY <2>4, <2>5 DEF IndexIsExact
    <3>1. v \in ValuesHeld /\ vc[v] = Cardinality(KeysHolding(v))
      BY <2>5 DEF IndexIsExact
    <3> QED BY <3>1, <2>3
  <2>7. DOMAIN vk \subseteq Values /\ \A v \in DOMAIN vk : vk[v] \in (SUBSET Keys) \ {{}}
    <3> SUFFICES ASSUME NEW v \in DOMAIN vk PROVE vk[v] \in (SUBSET Keys) \ {{}}
      BY <2>4, <2>5 DEF IndexIsExact
    <3>1. v \in ValuesHeld /\ vk[v] = KeysHolding(v)
      BY <2>5 DEF IndexIsExact
    <3>2. KeysHolding(v) # {} /\ KeysHolding(v) \in SUBSET Keys
      BY <3>1, <2>1
    <3> QED BY <3>1, <3>2
  <2> QED BY <2>5, <2>6, <2>7 DEF ITypeOK
<1> QED BY <1>1, IndexInvariant, PTL
=============================================================================
