---------------------------- MODULE ProofLemmas ----------------------------
(***************************************************************************)
(* Facts about naturals and sequences the proofs of several components     *)
(* need, in a form the provers can use.  The library's induction theorems  *)
(* take an operator parameter; its theorem on minimal elements of a        *)
(* well-founded set does not, and serves instead.                          *)
(***************************************************************************)
EXTENDS Integers, Sequences, SequenceTheorems, WellFoundedInduction, TLAPS

(***************************************************************************)
(* Every non-empty set of naturals has a least element.  It stands in for  *)
(* induction wherever the code walks a stack or a list element by element. *)
(***************************************************************************)
LEMMA LeastNat ==
  ASSUME NEW T \in SUBSET Nat, T # {}
  PROVE  \E m \in T : \A k \in T : m <= k
<1> DEFINE R == {p \in Nat \X Nat : p[1] < p[2]}
<1>1. IsWellFoundedOn(R, Nat)
  BY NatLessThanWellFounded DEF OpToRel
<1>2. PICK m \in T : \A k \in T : ~ (<< k, m >> \in R)
  BY <1>1, WFMin
<1>3. \A k \in T : m <= k
  <2> TAKE k \in T
  <2>1. k \in Nat /\ m \in Nat
    OBVIOUS
  <2>2. CASE k < m
    <3>1. << k, m >> \in R
      BY <2>1, <2>2
    <3> QED BY <3>1, <1>2
  <2>3. CASE ~ (k < m)
    BY <2>1, <2>3
  <2> QED BY <2>2, <2>3
<1> QED BY <1>3

(***************************************************************************)
(* A non-empty set of naturals below a bound has a greatest element: what  *)
(* the reversed walk over the transaction stack stops at.                  *)
(***************************************************************************)
LEMMA GreatestBelow ==
  ASSUME NEW n \in Nat, NEW H \in SUBSET (1 .. n), H # {}
  PROVE  \E m \in H : \A j \in H : j <= m
<1> DEFINE T == {i \in 0 .. n : n - i \in H}
<1>1. T \in SUBSET Nat
  OBVIOUS
<1>2. T # {}
  <2>1. PICK h \in H : TRUE
    OBVIOUS
  <2>2. h \in 1 .. n
    OBVIOUS
  <2>3. n - h \in 0 .. n /\ n - (n - h) = h
    BY <2>2
  <2>4. n - h \in T
    BY <2>1, <2>3
  <2> QED BY <2>4
<1>3. PICK t \in T : \A k \in T : t <= k
  <2> HIDE DEF T
  <2> QED BY <1>1, <1>2, LeastNat
<1>4. n - t \in H
  BY <1>3
<1>5. \A j \in H : j <= n - t
  <2> TAKE j \in H
  <2>1. j \in 1 .. n
    OBVIOUS
  <2>2. n - j \in 0 .. n /\ n - (n - j) = j
    BY <2>1
  <2>3. n - j \in T
    BY <2>2
  <2>4. t <= n - j /\ t \in 0 .. n
    BY <2>3, <1>3
  <2> QED BY <2>1, <2>4
<1> QED BY <1>4, <1>5

(***************************************************************************)
(* A stack without its top element: what pop() leaves.                     *)
(***************************************************************************)
LEMMA FrontSeq ==
  ASSUME NEW S, NEW s \in Seq(S), s # << >>
  PROVE  /\ Len(s) \in Nat \ {0}
         /\ SubSeq(s, 1, Len(s) - 1) \in Seq(S)
         /\ Len(SubSeq(s, 1, Len(s) - 1)) = Len(s) - 1
         /\ \A j \in 1 .. Len(s) - 1 : SubSeq(s, 1, Len(s) - 1)[j] = s[j]
<1> DEFINE n == Len(s)
<1>1. n \in Nat \ {0} /\ n - 1 \in Int
  BY EmptySeq
<1>2. \A j \in 1 .. n - 1 : s[j] \in S
  BY <1>1
<1>3. /\ SubSeq(s, 1, n - 1) \in Seq(S)
      /\ Len(SubSeq(s, 1, n - 1)) = IF 1 <= n - 1 THEN (n - 1) - 1 + 1 ELSE 0
  <2> HIDE DEF n
  <2> QED BY <1>1, <1>2, SubSeqProperties
<1>4. \A j \in 1 .. n - 1 : SubSeq(s, 1, n - 1)[j] = s[j]
  <2> HIDE DEF n
  <2>1. \A j \in 1 .. (n - 1) - 1 + 1 : SubSeq(s, 1, n - 1)[j] = s[1 + j - 1]
    BY <1>1, <1>2, SubSeqProperties
  <2> QED BY <1>1, <2>1
<1>5. Len(SubSeq(s, 1, n - 1)) = n - 1
  <2> HIDE DEF n
  <2>1. (IF 1 <= n - 1 THEN (n - 1) - 1 + 1 ELSE 0) = n - 1
    BY <1>1
  <2> QED BY <1>3, <2>1
<1> QED BY <1>1, <1>3, <1>4, <1>5

(***************************************************************************)
(* The first n elements of a sequence, and a sequence with one more.       *)
(***************************************************************************)
LEMMA PrefixSeq ==
  ASSUME NEW S, NEW s \in Seq(S), NEW n \in 0 .. Len(s)
  PROVE  /\ SubSeq(s, 1, n) \in Seq(S)
         /\ Len(SubSeq(s, 1, n)) = n
         /\ \A j \in 1 .. n : SubSeq(s, 1, n)[j] = s[j]
<1>1. n \in Int /\ \A j \in 1 .. n : s[j] \in S
  OBVIOUS
<1>2. /\ SubSeq(s, 1, n) \in Seq(S)
      /\ Len(SubSeq(s, 1, n)) = IF 1 <= n THEN n - 1 + 1 ELSE 0
      /\ \A j \in 1 .. n - 1 + 1 : SubSeq(s, 1, n)[j] = s[1 + j - 1]
  BY <1>1, SubSeqProperties
<1>3. \A j \in 1 .. n : SubSeq(s, 1, n)[j] = s[j]
  BY <1>1, <1>2
<1> QED BY <1>1, <1>2, <1>3

LEMMA AppendSeq ==
  ASSUME NEW S, NEW s \in Seq(S), NEW e \in S
  PROVE  /\ Append(s, e) \in Seq(S)
         /\ Len(Append(s, e)) = Len(s) + 1
         /\ \A j \in 1 .. Len(s) : Append(s, e)[j] = s[j]
         /\ Append(s, e)[Len(s) + 1] = e
OBVIOUS
=============================================================================
