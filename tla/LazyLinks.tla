----------------------------- MODULE LazyLinks -----------------------------
(***************************************************************************)
(* The bookkeeping of armT and of the v1 armA, with evaluation left out:   *)
(* a formula has links only from what its last computation mentioned, and  *)
(* an edit follows the links through cells that have a result, no others.  *)
(*                                                                         *)
(* What is stored appears as a record of functions on the cells: used[x]   *)
(* are the cells a computation of the formula at x evaluates, which ends   *)
(* at the first error and takes one branch of an IF; seen[x] the members   *)
(* of a COUNT, of which it asks only whether they are set; reach[x] is x   *)
(* and all that is evaluated on the way; answer[x] what a full             *)
(* recomputation answers.                                                  *)
(***************************************************************************)
EXTENDS TLAPS

CONSTANTS Ids, NoValue

VARIABLES contents, cache, links     \* links: << mentioned, formula >> pairs

lvars == << contents, cache, links >>

\* reach[x] is the least set with x and all that its members evaluate.
Closed(S, used) == \A z \in S : used[z] \subseteq S
IsContents(c) ==
    /\ c.used \in [Ids -> SUBSET Ids] /\ c.seen \in [Ids -> SUBSET Ids]
    /\ c.reach \in [Ids -> SUBSET Ids]
    /\ \A x \in Ids :
          /\ x \in c.reach[x] /\ Closed(c.reach[x], c.used)
          /\ \A S \in SUBSET c.reach[x] : x \in S /\ Closed(S, c.used) => S = c.reach[x]

\* What an answer depends on.
Below(c) == [x \in Ids |-> c.reach[x] \cup UNION {c.seen[z] : z \in c.reach[x]}]

Results == INSTANCE Memo WITH below <- Below(contents), answer <- contents.answer

Kept == {x \in Ids : cache[x] # NoValue}

\* A number, a text, an empty cell, or a formula that reads no cell.
ReadsNothing(x) == contents.used[x] = {} /\ contents.seen[x] = {}

Read(S) == UNION {(contents.used[x] \cup contents.seen[x]) \X {x} : x \in S}

----------------------------------------------------------------------------
\* The operations

\* From contents c to contents d nothing changes for a formula that depends
\* on no cell of T.
SameOutside(T, c, d) ==
    \A x \in Ids \ Results!Touching(Below(c), T) :
        c.used[x] = d.used[x] /\ c.seen[x] = d.seen[x] /\ c.answer[x] = d.answer[x]

\* What is stored in the cells T changes.
Stored(T) == IsContents(contents') /\ SameOutside(T, contents, contents')

\* The walk from T comes to R, and along no live link to anything else; the
\* results of R are given up, and no link to another cell.
Walk(T, R) ==
    /\ T \subseteq R
    /\ \A l \in links : l[1] \in R /\ l[2] \in Kept => l[2] \in R
    /\ Results!Dropped(R)
    /\ {l \in links : l[2] \notin R} \subseteq links' /\ links' \subseteq Ids \X Ids

Edit(T, R) == Stored(T) /\ Walk(T, R)

\* A get() of a may leave the results c and the links l: what it computed has
\* the results of what it evaluated, and is linked from all that it read.
Leaves(a, c, l) ==
    LET filled == {x \in Ids : c[x] # cache[x]}
    IN /\ filled \subseteq {x \in Below(contents)[a] : cache[x] = NoValue}
       /\ c = [x \in Ids |-> IF x \in filled THEN contents.answer[x] ELSE cache[x]]
       /\ \A x \in filled : \A y \in contents.used[x] : c[y] # NoValue \/ ReadsNothing(y)
       /\ links \cup Read(filled) \subseteq l /\ l \subseteq Ids \X Ids

Get(a) == Leaves(a, cache', links') /\ UNCHANGED contents

Init == IsContents(contents) /\ cache = [x \in Ids |-> NoValue] /\ links = {}

Next == (\E a \in Ids : Get(a)) \/ (\E T, R \in SUBSET Ids : Edit(T, R))

Spec == Init /\ [][Next]_lvars
----------------------------------------------------------------------------
\* The walk goes far enough: every result is linked from all that it was
\* computed from, and what it evaluated has a result too or reads nothing.
LinksSuffice ==
    /\ Read(Kept) \subseteq links
    /\ \A x \in Kept : \A y \in contents.used[x] : y \in Kept \/ ReadsNothing(y)

----------------------------------------------------------------------------
(*                              What is below                              *)

\* A cell is below itself, and what is below a cell it reaches is below it.
LEMMA BelowTransitive ==
  ASSUME NEW c, IsContents(c), NEW x \in Ids, NEW y \in Below(c)[x]
  PROVE  /\ x \in c.reach[x] /\ c.reach[x] \subseteq Below(c)[x] /\ Below(c)[x] \subseteq Ids
         /\ y \in c.reach[x] => c.reach[y] \subseteq c.reach[x] /\ Below(c)[y] \subseteq Below(c)[x]
<1>1. /\ x \in c.reach[x] /\ c.reach[x] \subseteq Below(c)[x] /\ Below(c)[x] \subseteq Ids
  BY DEF IsContents, Below
<1>2. ASSUME y \in c.reach[x]
      PROVE  c.reach[y] \subseteq c.reach[x]
  <2>1. y \in Ids /\ y \in c.reach[y] /\ Closed(c.reach[y], c.used)
    BY <1>1, <1>2 DEF IsContents
  <2> DEFINE S == c.reach[y] \cap c.reach[x]
  <2>2. Closed(S, c.used) /\ y \in S /\ S \in SUBSET c.reach[y]
    BY <1>2, <2>1 DEF Closed, IsContents
  <2>3. S = c.reach[y]
    BY <2>1, <2>2 DEF IsContents
  <2> QED BY <2>3
<1>3. ASSUME y \in c.reach[x]
      PROVE  Below(c)[y] \subseteq Below(c)[x]
  BY <1>1, <1>2, <1>3 DEF Below
<1> QED BY <1>1, <1>2, <1>3

\* What a cell reaches is in every closed set that has the cell.
LEMMA ReachLeast ==
  ASSUME NEW c, IsContents(c), NEW x \in Ids, NEW S, x \in S, Closed(S, c.used)
  PROVE  c.reach[x] \subseteq S
<1> DEFINE M == S \cap c.reach[x]
<1>1. Closed(M, c.used) /\ x \in M /\ M \in SUBSET c.reach[x]
  BY DEF Closed, IsContents
<1>2. M = c.reach[x]
  BY <1>1 DEF IsContents
<1> QED BY <1>2

\* A cell that depends on no edited cell depends on the same cells as before.
LEMMA SameBelow ==
  ASSUME IsContents(contents), NEW T, Stored(T),
         NEW x \in Ids \ Results!Touching(Below(contents), T)
  PROVE  Below(contents')[x] = Below(contents)[x]
<1> DEFINE c == contents  d == contents'
<1>0. IsContents(c) /\ IsContents(d)
  BY DEF Stored
<1>1. \A z \in c.reach[x] : z \in Ids /\ Below(c)[z] \subseteq Below(c)[x]
  <2>1. x \in Ids
    OBVIOUS
  <2>2. \A z \in c.reach[x] : z \in Ids /\ z \in Below(c)[x]
    BY <1>0, <2>1 DEF IsContents, Below
  <2> QED BY <1>0, <2>1, <2>2, BelowTransitive
<1>2. \A z \in c.reach[x] : z \in Ids \ Results!Touching(Below(c), T)
  BY <1>1 DEF Results!Touching
<1>3. \A z \in c.reach[x] : c.used[z] = d.used[z] /\ c.seen[z] = d.seen[z]
  BY <1>2 DEF Stored, SameOutside
<1>4. x \in c.reach[x] /\ x \in d.reach[x] /\ Closed(c.reach[x], c.used) /\ Closed(d.reach[x], d.used)
  BY <1>0 DEF IsContents
<1>5. d.reach[x] \subseteq c.reach[x]
  <2>1. Closed(c.reach[x], d.used)
    BY <1>3, <1>4 DEF Closed
  <2> QED BY <1>0, <1>4, <2>1, ReachLeast
<1>6. c.reach[x] \subseteq d.reach[x]
  <2>1. Closed(d.reach[x], c.used)
    BY <1>3, <1>4, <1>5 DEF Closed
  <2> QED BY <1>0, <1>4, <2>1, ReachLeast
<1>7. c.reach[x] = d.reach[x]
  BY <1>5, <1>6
<1> QED BY <1>3, <1>7 DEF Below

----------------------------------------------------------------------------
(*                                The walk                                 *)

LazyInv == IsContents(contents) /\ links \subseteq Ids \X Ids /\ LinksSuffice

\* The walk comes to every result that depends on an edited cell, although it
\* stops at cells without one.
LEMMA WalkSuffices ==
  ASSUME LazyInv, NEW T, NEW R, Walk(T, R), NEW x \in Kept \ R
  PROVE  Below(contents)[x] \cap R = {}
<1> DEFINE c == contents
           Q == {z \in Ids \ R : z \in Kept \/ ReadsNothing(z)}
<1>1. ASSUME NEW z \in Q
      PROVE  c.used[z] \subseteq Q /\ c.seen[z] \cap R = {}
  <2>1. CASE ReadsNothing(z)
    BY <2>1 DEF ReadsNothing
  <2>2. CASE z \in Kept
    <3>1. \A y \in c.used[z] \cup c.seen[z] : << y, z >> \in links
      BY <2>2 DEF LazyInv, LinksSuffice, Read
    <3>2. \A y \in c.used[z] \cup c.seen[z] : y \notin R
      BY <2>2, <3>1 DEF Walk
    <3>3. \A y \in c.used[z] : y \in Ids /\ (y \in Kept \/ ReadsNothing(y))
      BY <2>2 DEF LazyInv, LinksSuffice, IsContents, Kept
    <3> QED BY <3>2, <3>3
  <2> QED BY <2>1, <2>2
<1>2. x \in Ids /\ x \in Q
  BY DEF Kept
<1>3. Closed(Q, c.used)
  BY <1>1 DEF Closed
<1>4. c.reach[x] \subseteq Q
  BY <1>2, <1>3, ReachLeast DEF LazyInv
<1> QED BY <1>1, <1>2, <1>4 DEF Below

LEMMA EditKeepsInv ==
  ASSUME LazyInv, NEW T \in SUBSET Ids, NEW R \in SUBSET Ids, Edit(T, R)
  PROVE  LazyInv'
<1> DEFINE c == contents  d == contents'
<1>1. IsContents(d) /\ links' \subseteq Ids \X Ids
  BY DEF Edit, Stored, Walk
<1>2. Kept' = Kept \ R
  BY DEF Edit, Walk, Results!Dropped, Kept
<1>3. ASSUME NEW x \in Kept'
      PROVE  /\ \A y \in Below(c)[x] : y \in Ids \ Results!Touching(Below(c), T) \/ y \notin c.reach[x]
             /\ c.used[x] = d.used[x] /\ c.seen[x] = d.seen[x]
  <2>1. x \in Ids /\ x \in Kept \ R
    BY <1>2 DEF Kept
  <2>2. Below(c)[x] \cap T = {}
    BY <2>1, WalkSuffices DEF Edit, Walk
  <2>3. \A y \in c.reach[x] : y \in Ids /\ Below(c)[y] \subseteq Below(c)[x]
    BY <2>1, BelowTransitive DEF LazyInv, IsContents, Below
  <2>4. \A y \in c.reach[x] : y \in Ids \ Results!Touching(Below(c), T)
    BY <2>2, <2>3 DEF Results!Touching
  <2>5. x \in c.reach[x]
    BY <2>1 DEF LazyInv, IsContents
  <2> QED BY <2>4, <2>5 DEF Edit, Stored, SameOutside
<1>4. ASSUME NEW x \in Kept', NEW y \in d.used[x] \cup d.seen[x]
      PROVE  << y, x >> \in links'
  <2>1. << y, x >> \in links /\ x \notin R
    BY <1>2, <1>3, <1>4 DEF LazyInv, LinksSuffice, Read
  <2> QED BY <2>1 DEF Edit, Walk
<1>5. ASSUME NEW x \in Kept', NEW y \in d.used[x]
      PROVE  y \in Kept' \/ ReadsNothing(y)'
  <2>1. y \in c.used[x] /\ x \in Kept \ R /\ x \in Ids
    BY <1>2, <1>3, <1>5 DEF Kept
  <2>2. CASE y \in Kept
    <3>1. << y, x >> \in links
      BY <2>1 DEF LazyInv, LinksSuffice, Read
    <3>2. y \notin R
      BY <2>1, <3>1 DEF Edit, Walk
    <3> QED BY <1>2, <2>2, <3>2
  <2>3. CASE ReadsNothing(y)
    <3>1. y \in c.reach[x] /\ y \in Below(c)[x]
      BY <2>1 DEF LazyInv, IsContents, Closed, Below
    <3>2. c.used[y] = d.used[y] /\ c.seen[y] = d.seen[y]
      BY <1>3, <3>1 DEF Edit, Stored, SameOutside
    <3> QED BY <2>3, <3>2 DEF ReadsNothing
  <2> QED BY <2>1, <2>2, <2>3 DEF LazyInv, LinksSuffice
<1> QED BY <1>1, <1>4, <1>5 DEF LazyInv, LinksSuffice, Read

LEMMA GetKeepsInv ==
  ASSUME LazyInv, NEW a \in Ids, Get(a)
  PROVE  LazyInv'
<1> DEFINE filled == {x \in Ids : cache'[x] # cache[x]}
<1>1. contents' = contents /\ links \cup Read(filled) \subseteq links' /\ links' \subseteq Ids \X Ids
  BY DEF Get, Leaves
<1>2. \A x \in filled : cache[x] = NoValue /\ cache'[x] # NoValue
  BY DEF Get, Leaves
<1>3. Kept' = Kept \cup filled
  BY <1>2 DEF Kept
<1>4. \A x \in filled : \A y \in contents.used[x] : y \in Kept' \/ ReadsNothing(y)
  <2>1. \A x \in filled : \A y \in contents.used[x] : cache'[y] # NoValue \/ ReadsNothing(y)
    BY DEF Get, Leaves
  <2>2. \A x \in filled : \A y \in contents.used[x] : y \in Ids
    BY DEF LazyInv, IsContents
  <2> QED BY <2>1, <2>2 DEF Kept
<1>5. Read(Kept \cup filled) = Read(Kept) \cup Read(filled)
  BY DEF Read
<1> QED BY <1>1, <1>3, <1>4, <1>5 DEF LazyInv, LinksSuffice, Read, ReadsNothing

LEMMA LazyInvInit == Init => LazyInv
BY DEF Init, LazyInv, LinksSuffice, Read, Kept

LEMMA LazyInvStep ==
  ASSUME LazyInv, [Next]_lvars
  PROVE  LazyInv'
<1>1. CASE UNCHANGED lvars
  BY <1>1 DEF lvars, LazyInv, LinksSuffice, Read, Kept, ReadsNothing
<1> QED BY <1>1, EditKeepsInv, GetKeepsInv DEF Next

(***************************************************************************)
(* Every result armT or armA keeps is linked from all that it was computed *)
(* from, and what it evaluated has a result too, so that no edit can get   *)
(* to it but through links: whatever is edited and read, in any order.     *)
(***************************************************************************)
THEOREM LinksAlwaysSuffice == Spec => []LinksSuffice
<1>1. LazyInv => LinksSuffice
  BY DEF LazyInv
<1> QED BY LazyInvInit, LazyInvStep, <1>1, PTL DEF Spec

----------------------------------------------------------------------------
(*                            Implementing Memo                            *)

LEMMA EditIsSafe ==
  ASSUME LazyInv, NEW T \in SUBSET Ids, NEW R \in SUBSET Ids, Edit(T, R)
  PROVE  Results!SafeEdit(T)
<1> DEFINE c == contents  d == contents'
           Touched == Results!Touching(Below(c), T)
<1>1. IsContents(c) /\ IsContents(d)
  BY DEF LazyInv, Edit, Stored
<1>2. Results!IsBelow(Below(d))
  BY <1>1 DEF Results!IsBelow, Below, IsContents
<1>3. \A x \in Ids \ Touched : Below(d)[x] = Below(c)[x] /\ d.answer[x] = c.answer[x]
  BY <1>1, SameBelow DEF Edit, Stored, SameOutside
<1>4. \A x \in Touched \ R : cache[x] = NoValue
  <2>1. \A x \in Kept \ R : Below(c)[x] \cap T = {}
    BY WalkSuffices DEF Edit, Walk
  <2> QED BY <2>1 DEF Results!Touching, Kept
<1>5. Results!Dropped(R \cup Touched)
  BY <1>4 DEF Edit, Walk, Results!Dropped
<1>6. R \cup Touched \in SUBSET Ids
  BY DEF Results!Touching
<1> QED BY <1>2, <1>3, <1>5, <1>6 DEF Results!SafeEdit

LEMMA GetIsRead ==
  ASSUME NEW a \in Ids, Get(a)
  PROVE  Results!Read(a)
BY DEF Get, Leaves, Results!Read, Results!Kept, Results!Filled

LEMMA LazyStepsAreMemo ==
  ASSUME LazyInv, [Next]_lvars
  PROVE  [Results!SafeNext]_<< Below(contents), contents.answer, cache >>
<1>1. CASE UNCHANGED lvars
  BY <1>1 DEF lvars
<1> QED BY <1>1, EditIsSafe, GetIsRead DEF Next, Results!SafeNext

LEMMA LazyInitIsMemo == Init => Results!Init
BY DEF Init, Results!Init, Results!IsBelow, IsContents, Below

(***************************************************************************)
(* Links that exist only from what was computed, followed only through     *)
(* results, keep the weaker promise: every result that may have become     *)
(* stale is given up.                                                      *)
(***************************************************************************)
THEOREM LazyLinksImplementMemo == Spec => Results!SafeSpec
BY LazyInvInit, LazyInvStep, LazyInitIsMemo, LazyStepsAreMemo, PTL
DEF Spec, Results!SafeSpec, Results!memo

LEMMA SafeStep ==
  ASSUME Results!Coherent, [Results!SafeNext]_<< Below(contents), contents.answer, cache >>
  PROVE  Results!Coherent'
<1>1. CASE \E a \in Ids : Results!Read(a)
  BY <1>1 DEF Results!Coherent, Results!Read, Results!Kept
<1>2. CASE \E T \in SUBSET Ids : Results!SafeEdit(T)
  BY <1>2 DEF Results!Coherent, Results!SafeEdit, Results!Dropped
<1>3. CASE UNCHANGED << Below(contents), contents.answer, cache >>
  BY <1>3 DEF Results!Coherent
<1> QED BY <1>1, <1>2, <1>3 DEF Results!SafeNext

(***************************************************************************)
(* So a result that armT or armA keeps is what a full recomputation would  *)
(* answer now.                                                             *)
(***************************************************************************)
THEOREM LazyLinksAreCoherent == Spec => []Results!Coherent
<1>1. Results!Init => Results!Coherent
  BY DEF Results!Init, Results!Coherent
<1>2. Results!SafeSpec => []Results!Coherent
  BY <1>1, SafeStep, PTL DEF Results!SafeSpec, Results!memo
<1> QED BY <1>2, LazyLinksImplementMemo
=============================================================================
