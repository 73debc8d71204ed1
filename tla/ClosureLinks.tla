---------------------------- MODULE ClosureLinks ----------------------------
(***************************************************************************)
(* The bookkeeping of armK, with evaluation left out: with a result the    *)
(* closure it was computed from is kept, and the cell is linked from every *)
(* member of it, so that an edit goes one link far.  Below a formula that  *)
(* is not evaluated, because it is too long, there is nothing.             *)
(*                                                                         *)
(* It implements Memo: every kept result is linked from its whole closure. *)
(***************************************************************************)
EXTENDS TLAPS

CONSTANTS Ids, NoValue, NoClosure

VARIABLES below, answer, cache, clos, links   \* links holds << member, dependent >> pairs

cvars == << below, answer, cache, clos, links >>

Results == INSTANCE Memo

----------------------------------------------------------------------------
\* What the engine does to its memory

Unlinked(U) ==
    /\ clos' = [x \in Ids |-> IF x \in U THEN NoClosure ELSE clos[x]]
    /\ links' = {l \in links : l[2] \notin U}

\* What one link from a member of T reaches.
Linked(T) == {x \in Ids : \E y \in T : << y, x >> \in links}

\* T was edited; a cell that was written, or is on a new sheet, is in U.
Invalidated(T, U) ==
    /\ Results!Dropped(T \cup Linked(T))
    /\ \A x \in U \ T : cache[x] = NoValue
    /\ Unlinked(U)

\* The clock: what reads it is searched for, no link is followed.
Outdated(T) ==
    Results!Dropped(Results!Touching(below, T)) /\ UNCHANGED << clos, links >>

\* A workbook that is loaded anew has no results.
Forgotten == cache' = [x \in Ids |-> NoValue] /\ Unlinked(Ids)

\* A get() links the cells whose results it keeps, but for those it refuses to
\* compute.
Kept(a) ==
    LET L == {x \in Results!Filled : clos'[x] # NoClosure}
    IN /\ Results!Kept(a)
       /\ \A x \in Results!Filled \ L : below[x] = {x}
       /\ clos' = [x \in Ids |-> IF x \in L THEN below[x] ELSE clos[x]]
       /\ links' = {l \in links : l[2] \notin L} \cup {l \in Ids \X L : l[1] \in below[l[2]]}

----------------------------------------------------------------------------
\* The operations

Edit(T, U) == Results!Edited(T) /\ Invalidated(T, U)
Tick(T) == Results!Edited(T) /\ Outdated(T)
Reload == Forgotten /\ UNCHANGED << below, answer >>
Get(a) == Kept(a) /\ UNCHANGED << below, answer >>

Init ==
    /\ Results!Init
    /\ clos = [x \in Ids |-> NoClosure] /\ links = {}

Next ==
    \/ \E a \in Ids : Get(a)
    \/ \E T, U \in SUBSET Ids : Edit(T, U)
    \/ \E T \in SUBSET Ids : Tick(T)
    \/ Reload

Spec == Init /\ [][Next]_cvars
----------------------------------------------------------------------------
\* A kept result has the closure it depends on now, or none is below it; and
\* the links are those of the closures there are.
LinksAreCurrent ==
    /\ \A x \in Ids : cache[x] # NoValue =>
          IF clos[x] = NoClosure THEN below[x] = {x} ELSE clos[x] = below[x]
    /\ links = {l \in Ids \X Ids : clos[l[2]] # NoClosure /\ l[1] \in clos[l[2]]}

----------------------------------------------------------------------------
CInv ==
    /\ Results!IsBelow(below) /\ LinksAreCurrent
    /\ clos = [x \in Ids |-> clos[x]]

----------------------------------------------------------------------------
\* For a cell with a result the links lead where its closure does.
LEMMA OneLinkIsEnough ==
  ASSUME CInv, NEW T \in SUBSET Ids, NEW x \in Ids, cache[x] # NoValue
  PROVE  x \in T \cup Linked(T) <=> x \in Results!Touching(below, T)
<1> USE DEF CInv, LinksAreCurrent, Results!IsBelow, Results!Touching, Linked
<1>1. x \in below[x] /\ below[x] \subseteq Ids
  OBVIOUS
<1>2. CASE clos[x] = NoClosure
  BY <1>1, <1>2
<1>3. CASE clos[x] # NoClosure
  BY <1>1, <1>3
<1> QED BY <1>2, <1>3

\* So an edit drops the results that Memo says it drops.
LEMMA EditIsEdit ==
  ASSUME CInv, NEW T \in SUBSET Ids, NEW U \in SUBSET Ids, Edit(T, U)
  PROVE  Results!Edit(T)
<1>1. \A x \in Ids : (IF x \in T \cup Linked(T) THEN NoValue ELSE cache[x])
                    = (IF x \in Results!Touching(below, T) THEN NoValue ELSE cache[x])
  BY OneLinkIsEnough
<1>2. Results!Dropped(Results!Touching(below, T))
  BY <1>1 DEF Edit, Invalidated, Results!Dropped
<1> QED BY <1>2 DEF Edit, Results!Edit

LEMMA ReloadIsEdit ==
  ASSUME CInv, Reload
  PROVE  Results!Edit(Ids)
<1>1. Results!Touching(below, Ids) = Ids
  BY DEF Results!Touching, CInv, Results!IsBelow
<1> QED BY <1>1 DEF Reload, Forgotten, Results!Edit, Results!Edited, Results!Dropped, CInv

LEMMA StepsAreMemo ==
  ASSUME CInv, [Next]_cvars
  PROVE  [Results!Next]_<< below, answer, cache >>
<1>1. ASSUME NEW a \in Ids, Get(a) PROVE Results!Next
  BY <1>1 DEF Get, Kept, Results!Read, Results!Next
<1>2. ASSUME NEW T \in SUBSET Ids, NEW U \in SUBSET Ids, Edit(T, U) PROVE Results!Next
  BY <1>2, EditIsEdit DEF Results!Next
<1>3. ASSUME NEW T \in SUBSET Ids, Tick(T) PROVE Results!Next
  BY <1>3 DEF Tick, Outdated, Results!Edit, Results!Next
<1>4. CASE Reload
  BY <1>4, ReloadIsEdit DEF Results!Next
<1>5. CASE UNCHANGED cvars
  BY <1>5 DEF cvars
<1> QED BY <1>1, <1>2, <1>3, <1>4, <1>5 DEF Next
----------------------------------------------------------------------------
(*                                The links                                *)

\* After a step that drops what Memo says, a result that is left is of a cell
\* that the step did not unlink and that has below it what it had.
LEMMA UnlinkedInv ==
  ASSUME CInv, NEW T \in SUBSET Ids, NEW U \in SUBSET Ids, Results!Edit(T), Unlinked(U),
         \A x \in U \ T : cache[x] = NoValue
  PROVE  CInv'
<1> USE DEF CInv, LinksAreCurrent, Unlinked
<1>1. Results!IsBelow(below')
  BY DEF Results!Edit, Results!Edited
<1>2. ASSUME NEW x \in Ids, cache'[x] # NoValue
      PROVE  cache[x] # NoValue /\ clos'[x] = clos[x] /\ below'[x] = below[x]
  <2>1. x \notin Results!Touching(below, T) /\ cache[x] # NoValue
    BY <1>2 DEF Results!Edit, Results!Dropped
  <2>2. x \notin U
    BY <2>1 DEF Results!Touching, Results!IsBelow
  <2> QED BY <2>1, <2>2 DEF Results!Edit, Results!Edited
<1>3. \A x \in Ids : cache'[x] # NoValue =>
          IF clos'[x] = NoClosure THEN below'[x] = {x} ELSE clos'[x] = below'[x]
  BY <1>2
<1>4. links' = {l \in Ids \X Ids : clos'[l[2]] # NoClosure /\ l[1] \in clos'[l[2]]}
  OBVIOUS
<1> QED BY <1>1, <1>3, <1>4

LEMMA KeptInv ==
  ASSUME CInv, NEW a \in Ids, Get(a)
  PROVE  CInv'
<1> DEFINE L == {x \in Results!Filled : clos'[x] # NoClosure}
<1> USE DEF CInv, LinksAreCurrent
<1>1. /\ \A x \in Results!Filled \ L : below[x] = {x}
      /\ clos' = [x \in Ids |-> IF x \in L THEN below[x] ELSE clos[x]]
      /\ links' = {l \in links : l[2] \notin L} \cup {l \in Ids \X L : l[1] \in below[l[2]]}
      /\ below' = below /\ L \subseteq Results!Filled
      /\ \A x \in L : clos'[x] # NoClosure
  BY DEF Get, Kept
<1>2. Results!Filled \subseteq Ids /\ \A x \in Ids \ Results!Filled : cache'[x] = cache[x]
  BY DEF Results!Filled
<1>3. \A x \in Results!Filled \ L : clos'[x] = NoClosure
  OBVIOUS
<1> HIDE DEF L
<1>4. \A x \in Ids : cache'[x] # NoValue =>
          IF clos'[x] = NoClosure THEN below'[x] = {x} ELSE clos'[x] = below'[x]
  BY <1>1, <1>2, <1>3
<1>5. links' = {l \in Ids \X Ids : clos'[l[2]] # NoClosure /\ l[1] \in clos'[l[2]]}
  BY <1>1, <1>2
<1> QED BY <1>1, <1>4, <1>5 DEF Results!IsBelow

LEMMA CInvStep ==
  ASSUME CInv, [Next]_cvars
  PROVE  CInv'
<1>1. ASSUME NEW a \in Ids, Get(a) PROVE CInv'
  BY <1>1, KeptInv
<1>2. ASSUME NEW T \in SUBSET Ids, NEW U \in SUBSET Ids, Edit(T, U) PROVE CInv'
  BY <1>2, EditIsEdit, UnlinkedInv DEF Edit, Invalidated
<1>3. ASSUME NEW T \in SUBSET Ids, Tick(T) PROVE CInv'
  <2>1. Results!Edit(T)
    BY <1>3 DEF Tick, Outdated, Results!Edit
  <2>2. Unlinked({})
    BY <1>3 DEF Tick, Outdated, Unlinked, CInv
  <2> QED BY <2>1, <2>2, UnlinkedInv
<1>4. CASE Reload
  <2>1. Unlinked(Ids)
    BY <1>4 DEF Reload, Forgotten
  <2> QED BY <1>4, <2>1, ReloadIsEdit, UnlinkedInv
<1>5. CASE UNCHANGED cvars
  BY <1>5 DEF cvars, CInv, LinksAreCurrent, Results!IsBelow
<1> QED BY <1>1, <1>2, <1>3, <1>4, <1>5 DEF Next

LEMMA CInvInit == Init => CInv
BY DEF Init, Results!Init, CInv, LinksAreCurrent

\* The closures armK keeps with its results are those of now, and its links
\* are theirs, whatever is edited, loaded, ticked and read.
THEOREM ClosuresAreCurrent == Spec => []LinksAreCurrent
<1>1. CInv => LinksAreCurrent
  BY DEF CInv
<1> QED BY CInvInit, CInvStep, <1>1, PTL DEF Spec

\* The links armK keeps of whole closures, followed once, keep the promise.
THEOREM ClosureLinksImplementMemo == Spec => Results!Spec
<1>1. Init => Results!Init
  BY DEF Init
<1> QED BY <1>1, CInvInit, CInvStep, StepsAreMemo, PTL DEF Spec, Results!Spec, Results!memo

LEMMA CoherentStep ==
  ASSUME Results!Coherent, [Results!Next]_<< below, answer, cache >>
  PROVE  Results!Coherent'
<1>1. CASE \E a \in Ids : Results!Read(a)
  BY <1>1 DEF Results!Coherent, Results!Read, Results!Kept
<1>2. CASE \E T \in SUBSET Ids : Results!Edit(T)
  BY <1>2 DEF Results!Coherent, Results!Edit, Results!Edited, Results!Dropped
<1>3. CASE UNCHANGED << below, answer, cache >>
  BY <1>3 DEF Results!Coherent
<1> QED BY <1>1, <1>2, <1>3 DEF Results!Next

\* So a result that is kept is what a full recomputation would answer now.
THEOREM ClosureLinksAreCoherent == Spec => []Results!Coherent
<1>1. Results!Init => Results!Coherent
  BY DEF Results!Init, Results!Coherent
<1>2. Results!Spec => []Results!Coherent
  BY <1>1, CoherentStep, PTL DEF Results!Spec, Results!memo
<1> QED BY <1>2, ClosureLinksImplementMemo
=============================================================================
