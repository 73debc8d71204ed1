---------------------------- MODULE DirectLinks ----------------------------
(***************************************************************************)
(* The bookkeeping of armSN, with evaluation left out: each formula is     *)
(* linked from the cells it refers to itself, and an edit follows the      *)
(* links from the edited cell.  refs[x] are the cells the formula at x     *)
(* refers to.                                                              *)
(*                                                                         *)
(* It implements Memo: the links mirror the references, so that what an    *)
(* edited cell reaches over the links is what has it below, and the edit   *)
(* of a cell does not change whether something is above it.                *)
(***************************************************************************)
EXTENDS TLAPS

CONSTANTS Ids, NoValue

VARIABLES refs, answer, cache, deps, rdeps   \* rdeps holds << member, dependent >> pairs

lvars == << refs, answer, cache, deps, rdeps >>

\* The least set with x and all that its members refer to.
Closed(r, S) == \A z \in S : r[z] \subseteq S
Closure(r, x) == {y \in Ids : \A S \in SUBSET Ids : x \in S /\ Closed(r, S) => y \in S}

Below == [x \in Ids |-> Closure(refs, x)]

Results == INSTANCE Memo WITH below <- Below

----------------------------------------------------------------------------
\* The links

Mirror(r) == {l \in Ids \X Ids : l[1] \in r[l[2]]}

Relinked(a, new) == (rdeps \ (deps[a] \X {a})) \cup (new \X {a})

\* a and what depends on it over the links.
Along(S) == \A l \in rdeps : l[1] \in S => l[2] \in S
Dependents(a) == {x \in Ids : \A S \in SUBSET Ids : a \in S /\ Along(S) => x \in S}

----------------------------------------------------------------------------
\* The operations

\* What is stored at a changes: its references, and the answers above it.
Store(a, new) ==
    /\ refs' = [refs EXCEPT ![a] = new]
    /\ \A x \in Ids : a \notin Closure(refs', x) => answer'[x] = answer[x]

Set(a, new) ==
    /\ Store(a, new)
    /\ Results!Dropped(Dependents(a))
    /\ rdeps' = Relinked(a, new)
    /\ deps' = [deps EXCEPT ![a] = new]

Get(a) == Results!Read(a) /\ UNCHANGED << refs, deps, rdeps >>

Init ==
    /\ refs = [x \in Ids |-> {}] /\ cache = [x \in Ids |-> NoValue]
    /\ deps = [x \in Ids |-> {}] /\ rdeps = {}

Next == \E a \in Ids : Get(a) \/ \E new \in SUBSET Ids : Set(a, new)

Spec == Init /\ [][Next]_lvars
----------------------------------------------------------------------------
\* The two directions of the links mirror each other and what is stored.
LinksMirror == deps = refs /\ rdeps = Mirror(refs)

----------------------------------------------------------------------------
References == [Ids -> SUBSET Ids]

LInv == refs \in References /\ LinksMirror

----------------------------------------------------------------------------
(*                                Closures                                 *)

\* The closure of a cell holds it and is closed under the references.
LEMMA ClosureHolds ==
  ASSUME NEW r \in References, NEW x \in Ids
  PROVE  x \in Closure(r, x) /\ Closed(r, Closure(r, x)) /\ Closure(r, x) \subseteq Ids
<1>1. Closure(r, x) \subseteq Ids /\ x \in Closure(r, x)
  BY DEF Closure
<1>2. ASSUME NEW z \in Closure(r, x), NEW y \in r[z]
      PROVE  y \in Closure(r, x)
  <2>1. y \in Ids
    BY <1>1 DEF References
  <2>2. ASSUME NEW S \in SUBSET Ids, x \in S, Closed(r, S)
        PROVE  y \in S
    BY <2>2 DEF Closure, Closed
  <2> QED BY <2>1, <2>2 DEF Closure
<1> QED BY <1>1, <1>2 DEF Closed

\* It is the least such set.
LEMMA ClosureLeast ==
  ASSUME NEW r, NEW x, NEW S \in SUBSET Ids, x \in S, Closed(r, S)
  PROVE  Closure(r, x) \subseteq S
BY DEF Closure

\* A closure without the cell whose references change stays.
LEMMA SameBelow ==
  ASSUME NEW r \in References, NEW q \in References, NEW a \in Ids, NEW x \in Ids,
         \A y \in Ids \ {a} : q[y] = r[y],
         a \notin Closure(r, x)
  PROVE  Closure(q, x) = Closure(r, x)
<1>1. Closed(q, Closure(r, x))
  BY ClosureHolds DEF Closed
<1>2. Closure(q, x) \subseteq Closure(r, x)
  BY <1>1, ClosureHolds, ClosureLeast
<1>3. Closed(r, Closure(q, x))
  BY <1>2, ClosureHolds DEF Closed
<1>4. Closure(r, x) \subseteq Closure(q, x)
  BY <1>3, ClosureHolds, ClosureLeast
<1> QED BY <1>2, <1>4

\* What is below something below x is below x.
LEMMA BelowBelow ==
  ASSUME NEW r \in References, NEW x \in Ids, NEW y \in r[x], NEW a \in Closure(r, y)
  PROVE  a \in Closure(r, x)
<1>1. y \in Closure(r, x) /\ Closed(r, Closure(r, x)) /\ Closure(r, x) \in SUBSET Ids
  BY ClosureHolds DEF Closed
<1> QED BY <1>1, ClosureLeast

\* The links lead from a cell to exactly the cells that have it below.
LEMMA LinksLeadUp ==
  ASSUME refs \in References, rdeps = Mirror(refs), NEW a \in Ids
  PROVE  Dependents(a) = {x \in Ids : a \in Closure(refs, x)}
<1> DEFINE Above == {x \in Ids : a \in Closure(refs, x)}
<1>1. a \in Above /\ Along(Above)
  BY ClosureHolds, BelowBelow DEF Along, Mirror, References
<1>2. Dependents(a) \subseteq Above
  BY <1>1 DEF Dependents
<1>3. ASSUME NEW x \in Above, NEW S \in SUBSET Ids, a \in S, Along(S)
      PROVE  x \in S
  <2> SUFFICES ASSUME x \notin S PROVE FALSE
    OBVIOUS
  <2>1. ASSUME NEW z \in Ids \ S, NEW y \in refs[z]
        PROVE  y \in Ids \ S
    <3>1. << y, z >> \in rdeps
      BY DEF Mirror, References
    <3> QED BY <1>3, <3>1 DEF Along, Mirror
  <2>2. Closure(refs, x) \subseteq Ids \ S
    <3> DEFINE R == Ids \ S
    <3>1. Closed(refs, R) /\ R \in SUBSET Ids /\ x \in R
      BY <2>1 DEF Closed
    <3> HIDE DEF R
    <3>2. Closure(refs, x) \subseteq R
      BY <3>1, ClosureLeast
    <3> QED BY <3>2 DEF R
  <2> QED BY <2>2, <1>3
<1>4. Above \subseteq Dependents(a)
  BY <1>3 DEF Dependents
<1> QED BY <1>2, <1>4
----------------------------------------------------------------------------
(*                                The links                                *)

LEMMA LInvStep ==
  ASSUME LInv, [Next]_lvars
  PROVE  LInv'
<1> USE DEF LInv, LinksMirror
<1>1. ASSUME NEW a \in Ids, NEW new \in SUBSET Ids, Set(a, new)
      PROVE  LInv'
  <2>1. refs' = [refs EXCEPT ![a] = new] /\ deps' = refs' /\ refs' \in References
    BY <1>1 DEF Set, Store, References
  <2>2. rdeps' = (Mirror(refs) \ (refs[a] \X {a})) \cup (new \X {a})
    BY <1>1 DEF Set, Relinked
  <2>3. rdeps' = Mirror(refs')
    BY <2>1, <2>2 DEF Mirror, References
  <2> QED BY <2>1, <2>3 DEF Mirror
<1>2. ASSUME NEW a \in Ids, Get(a)
      PROVE  LInv'
  BY <1>2 DEF Get, Mirror
<1>3. CASE UNCHANGED lvars
  BY <1>3 DEF lvars, Mirror
<1> QED BY <1>1, <1>2, <1>3 DEF Next

LEMMA LInvInit == Init => LInv
BY DEF Init, LInv, LinksMirror, Mirror, References

\* The links of armSN mirror each other and what is stored, whatever is set
\* and read.
THEOREM LinksAlwaysMirror == Spec => []LinksMirror
<1>1. LInv => LinksMirror
  BY DEF LInv
<1> QED BY LInvInit, LInvStep, <1>1, PTL DEF Spec
----------------------------------------------------------------------------
(*                            Implementing Memo                            *)

LEMMA SetIsEdit ==
  ASSUME LInv, NEW a \in Ids, NEW new \in SUBSET Ids, Set(a, new)
  PROVE  Results!Edit({a})
<1>1. /\ refs \in References /\ refs' \in References
      /\ \A y \in Ids \ {a} : refs'[y] = refs[y]
  BY DEF LInv, Set, Store, References
<1>2. \A r, q \in References, x \in Ids :
         (\A y \in Ids \ {a} : q[y] = r[y]) /\ a \notin Closure(r, x)
         => Closure(q, x) = Closure(r, x)
  BY SameBelow
<1>3. \A x \in Ids : a \notin Closure(refs, x) \/ a \notin Closure(refs', x)
                    => Closure(refs', x) = Closure(refs, x)
  BY <1>1, <1>2
<1>4. /\ Results!Touching(Below, {a}) = {x \in Ids : a \in Closure(refs, x)}
      /\ Results!Touching(Below', {a}) = {x \in Ids : a \in Closure(refs', x)}
  BY DEF Results!Touching, Below
<1>5. Results!IsBelow(Below')
  BY <1>1, ClosureHolds DEF Results!IsBelow, Below
<1>6. Results!Edited({a})
  BY <1>3, <1>4, <1>5 DEF Results!Edited, Set, Store, Below
<1>7. Results!Dropped(Results!Touching(Below, {a}))
  BY <1>4, LinksLeadUp DEF LInv, LinksMirror, Set
<1> QED BY <1>6, <1>7 DEF Results!Edit

LEMMA StepsAreMemo ==
  ASSUME LInv, [Next]_lvars
  PROVE  [Results!Next]_<< Below, answer, cache >>
<1>1. ASSUME NEW a \in Ids, NEW new \in SUBSET Ids, Set(a, new)
      PROVE  Results!Next
  BY <1>1, SetIsEdit DEF Results!Next
<1>2. ASSUME NEW a \in Ids, Get(a)
      PROVE  Results!Next
  BY <1>2 DEF Get, Results!Next
<1>3. CASE UNCHANGED lvars
  BY <1>3 DEF lvars, Below
<1> QED BY <1>1, <1>2, <1>3 DEF Next

LEMMA InitIsMemo == Init => Results!Init
<1> SUFFICES ASSUME Init PROVE Results!Init
  OBVIOUS
<1>1. refs \in References
  BY DEF Init, References
<1>2. Results!IsBelow(Below)
  BY <1>1, ClosureHolds DEF Results!IsBelow, Below
<1> QED BY <1>2 DEF Results!Init, Init

\* The direct links of armSN, followed from the edited cell, keep the promise:
\* a set() drops exactly the results with the cell in their closure.
THEOREM DirectLinksImplementMemo == Spec => Results!Spec
BY LInvInit, LInvStep, InitIsMemo, StepsAreMemo, PTL DEF Spec, Results!Spec, Results!memo

LEMMA CoherentStep ==
  ASSUME Results!Coherent, [Results!Next]_<< Below, answer, cache >>
  PROVE  Results!Coherent'
<1>1. CASE \E a \in Ids : Results!Read(a)
  BY <1>1 DEF Results!Coherent, Results!Read, Results!Kept
<1>2. CASE \E T \in SUBSET Ids : Results!Edit(T)
  BY <1>2 DEF Results!Coherent, Results!Edit, Results!Edited, Results!Dropped
<1>3. CASE UNCHANGED << Below, answer, cache >>
  BY <1>3 DEF Results!Coherent
<1> QED BY <1>1, <1>2, <1>3 DEF Results!Next

\* So a result that is kept is what a full recomputation would answer now.
THEOREM DirectLinksAreCoherent == Spec => []Results!Coherent
<1>1. Results!Init => Results!Coherent
  BY DEF Results!Init, Results!Coherent
<1>2. Results!Spec => []Results!Coherent
  BY <1>1, CoherentStep, PTL DEF Results!Spec, Results!memo
<1> QED BY <1>2, DirectLinksImplementMemo
=============================================================================
