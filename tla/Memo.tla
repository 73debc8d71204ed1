-------------------------------- MODULE Memo --------------------------------
(***************************************************************************)
(* What a spreadsheet engine promises of the results it keeps, whatever    *)
(* bookkeeping keeps the promise: an edit drops exactly the results that   *)
(* may have become stale, and a get() keeps results and adds current ones. *)
(*                                                                         *)
(* The stored contents appear by what matters here: below[x], the cells    *)
(* that the formula at x refers to, directly or through other formulas,    *)
(* and x itself; and answer[x], what a full recomputation answers for x.   *)
(***************************************************************************)
CONSTANTS
    Ids,          \* the cells
    NoValue       \* a cell has no kept result

VARIABLES below, answer, cache

memo == << below, answer, cache >>

\* The cells with one of T below them.
Touching(b, T) == {x \in Ids : b[x] \cap T # {}}

\* The results of S are given up.
Dropped(S) == cache' = [x \in Ids |-> IF x \in S THEN NoValue ELSE cache[x]]

IsBelow(b) == b \in [Ids -> SUBSET Ids] /\ \A x \in Ids : x \in b[x]

\* An edit of the cells T changes nothing for a cell that has none of T below it.
Edited(T) ==
    /\ IsBelow(below')
    /\ Touching(below', T) = Touching(below, T)
    /\ \A x \in Ids \ Touching(below, T) : below'[x] = below[x] /\ answer'[x] = answer[x]

Edit(T) == Edited(T) /\ Dropped(Touching(below, T))

\* The results a step adds or replaces.
Filled == {x \in Ids : cache'[x] # cache[x]}

\* A get() of a may keep the results of cells below a that have none.
Kept(a) ==
    /\ Filled \subseteq {x \in below[a] : cache[x] = NoValue}
    /\ cache' = [x \in Ids |-> IF x \in Filled THEN answer[x] ELSE cache[x]]

Read(a) == Kept(a) /\ UNCHANGED << below, answer >>

Init == IsBelow(below) /\ cache = [x \in Ids |-> NoValue]

Next == (\E a \in Ids : Read(a)) \/ (\E T \in SUBSET Ids : Edit(T))

Spec == Init /\ [][Next]_memo

\* The weaker promise: an edit drops every result that may have become stale,
\* and whatever others.
SafeEdit(T) ==
    /\ IsBelow(below')
    /\ \A x \in Ids \ Touching(below, T) : below'[x] = below[x] /\ answer'[x] = answer[x]
    /\ \E S \in SUBSET Ids : Touching(below, T) \subseteq S /\ Dropped(S)

SafeNext == (\E a \in Ids : Read(a)) \/ (\E T \in SUBSET Ids : SafeEdit(T))

SafeSpec == Init /\ [][SafeNext]_memo
----------------------------------------------------------------------------
\* A kept result is what a full recomputation would answer now.
Coherent == \A x \in Ids : cache[x] # NoValue => cache[x] = answer[x]
=============================================================================
