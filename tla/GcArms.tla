------------------------------- MODULE GcArms -------------------------------
(***************************************************************************)
(* The five one-sheet engines side by side.  A behaviour runs the one that *)
(* arm names; the state another engine keeps stays as it was.              *)
(***************************************************************************)
EXTENDS GcFormula

CONSTANTS
    Arms,                \* among "A", "B", "SN", "hybrid", "rerun"
    NoDeps, NoClosure, MaxChain, MaxInt

VARIABLES arm, cache, deps, rdeps, closures, inner, dirty

A == INSTANCE GcA
B == INSTANCE GcB
SN == INSTANCE GcSN
Hybrid == INSTANCE GcHybrid
Rerun == INSTANCE GcRerun

gcvars == << arm, cells, cache, deps, rdeps, closures, inner, dirty >>

Init ==
    /\ arm \in Arms
    /\ cells = [a \in Grid |-> Empty] /\ cache = [a \in Grid |-> NoValue]
    /\ deps = [a \in Grid |-> IF arm = "B" THEN NoDeps ELSE {}] /\ rdeps = {}
    /\ closures = [a \in Grid |-> NoClosure] /\ inner = {} /\ dirty = {}

Next ==
    \/ arm = "A" /\ A!Next /\ UNCHANGED << arm, closures, inner, dirty >>
    \/ arm = "B" /\ B!Next /\ UNCHANGED << arm, rdeps, closures, inner, dirty >>
    \/ arm = "SN" /\ SN!Next /\ UNCHANGED << arm, closures, inner, dirty >>
    \/ arm = "hybrid" /\ Hybrid!Next /\ UNCHANGED << arm, deps, rdeps, dirty >>
    \/ arm = "rerun" /\ Rerun!Next /\ UNCHANGED << arm, deps, rdeps, closures, inner >>

Spec == Init /\ [][Next]_gcvars

\* What get(a) would answer now, and the memory it would leave.
Fetch(a) ==
    CASE arm = "A" -> A!Fetch(a) [] arm = "B" -> B!Fetch(a) [] arm = "SN" -> SN!Fetch(a)
      [] arm = "hybrid" -> Hybrid!Fetch(a) [] arm = "rerun" -> Rerun!Fetch(a)

----------------------------------------------------------------------------
\* Properties

TypeOK ==
    /\ arm \in Arms
    /\ \A a \in Grid :
          /\ cells[a] \in Texts(a) \cup {Empty}
          /\ cache[a] \in {NoValue, Empty} \/ cache[a][1] \in {"int", "str", "err"}
    /\ dirty \subseteq Grid /\ rdeps \subseteq Grid \X Grid

\* The links of armA as LazyLinks sees them, and what contents c are to it.
Lazy(contents) == INSTANCE LazyLinks WITH
    Ids <- Grid, links <- rdeps
At(c) == INSTANCE GcFormula WITH cells <- c

\* Storing something at a changes nothing for a formula that depends on a
\* neither before nor after.  Caches have no part in it.
SetsAreLocal ==
    (\A a \in Grid : cache[a] = NoValue) =>
        \A now \in {Readings} :
            /\ Lazy(now)!IsContents(now)
            /\ \A a \in Grid : \A v \in Texts(a) :
                  \A then \in {At([cells EXCEPT ![a] = v])!Readings} :
                      Lazy(now)!SameOutside({a}, now, then)

\* The dependency state every engine keeps beside its results is that of the
\* stored formulas: the two directions of armSN's links mirror each other,
\* armA never lacks a link, and what it evaluated for a result has one too or
\* reads nothing; and the sets that armB and hybrid took some time ago are the
\* ones they would take now.
LinksAreCurrent ==
    /\ TypeOK
    /\ arm \in {"A", "SN"} => \A a \in Grid : deps[a] = Mentioned(cells[a])
    /\ arm = "SN" => rdeps = {l \in Grid \X Grid : l[1] \in deps[l[2]]}
    /\ arm = "A" => (\A now \in {Readings} : Lazy(now)!LinksSuffice) /\ SetsAreLocal
    /\ arm = "A" => \A a \in Grid : deps[a] \X {a} \subseteq rdeps
    /\ arm = "B" => \A a \in Grid :
          deps[a] = IF cache[a] = NoValue THEN NoDeps ELSE B!ComputeClosure(a)
    /\ arm = "hybrid" =>
          /\ inner \subseteq {a \in Grid : cache[a] # NoValue}
          /\ \A a \in Grid : closures[a] \in {NoClosure, Closure(a)}

\* A range in the closure of a with cells between its corners.
ReachesWideRange(c, a) ==
    \E x \in ClosureIn(c, a) : IsFormula(c[x]) /\
        \E l \in Leaves(c[x][2]) :
            l[1] = "agg" /\ IsRange(l[3], l[4]) /\ Len(RangeCells(l[3], l[4])) > 2

\* Where an engine is held to the naive answer.  armB and rerun report another
\* error than the naive one for some erring formulas, so theirs are compared
\* where the naive answer is none; armB overlooks the cells between the corners
\* of a range; hybrid may be wrong about what it cached on the way to something
\* else, and rerun about what the last get() of another cell marked clean.
Comparable(a) ==
    LET erring == IsFormula(cells[a]) /\ IsErr(NaiveGet(a))
    IN CASE arm \in {"A", "SN"} -> TRUE
         [] arm = "B" -> ~ erring /\ ~ ReachesWideRange(cells, a)
         [] arm = "hybrid" -> Closure(a) \cap inner = {}
         [] arm = "rerun" -> ~ erring /\ (Rerun!NeedsRecompute(a) \/ cache[a] = NoValue)

\* Whatever was set and read before, a get() answers what a recomputation from
\* the stored contents answers, wherever the engine can be held to it.
AnswersAreNaive == \A a \in Grid : Comparable(a) => Fetch(a).v = NaiveGet(a)

\* The same with no exception: what the specification of the engines says.
EveryAnswerNaive == \A a \in Grid : Fetch(a).v = NaiveGet(a)

\* A get() starts the computation of a formula at most once, only in the
\* closure of the cell and only without a result, and keeps the results there
\* are; and armA's leaves behind what a get() of LazyLinks does.
StartsOnlyNeeded ==
    /\ arm = "A" => \A now \in {Readings}, a \in Grid : Lazy(now)!Leaves(a, Fetch(a).m.cache, rdeps)
    /\ arm \in {"B", "SN", "hybrid"} =>
        \A a \in Grid : \A m \in {Fetch(a).m}, below \in {Closure(a)} : \A x \in Grid :
            /\ m.starts[x] > 0 => m.starts[x] = 1 /\ cache[x] = NoValue /\ x \in below
            /\ cache[x] # NoValue => m.cache[x] = cache[x]

\* Where a set() is to drop a result exactly when its formula is reached from it.
DropsExactly(a) ==
    arm = "SN" \/ (arm = "B" /\ ~ ReachesWideRange(cells', a)) \/ (arm = "hybrid" /\ a \notin inner)

\* The links of armSN as DirectLinks sees them.
Links == INSTANCE DirectLinks WITH
    Ids <- Grid, refs <- [a \in Grid |-> Mentioned(cells[a])],
    answer <- [a \in Grid |-> NaiveGet(a)]

\* A set() drops the result of a formula when the cell is in its closure, and
\* leaves it when the cell is not, so that a get() starts nothing; armSN
\* takes the steps of DirectLinks and no other, and armA's set() gives up what
\* a walk of LazyLinks from the cell gives up.
EditBounds ==
    [][ /\ \A y \in Grid : cells'[y] # cells[y] =>
               \A a \in Grid :
                   IsFormula(cells'[a]) /\ cache[a] # NoValue /\ DropsExactly(a)
                   => (cache'[a] = NoValue <=> y \in ClosureIn(cells', a))
        /\ arm = "SN" =>
               \E a \in Grid : Links!Get(a) \/ Links!Set(a, Mentioned(cells'[a]))
        /\ arm = "A" =>
               LET gone == {x \in Grid : cache[x] # NoValue /\ cache'[x] = NoValue}
               IN \/ \E a \in Grid : /\ \A x \in Grid \ {a} : cells'[x] = cells[x]
                                     /\ Lazy(Readings)!Walk({a}, gone \cup {a})
                  \/ \E a \in Grid : A!Get(a) ]_gcvars
=============================================================================
