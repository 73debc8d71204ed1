# TLA+ project for the loopspace / solo experiment repository

The repository collects programs that language models wrote to the same
specifications under different regimes ("arms"), the hidden graders that scored
them and the scripts that ran the sessions.  The programs with a core of their
own are libraries: **gridcalc-xl** (a workbook of sheets with formulas, names, a
clock, undo/redo and an incremental evaluator; three arms), **gridcalc** v1 (one
sheet; five arms), **kvtx** (nested transactions over a dictionary; three arms),
**intervalset** and **subcut** (two arms each).  None of them starts a thread,
sends a message or persists anything by itself.  What is hard in them is long
sequences of calls: results cached in one call and read many edits later, undo
stacks, nested transactions, limits, and eight parsers of one language.  The
scripts around them are hard in the usual way: they are interrupted, time out,
are killed and started again.

## 1. Inventory

| part | state | operations | what makes it correct |
|---|---|---|---|
| XL armK contents (`armK-thick/gridcalc/workbook.py`) | `_sheets`, `_order`, cells and names per sheet, `_clock`, `_journal`, `_redo_stack`, `_eval_counts` | `add_sheet`, `set`, `copy`, `define_name`, `advance_clock`, `undo`, `redo`, `to_json`/`from_json` | undo and redo retrace one line of contents; an entry always fits where it is reverted or reapplied; what is saved can be loaded |
| XL armK evaluator (`workbook.py`, `formula.py`) | per sheet `cache`, `identity_closure_cache`, `reverse_deps`, `eval_count` | `get`, and the invalidation inside every edit | answers do not depend on what was read before; an edit drops exactly the results that depend on it; no needless evaluation; limits stay local |
| XL armT (`armT-thin/gridcalc/__init__.py`) | contents, journal, `_cache`, links in both directions | the same | the same |
| XL armS (`armS-solo/gridcalc/*.py`) | contents, two stacks, per sheet a cache with clocks | the same | the same; it departs in many places |
| gridcalc v1 (`gridcalc/*/gridcalc/sheet.py`, `evaluator.py`) | cells, cache, links or closures or marks, counter | `set`, `get` | the same on one sheet |
| parsers and lexers of all of these | none between calls | text to tree | the grammar R3 of the `SPEC.md` files |
| kvtx (`kvtx/*/kvtx/database.py`) | base dictionary, a stack of overlay frames with tombstones, in two arms an index by value | `set`, `get`, `delete`, `count`, `begin`, `rollback`, `commit` | a stack of whole snapshots; the index and the counts are exact |
| intervalset | a sorted list of disjoint closed intervals | `add`, `remove`, `contains` | a set of integers |
| subcut | none | parse, format, shift, merge | functions |
| reference evaluators of the graders | contents, journal | those of a workbook | what engines are compared with |
| mutation sweeps (`*/grading/mutate*.py`, `sweep_lineage.py`) | the files of an arm, the copy read before a patch, verdicts | patch, run, restore | every verdict is about the one mutation; the files come back |
| session loops (`solo_loop.sh`, `sonnet_solo_loop.sh`) | session number, deadline, logs, commits | a session, a commit | a snapshot of each session; ends on its own `<DONE>` only |
| oracles, trajectory graders, supervise scripts | none | | |

Interaction.  Within a workbook every public call is atomic for its caller.
Inside it, `get` recurses through cells of all sheets, writes their caches on the
way back and records links; an edit writes contents, pushes a journal entry,
clears the redo stack and then asks links, formulas or both what it made stale.
A sheet that `undo` takes away lives on in the redo entry, in armK caches
included.  The graders call the public interface only; the mutation drivers
rewrite the engines' files while Python caches bytecode of them.

The hazards this gives rise to are listed, each at its line, in `PROJECT.json`.

## 2. Modules

| module | stands for | proved? |
|---|---|---|
| `KvTx` | what kvtx promises: a stack of snapshots | |
| `KvOverlay` | the overlay-frame machine of the three arms, `commit()` item by item | |
| `KvGhost` | `KvOverlay` with the history of its snapshots, the refinement mapping | |
| `KvIndexed` | the per-value counts and key sets of the two loopspace arms | |
| `KvProofs` | | theorems |
| `XlContents` | contents, journal and redo stack of the armK workbook, and the storage of armT and armS | |
| `TimeLine` | what undo and redo promise: a line of points and a place on it | |
| `XlHistory` | `XlContents` with the line it walks as history variable, the refinement mapping | |
| `XlReference` | the graders' reference workbook, driven by the same calls | |
| `XlProofs`, `ProofLemmas` | | theorems and lemmas on sequences and functions |
| `XlCounters` | `eval_count` through undo, redo and new sheets | |
| `XlTwins` | armK, its counters and the reference workbook under the same calls | |
| `XlLines` | the lines of contents of armT and of armS, their engines left out | |
| `XlTwinsProofs` | | theorems about the counters, the twins and the lines of armT and armS |
| `Memo` | what every engine promises of the results it keeps | |
| `ClosureLinks` | armK's bookkeeping, evaluation left out | theorems |
| `DirectLinks` | armSN's bookkeeping, evaluation left out | theorems |
| `LazyLinks` | armT's and armA's bookkeeping, evaluation left out | theorems |
| `XlFormula` | formulas as trees: references, `copy()`'s shift, functions on values | |
| `XlNaive` | the graders' naive recomputation, and the reference closure | |
| `XlEngine` | armK: `XlContents` composed with the evaluator and its caches, and its properties | |
| `XlThin`, `XlSolo` | the engines of armT and armS, on the storage of `XlContents` | |
| `XlArms` | both side by side, with the line of contents, and their properties | |
| `GcFormula` | v1: contents, formulas, naive recomputation | |
| `GcSN`, `GcA`, `GcB`, `GcHybrid`, `GcRerun` | the five v1 engines | |
| `GcArms` | the five side by side, and their properties | |
| `Parsers` | the eight parsers and the grammar | |
| `FloatDivision` | `int(left / right)` | |
| `IntervalSet` | either interval set, the loops of its calls an interval at a step | |
| `Subcut` | the two arms, their loops a cue or a line at a step | |
| `MutationSweep` | the mutation drivers and the bytecode cache of Python | |
| `SessionLoop` | the session loops | |
| `SmallProofs` | | theorems on sweeps, session loop, subcut, division and interval sets |
| `MC*` | instances for TLC; `MCXlTexts` the columns and formulas they are made of | |

### Correspondence: kvtx

`base` is `_data`/`_store`, `frames` the stack of dictionaries with `_DELETED`
tombstones, `fi` and `todo` the position of `commit()`'s two loops.  Each public
operation is an action; `commit()` is four (start, one item, next frame, end), so
that what a half-merged base looks like can be stated.  `KvIndexed` adds
`counts` and `keysOf`; its steps contain the index updates of the same call.

### Correspondence: workbook contents

`present` and `order` are the keys of `_sheets` and `_order`; `cells[s]` and
`names[s]` are the dictionaries of the `_SheetState` object that `_sheets[s]`, or
while the sheet is taken away the redo entry, holds.  A journal entry is a record
of the code's tuple.  In `MCXlHistory` formulas are opaque: all that matters there
is which text `copy()` stores (`CopyText`) and which sheet a name's target
mentions (`QualifierOf`).  Rejected calls change nothing and are guards.
`Reload` is `from_json(to_json())`.  `past` is not in the code: it counts what was
journaled before a reload, to bound TLC's runs.  `XlReference` keeps the
reference's own journal of previous and new values; `XlTwins` drives it and armK
with the same calls, and `ReferenceAgrees` compares what they store.  A call the
reference refuses leaves it as it was, so that a call armK takes and the
reference does not shows as a difference.

### Correspondence: evaluator of armK

`mem` holds `cache`, `clos` (`identity_closure_cache`) and `rdeps`
(`reverse_deps`, as a set of pairs).  `EvCell`, `EvFormula`, `EvNode` and
`EvArgs` are `_evaluate_cell`, its formula part, `_evaluate` and the argument
loops; they pass the memory along, so that what one argument caches the next one
sees, as in the code.  `ClosureBelow` is the depth-first search of
`_compute_closure_identity` with its limit, in the code's order.  Each engine
action is the action of `XlContents` conjoined with what the same method does to
the caches.  The reached-cells counter and the set of cells in progress live for
one `get` and are part of the record it threads.

Data abstracted: a text is its tree, plus a mark for texts over the length or
nesting limit and a node for texts that do not parse; strings are sequences of a
few characters; addresses are pairs.  The limits `MaxReach` (256), `MaxInt`
(2^63 - 1) and `MaxLen` (4096) are constants.

### Correspondence: armT and armS

`XlThin` keeps `cache`, `fwd` and `rev` (armT's links, in both directions) and
walks them as `_invalidate` does; `XlSolo` keeps a cached value with the
clock it was computed at.  What the two store is in `XlContents`, at its end: armT
drops a blank cell and makes it again, its journal entries are those of armK;
the journal of armS leaves names out, its redo of `advance_clock` sets the clock
back to what it was before, and its redo of a copy reads the source again.
`XlLines` drives that storage alone and keeps the line it walks, `XlArms` conjoins
it with the engines; `EditBounds` has TLC see that each step of `XlArms` is, on the
storage, a step of `XlLines`.  `plain` and
`removed` in `XlArms` are history variables that say where armS, or `_rev` of
armT after an undone `add_sheet`, can be held to a property.

### Correspondence: v1 engines

One module each, with the engine's own names for its state: `deps`/`rdeps`
(armSN, armA), the dependency set stored with a result (armB), closures of the
cells `get()` was asked for (hybrid), marks and a walk at each `get()` (rerun).
`starts` counts in how many places an evaluation of a cell began, and lives for
one `get`.  `inner` is a history variable of hybrid.

### Correspondence: bookkeeping

`Memo` promises of kept results that an edit drops those, and only those, that
may have become stale (`Spec`), or all those and some more (`SafeSpec`), and that
`get` adds current ones; `Coherent` follows.  `ClosureLinks`, `DirectLinks` and
`LazyLinks` are three ways to keep it: go one link far where every result is
linked from its whole closure (armK), follow links between a formula and what it
mentions over any number of cells (armSN), and follow such links where they exist
only for what was computed, and only through cells that have a result (armT,
armA).  They see the contents by what is below a cell, what a formula evaluates,
and what a recomputation would answer, so they have no recursion, and theorems.

The engines are tied to them by properties of the runs.  Each step of the armK
engine is compared with the step `ClosureLinks` takes (`KeepsTheBooks`), and each
step of armSN is a step of `DirectLinks` (`EditBounds` in `gc_arms`).  For armA
and armT, `EditBounds` says that an edit gives up what a walk of `LazyLinks` from
the cell gives up, `StartsOnlyNeeded` that a `get` leaves what a `LazyLinks!Get`
leaves, and `LinksAreCurrent` has `LinksSuffice`.  What an edit may do to the
contents (`Lazy!Stored`: nothing changes for a formula that depends on no touched
cell) mentions neither results nor links, so it is compared where none are kept:
for armA at each thing `set` may store (`SetsAreLocal`), for armT between
neighbours on the line of contents and for armK between what is stored and what
was before the last journal entry (`LastEditIsLocal` in `XlArms` and `XlEngine`).
In `xl_caches` the clock stands still; `advance_clock` of armK is held to
`ExactInvalidation` in `xl_edits` instead.

### Correspondence: interval sets

`list` is `_intervals` of the library the behaviour runs, `call`, `start` and `end`
the call it is in; `members` is the set of integers and no part of the code.
`new` is `(new_start, new_end)`.  `result` is what a loop appends to: `merged` of
armA's `add`, `result` of armB's, the new list of either `remove`; `skipped` and
`merged` are the lists of armB's `add`.  A turn of a loop is an action (`ScanA`,
`ScanB`, `CutA`, `CutB`; `OrderB` for the three `while` loops), and so is what comes
after it; the loop that finds the place of insertion is one with the insertion.

### Correspondence: subcut

`cues` is the list a caller holds.  `merging` is the arm whose `merge_overlapping()`
runs on it; `sorted` is its sorted copy (the stable sort is the one order by start
and then by place, `InOrder`), `turn` the cue its loop comes to, `joined` its list
`merged`.  `JoinA` and `JoinB` are one turn of the loop, `MergeEnds` returns.  The
times of a cue are any integers; its text is the sequence of the texts joined.

An SRT text grows by a line at a time, a line being one of the kinds the readers
tell apart.  `reader` is armA's loop: the cues it has, what the next line must be,
and whether it has raised.  `blocks` and `block` are what armB's `re.split` gives of
the lines so far.  `ParseA` and `ParseB` are what the two functions answer if the
text ends here.  `stamp` is a timestamp's text as its fields.

### Correspondence: parsers

A text is a sequence of tokens set apart by blanks, each token one of a kind of
token.  `Derived` is grammar R3 read as a set of derivations and knows nothing
of any parser; the recursive descent that seven parsers share is written once,
with the places where they differ as cases of their own (`NamedK`, `NamedS`,
`RangeArgT`, `Grouped`'s depth, ...); armB's operator precedence parser is apart.
The operators were compared with the programs on all texts of the bounds below
and some beyond, 180,000 in all, without a difference.

### Correspondence: scripts

`MutationSweep` has one step per statement that touches a file or runs the suite
(`Patch`, `Run`, `Restore`, `Recheck`), an `Interrupt` on the way out of which
`finally` runs, and a `Crash` on which it does not.  Python's bytecode cache,
which trusts a file of the same size written within the same second, is modelled
as external.  `SessionLoop` has the loop's four steps, an operator who kills and
launches it, and the clock.

## 3. Runs

| run | instance | question |
|---|---|---|
| `kv` | 2 keys, 2 values, 3 open transactions | do frames implement snapshots; does `commit()` end; are reads, counts and the value indexes exact in between; is the proof's inductive invariant one |
| `xl_history` | 2 sheets, relative formulas, cross-sheet names, 4 operations | do undo and redo walk one line; does every entry fit; does the reference workbook store the same; does `eval_count` survive a sheet that goes and comes back |
| `xl_caches` | armK: 3 cells of references, IF, SUM and division, with cycles; 2 sheets that refer to each other; 2 operations | do answers depend on the order of reads; is work repeated; does each step do to results and links what `ClosureLinks` does |
| `xl_edits` | armK: 3 cells, relative references, copies off the grid, texts over the limit, NOW() by cell and by name, also from a new workbook; 2 operations | the same for edits that reach a result by name, by clock and by copying |
| `gc_arms` | five v1 engines, a column of 4 cells with ranges, cycles, chains, diamonds, errors; any number of calls | where does each engine answer as it should, what does its dependency state promise; does armSN take the steps of `DirectLinks` and armA's bookkeeping those of `LazyLinks` |
| `xl_arms` | armT and armS, 2 sheets and a column with a name, clock and branch; 2 operations, a reload | the same for the two other workbooks; does armT's bookkeeping take the steps of `LazyLinks` |
| `small_parts` | see below | each of the small parts on its own |
| `xl_count_in_concat`, `xl_chain`, `xl_branch` | violations, armK | section 6 |
| `gc_hybrid_stale`, `xl_solo_stale` | violations, hybrid and armS | section 6 |

`small_parts` chooses at the start which part a behaviour is about: intervals in
0..5 (touching, overlapping, nested, equal ones all occur in two calls, four
make a list of three and one that spans them); every three cues with times in 0..2 (a cue may
end before it starts), merged by either arm and shifted by one, up to the time 3, in
any order; SRT texts of up to seven lines (two whole blocks); timestamps
with each field at and around its carries; quotients of numbers in -70..70 with
five bits of significand, which is exact up to 32 and not beyond, as a float's 53
bits are up to 2^53; formula texts of up to five tokens of plain arithmetic, four
of the v1 language and three of the workbook language, after one of four
beginnings (the beginning and a call of six tokens are one piece each, so that
texts go beyond twenty tokens); four mutations of two files, of which two share a file, one
changes its size, one hangs the suite; three sessions, two launches and three
hours.

Why the bounds of the engines are enough.  Stale results need one read, one edit
and a second read; a result two links away needs three cells; an edit that can be
undone past another needs two operations, and the runs read at every point
between them in every order, because `Get` of every cell is always enabled.
Loops of length one, two and three, shared operands and branches that are not
taken all occur.  In `xl_history` four operations are the least that add a sheet,
define a name to it, overwrite the name and set a cell, before any of it is
undone.  In `kv` a transaction within a transaction is enough to tell the
innermost frame from the outermost, and a third one from either.  `gc_arms` bounds
no operation: its texts are a finite set, so all sequences of calls are covered.
In `MCXlArms` and `MCXlEngine`, `Confined` keeps each of two instances to the
texts and sheets it is about; undo and redo go wherever the engine takes them.

Every property has a mutant: an operator beside the original, marked `Mutant:`
or as the slip of a mutation, that changes it as a plausible slip in that code
would, and for which TLC finds the property violated.

### Fairness

`kv` assumes weak fairness of the steps of `commit()`: they are a loop inside one
call of a single-threaded library that is never suspended.  `small_parts` assumes
weak fairness of the steps of a mutation driver (`DriverGoesOn`): its loop is a
process of its own and the suite it waits for has a timeout.  It assumes nothing
of the operator: who kills a driver may leave it killed, which is an end too
(`SweepComesToItsEnd`).  Nothing is said about the end of the session loop, whose
agent has no timeout.  Nothing else has a step the program takes by itself:
clients call or do not.

## 4. Properties

The engines.  All are compared with `NaiveCell`/`NaiveGet`, a recomputation from
contents alone.

- `AnswersAreNaive`: in every reachable state a `get` of any cell, with whatever
  the caches hold, gives what the recomputation gives.  In `xl_caches` and
  `xl_edits` of armK without exception; in `gc_arms` and `xl_arms` wherever
  `Comparable` holds the engine to it, which for armSN, armA and armT is always.
  `EveryAnswerNaive` is the same with no exception, and what the findings break.
- `LinksAreCurrent`: what an engine stored about dependencies before the last
  edits describes the *present* contents: armK's closures are least fixed points
  and the reverse links their exact inverse, armT's links are the references of
  cached formulas, armSN's two directions mirror each other, armA never lacks a
  link, what armT and armA evaluated for a result has one too, armB's and hybrid's sets are those it would find now.
- `ExactInvalidation`, `EditBounds`: an edit, undo or redo drops the results that
  have what it touches in their closure and no others, whatever path leads there;
  in armT up to formulas between them that were never computed.
- `KeepsTheBooks`, and parts of the two items above: the engines do to results and
  links what the bookkeeping modules do, about which section 5 has theorems.
- `NoNeedlessWork`, `StartsOnlyNeeded`: a formula cell is started at most once
  per `get`, only in the closure and only when not cached.
- `WalksTheLine`: undo and redo of armT and armS go along the line of contents.
- `ConfinedDamage`, `ConfinedStaleness`: the guarantees above for a cell whose
  own evaluation is within bounds, when others are not.  armK breaks both.

Workbook and kvtx: `HistoryInv`, `AlwaysWellFormed`, `ImplementsTimeLine`,
`ReferenceAgrees`, `SavedIsLast`, `CountsNeverDrop`; `ImplementsSnapshots`,
`CommitKeepsView`, `CommitTerminates`, `ReadsTop`, `CountIsExact`,
`IndexIsExact`.  Proved ones are described below.

The small parts.

- `ListsAreTheRuns`: the interval list of either arm is the maximal runs of the set
  of integers the calls describe, in order, and `contains` is its membership.
- `MergeIsChains`: after each turn of either `merge_overlapping` its list has one
  cue for each chain of strictly overlapping cues among those walked, with the
  chain's span, the index of its first cue and the texts in order; cues already
  merged merge to themselves; and the merged list shifted is the shifted list
  merged, where no time is clamped to zero.  A chain is defined on all cues walked
  (a cue opens one if no cue before it ends later than it starts), not on the last
  merged one, which is all the code looks at.
- `ReadersAgree`: after every line the two SRT readers accept the same text and read
  the same cues, but for the kinds of lines section 6 lists; timestamps survive
  format and parse.
- `DivisionExactness`: `int(left / right)` is the quotient cut towards zero for
  operands within a significand, and fails from the first odd number beyond.
- `ParsersReadTheGrammar`, `XlParsersReadTheGrammar`: section 6 lists what they
  except.
- `VerdictsAreTrue`: a verdict of a guarded driver is the suite's answer to the
  tree with that one mutation in it, whatever ran in the same second before.
- `SourceRestored`, `SweepComesToItsEnd`: in any end but a kill the files are
  what they were; every sweep ends.
- `LoopIsHonest`: a loop stops on `<DONE>` only if a session of this launch said
  so, and each session that ended has one snapshot.

## 5. Proofs

`KvProofs`.  From `KvOverlay`'s constants alone.  The inductive invariant
`GhostInv` says that each frame is the difference between two neighbouring
snapshots, and during `commit()` that the base equals the next snapshot on the
items merged and the previous one elsewhere.  Neither could be dropped: the
refinement maps a frame to a snapshot, and a half-merged base is no snapshot at
all.  From it follow `GhostInvariant`, `ReadsAreExact` (the value a read returns
is the top snapshot's, half way through a commit too), `CountsAreExact`,
`Refinement` (every step is a step of `KvTx` or a stutter), `IndexAlwaysExact`
and `IndexTyped` (an entry is deleted with its last key).

`XlProofs`.  From `XlContents`' assumptions: sentinels are no contents, targets
name sheets, `copy()` stores a storable text.  `HistoryInv` says that journal and
redo stack, taken together and the second read backwards, are a chain: entry `i`
is the difference between points `i` and `i + 1` of a line of contents, every
point is well formed (creation order enumerates the sheets once, no name
dangles), and the workbook stands on the line at the length of the journal.  The
chain is what makes undo of an old entry safe: each entry meets the very contents
it was recorded in.  `TypeCorrect`, `HistoryInvariant`, `WorkbookWellFormed` and
`UndoRedoRefinement` follow, for any number of sheets, cells, names and
operations.

`XlTwinsProofs`, counters.  The count saved when undo takes a sheet away is its
last (`SavedAlwaysLast`), hence no count drops (`NoCountDrops`).  The invariant is
inductive because only undo takes a sheet away: a redo or a new `add_sheet` finds
`_eval_counts` as that undo left it.  `from_json` makes another workbook, whose
counts start again.

`XlTwinsProofs`, twins.  After any sequence of calls armK and the graders'
reference workbook store the same (`ReferenceStoresTheSame`), from the same
assumptions as `XlProofs`.  Contents alone are not inductive, since the two keep
different entries: armK's has what was before and derives the rest, the
reference's has both.  The invariant adds that the reference's two stacks are
armK's seen through `EntryOf`, entry by entry, and `HistoryInv`, without which an
undo that the one takes the other might refuse.  `TwinsKeepTheRest` carries the
invariants of `XlHistory` and `XlCounters` over to the composition.

`XlTwinsProofs`, lines.  Undo and redo of armT and armS walk a line of contents
(`LineAlwaysWalked`, the property `WalksTheLine` of the run `xl_arms`), for any
number of sheets, cells and operations, from the assumptions of `XlProofs`.

- armT drops the cells it makes blank and creates them again, but what it stores
  and journals at each call is what armK does (`ThinStoresAsThick`), so its
  workbook keeps `HistoryInv` and implements `TimeLine` (`ThinWalksTimeLine`).
- armS is another machine: a reapplied copy stores what its source holds *now*,
  and a reapplied `advance_clock` sets the clock to what it was *before*.  That it
  retraces its line all the same needs two things of the entries, seen along the
  line (`SoloInv`).  A copy's entry names its source, and when it is reapplied the
  workbook stands at the point where it was made, where the source holds what it
  held then.  The clock may lag behind the point the workbook stands at
  (`StandsS` leaves it out), and `ClockFits` bounds it from both sides: it is not
  behind what any `advance_clock` done so far had found, and not ahead of any
  point from here to the next `advance_clock`.  The second alone is the property,
  but a redo keeps it only because what the reapplied call had found is not ahead
  of the points after it, which a call made with a lagging clock must preserve
  (`ClockLine`).

`ClosureLinks`, `DirectLinks`, `LazyLinks`.  Each implements `Memo` and so keeps
no stale result, for any set of cells, contents, edits and reads:

- `ClosuresAreCurrent`, `ClosureLinksImplementMemo`, `ClosureLinksAreCoherent`.
  The invariant is that a kept result has its present closure and the links are
  those of the closures; then one link leads to exactly what an edit is below.
- `LinksAlwaysMirror`, `DirectLinksImplementMemo`, `DirectLinksAreCoherent`.  The
  links mirror the references, so what an edited cell leads to over them is what
  has it in its closure; and, because a closure without the cell is the same
  before and after, it does not matter that they are followed before the new
  formula is linked.
- `LinksAlwaysSuffice`, `LazyLinksImplementMemo`, `LazyLinksAreCoherent`.  Here
  links are missing: a formula that was never computed has none, nor has one under
  a branch not taken, and the walk stops at cells without a result.  The
  invariant is that a result is linked from all its computation read, and that
  what it evaluated has a result itself or reads nothing.  With it the cells
  outside the walk that have a result, or read nothing, are closed under what is
  evaluated; so what a kept result was computed from lies outside the walk
  altogether, and an edit inside changes nothing for it.  The promise is
  `SafeSpec`, not `Spec`: links of results given up long ago may lead a walk to
  results that did not change.

These are theorems about the bookkeeping.  That an engine takes such steps is
checked by TLC (section 2, bookkeeping), because evaluation recurses.

`KvProofs` also has `CommitViewKept`: while `commit()` is half way, no key reads as
anything but what its client saw before and will see after.

`SmallProofs`, sweeps.  From the two assumptions on the list of mutations.  The
invariant (`SweepInvariant`) is that while a mutation is in the tree it is the
only change, and what the driver read of its file before is what `finally` writes
back; and for the guarded drivers that what Python executes is the source.
`AlwaysRestored` and `TrueVerdicts` follow, for any list of mutations, any suite,
any timing of kills and restarts.

`SmallProofs`, session loop.  `LoopStaysHonest`: for any number of sessions a
launch may have (`MAX_SESSIONS \in Nat`), any deadline and any kills, a loop stops
on `<DONE>` only if a session of its own launch said so, and snapshots are one to
each session that ended.

`SmallProofs`, division.  `DivisionIsExact`: for any precision, `int(left / right)`
is exact for each dividend of up to `2^Precision` and each divisor of up to
`2^(3 * Precision)`, and fails for `2^Precision + 1`.  The engines take operands
below 2^63, so with floats of 53 bits the second bound is no restriction; TLC has
`Precision = 5`.  The argument is that the exact quotient, scaled to a
significand, lies so far below the next multiple of the scale that rounding does
not reach it (`NoCarry`): it would need a remainder of half a divisor that is
itself at least twice the scale, and then the dividend is `2^Precision` and the
remainder nothing.  `Pow2` is a recursive function, whose existence
and laws are proved by the least counterexample (`Pow2Is`, `PowersMultiply`).

`SmallProofs`, interval sets.  `AlwaysTheRuns`, for any integers and any number of
calls (from `Points \subseteq Int`), and `AlwaysMaximal`: the intervals a list holds
are exactly those maximal intervals, so both arms hold the same.  A loop over a
list would be an induction over data; with a step of the specification for each
turn it is an invariant of the specification like any other (`IntervalInvariant`),
and what it says inside a call are the loop invariants the code leaves unsaid:

- in `remove()`, `result` covers what the loop has passed less the call's range;
- in `add()`, what is built, together with the interval that grows, covers what
  the loop has passed and the call's range, and nothing built touches it;
- armB (`AddInvB`) moreover: nothing is in `merged` yet when an interval is skipped
  or joined, so `skipped` lies before `merged` and the comparison of their heads
  never has to choose `merged` first;
- armA (`AddInvA`) compares each interval with the call's own bounds and not with
  those that have grown.  That is right only because the list is in order with
  gaps: once the interval has grown to the left, what follows begins after the
  call's start, and once to the right, what follows is beyond it.

`SmallProofs`, timestamps.  `EveryStampRoundTrips` and `EveryTimeRoundTrips`: in
both subcut arms reading what was written gives the same time back, and writing
what was read the same stamp, for every time and every number of hours; TLC has
them at the carries only.  They are arithmetic of quotients and remainders.

`SmallProofs`, subcut merging.  `MergeAlwaysChains`, from `CuesAssumption` and
`DeltasAssumption`: for any cues with integer times, any shifts and any number of
merges.  The invariant (`MergeInvariant`) is that the merged list, `turn` by `turn`,
is the chains of the cues walked.  Its heart is `OpensWhen`: because the cues are in
order of start, a cue opens a chain just when it starts no earlier than the *last*
merged cue ends, since every cue of an earlier chain ends no later than the last
chain's head starts (without the sort the comparison would not be enough).  From the same order,
`min(prev.start, cue.start)` of armB is `prev.start` of armA (`BothJoin`).  That a
list can be sorted at all is by insertion (`SomeOrder`); the joined texts are a
recursive function, whose existence is by the least counterexample (`ToldIs`); and a
shift that clamps nothing moves neither the order nor the chains (`ChainedShifts`).

`SmallProofs`, subcut readers.  `ReadersAlwaysAgree`, from `StampsAssumption`: for
texts of any number of lines.  The invariant (`ReadersInvariant`) ties two ways of
reading that share nothing: armA's cues are one for each block of armB, what armA
wants next is how far the last block has come, and armA has refused just when some
block is past saving.  The proof found an error of the model: the `CASE` of
`ReadLine` had arms that overlapped once a text was refused, and TLC took the first
where TLA+ allows any; a reader that has raised now stays as it is.

Only model-checked, and why:

- `CommitTerminates` and `SweepComesToItsEnd`: liveness, out of the prover's reach.
- `AnswersAreNaive`, `NoNeedlessWork`, `ExactInvalidation`, `EditBounds` and the
  ties above: they speak of evaluation, closures and trees, which are recursive
  operators.  `ParsersReadTheGrammar` and `XlParsersReadTheGrammar` likewise.

## 6. Where the code departs from its specification

`gridcalc-xl/SPEC.md` and the v1 `spec.md` are quoted in the findings of
`PROJECT.json`, which have a run each:

- *COUNT in CONCAT or LEN* (armK `formula.py:1330`, `:1354`): `resolve_count_ref`
  is not passed down, so the counted cells are evaluated; in a loop the answer of
  a cell depends on which was read first (`xl_count_in_concat`).
- *Limit cached* (armK `workbook.py:742`): the cell at which an evaluation runs
  over the limit keeps `#PARSE!` as its own result (`xl_chain`).
- *Closure cut off* (armK `workbook.py:916`): members beyond the limit are not
  linked, so a result within bounds survives an edit of what it read
  (`xl_branch`).
- *Results on the way* (hybrid `sheet.py:117`): cached without a closure, they are
  not dropped (`gc_hybrid_stale`).
- *copy, undo, redo of armS* (`sheet.py:365`): drop the result of the cell they
  write and of no cell that depends on it (`xl_solo_stale`).

Met on the way, modelled as the code has them, and excepted by name in the
properties (no run of their own):

- armK: the limit counts a cached result's closure again (`workbook.py:756`), so
  shared operands exhaust it; `int(left / right)` goes through a float.
- armB v1: of a range only the corners are dependencies.  rerun: an evaluation
  marks every cell it passes clean, also for cells whose results it does not
  renew.  armB and rerun report another error than the specified one for some
  erring formulas.
- armS: `add_sheet`, `undo`, `redo`, `define_name` drop too little;
  `define_name` is not journaled; `redo` of `advance_clock` gives the old clock;
  `redo` of a copy copies what the source holds now; qualified names are `#REF!`
  or nothing; COUNT of an unbound name is 0, other aggregates of it `#TYPE!`;
  empty members of a range are 0; an overflow is `#TYPE!`.
- armT: after an undone `add_sheet` links to the sheet stay, so that later edits
  may drop a result they do not reach.
- Parsers.  armA takes a malformed word for the end (`=1 foo` is 1).  armB gives
  comparisons the tightest precedence and unary minus the loosest (`=1+2<4` is 2,
  `=-1+2` is -3), refuses a minus after a call (`=SUM(A1:A2)-1`) or takes it for
  unary, and accepts some operands side by side (`=1(2)+`).  hybrid refuses
  parentheses nested deeper than 32 (its own rule).  armK takes a function's name
  without parentheses, or a mixed-case word, for a NAME, counts parentheses inside
  strings (`=LEN(")")` is refused), accepts `S1! !A1`, `$A1!A1`, a qualified range
  as a primary and `#REF!:A1`, and leaves the number of LEN's and CONCAT's
  arguments to the evaluator, so a wrong one in a branch not taken passes.  armT
  accepts a NAME as the end of a range.  armS accepts words of any case as NAMES,
  a range as a primary, `SUM(A1)` and a stray `$`, and refuses `A$1`, marked
  ranges and marked qualified references.
- subcut: armB strips the lines of a cue's text and refuses an index written `+1`.
- `mutate_xl.py` says it refuses to run when a site is not found, but reports
  `SITE NOT FOUND` and goes on; it and the v1 `mutate.py`, `mutate2.py` lack the
  guard against stale bytecode that `_pytest()` of the lineage drivers has.  A
  mutation that a killed driver left and the suite survives is not noticed by the
  next driver's baseline; its verdicts are then about that tree
  (`VerdictsAreTrue` speaks of the tree the driver was started on).

The findings with a run, and the v1 and parser departures, were also observed by
running the code.

## 7. Not modelled, and why

- How characters group into tokens, and number and string formats: the parsers
  start from tokens set apart by blanks.  The bounds on the length and depth of a
  text are a mark on the text in the engine modules, and in `Parsers` hybrid's
  depth alone, with 1 for its 32.
- Type and address validation: rejections without effect.
- armT: a string literal that spells an error and is taken for it.
- armS: handles kept from before an undo of their `add_sheet()`; its `eval_count`.
- A crash in the middle of writing a file.
- Oracles and trajectory graders (straight-line tests, input and output), the
  supervise and resume scripts (one command each), sessions, logs, documents.

## 8. Plan

All components with state of their own are modelled.  What is left to do, in order
of worth: theorems about what armB, hybrid and rerun can be held to, in the
manner of `ClosureLinks` (a result whose stored closure is its own is dropped when
it must be); handles of armS that outlive their sheet; the lexers.
