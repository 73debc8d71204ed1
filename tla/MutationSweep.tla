--------------------------- MODULE MutationSweep ---------------------------
(***************************************************************************)
(* The drivers that grade a test suite by mutations of the code it tests:  *)
(* patch a file, run the suite, restore the file.  "lineage" is            *)
(* mutate_lineage.py, "sweep" sweep_lineage.py, "xl" mutate_xl.py and, but *)
(* for the wording, mutate.py and mutate2.py.  Python itself, which may    *)
(* run the bytecode it cached for a file instead of the file, is external. *)
(***************************************************************************)
EXTENDS Integers

CONSTANTS
    Paths,                    \* the source files of the arm
    SpecCount, SpecPath,      \* the mutations, in order, and the file of each
    Killed, Hangs,            \* those the suite fails on, and those it hangs on
    Resized,                  \* those that change the size of their file
    MaxSecond                 \* bound on the clock

ASSUME SpecCountAssumption == SpecCount \in Nat
ASSUME SpecPathAssumption == SpecPath \in [1 .. SpecCount -> Paths]

VARIABLES
    driver,                   \* the script that is running
    step, next,               \* its next step, and its next entry of SPECS
    src,                      \* the file it read before it patched it
    source, mtime,            \* mutations in each file, and the second it was written
    bytecode,                 \* what Python cached: [of, mtime, size], or None
    verdicts,                 \* what the driver finds of each mutation
    second,
    restarted,                \* was a driver started after one was killed?
    began                     \* the files when the driver was started (for the properties)

sweepVars == << driver, step, next, src, source, mtime, bytecode, verdicts, second,
                restarted, began >>

Specs == 1 .. SpecCount
None == [of |-> {}, mtime |-> -1, size |-> {}]      \* no file is as old
Unjudged == [s \in Specs |-> "-"]

----------------------------------------------------------------------------
(*                  The suite, as Python runs it (external)                *)

\* The environment and the removal of every __pycache__ in _pytest().
CachesKept == FALSE       \* the slip of a mutation
CachesDropped == driver \in {"lineage", "sweep"}

Size(mutations) == mutations \cap Resized

\* Cached bytecode is taken for the file when second and size are the same.
Executed(p) ==
    IF /\ ~ CachesDropped
       /\ bytecode[p].mtime = mtime[p] /\ bytecode[p].size = Size(source[p])
    THEN bytecode[p].of ELSE source[p]

Answer(running) ==
    LET mutations == UNION {running[p] : p \in Paths}
    IN IF mutations \cap Hangs # {} THEN "TIMEOUT"
       ELSE IF mutations \cap Killed # {} THEN "KILLED" ELSE "SURVIVED"

Result == Answer([p \in Paths |-> Executed(p)])

Suite ==
    bytecode' = [p \in Paths |->
        IF CachesDropped THEN None
        ELSE [of |-> Executed(p), mtime |-> mtime[p], size |-> Size(source[p])]]

----------------------------------------------------------------------------
(*                              The driver                                 *)

SweepInit ==
    /\ driver \in {"lineage", "sweep", "xl"}
    /\ step = "start" /\ next = 1 /\ src = {}
    /\ source = [p \in Paths |-> {}] /\ mtime = [p \in Paths |-> 0]
    /\ bytecode = [p \in Paths |-> None]
    /\ verdicts = Unjudged /\ second = 0 /\ restarted = FALSE
    /\ began = source

Rechecks == driver # "xl"

\* A driver that rechecks wants the suite green to begin with; a suite that
\* takes too long ends it like one that fails.
Baseline ==
    /\ step = "start"
    /\ IF Rechecks THEN Suite ELSE UNCHANGED bytecode
    /\ step' = IF Rechecks /\ Result # "SURVIVED" THEN "aborted" ELSE "patch"
    /\ UNCHANGED << driver, next, src, source, mtime, verdicts, second, restarted, began >>

Write(p, mutations) ==
    /\ source' = [source EXCEPT ![p] = mutations]
    /\ mtime' = [mtime EXCEPT ![p] = second]

\* A driver that was killed may have left the mutation in its file.
SiteFound == next \notin source[SpecPath[next]]

\* The slip of a mutation: the loop does not go on.
SkipSiteForever ==
    /\ step = "patch" /\ next <= SpecCount /\ ~ SiteFound
    /\ verdicts' = [verdicts EXCEPT ![next] = "SITE NOT FOUND"]
    /\ UNCHANGED << driver, step, next, src, source, mtime, bytecode, second, restarted, began >>

SkipSite ==
    /\ step = "patch" /\ next <= SpecCount /\ ~ SiteFound
    /\ verdicts' = [verdicts EXCEPT ![next] = "SITE NOT FOUND"]
    /\ next' = next + 1
    /\ UNCHANGED << driver, step, src, source, mtime, bytecode, second, restarted, began >>

Patch ==
    /\ step = "patch" /\ next <= SpecCount /\ SiteFound
    /\ src' = source[SpecPath[next]]
    /\ Write(SpecPath[next], src' \cup {next})
    /\ step' = "run"
    /\ UNCHANGED << driver, next, bytecode, verdicts, second, restarted, began >>

\* Only sweep_lineage.py makes a verdict of a timeout; the others are left by
\* the exception, through finally.
Run ==
    /\ step = "run"
    /\ Suite
    /\ IF Result = "TIMEOUT" /\ driver # "sweep"
       THEN step' = "unwind" /\ UNCHANGED verdicts
       ELSE step' = "restore" /\ verdicts' = [verdicts EXCEPT ![next] = Result]
    /\ UNCHANGED << driver, next, src, source, mtime, second, restarted, began >>

\* Ctrl-C while the suite runs.
Interrupt ==
    /\ step \in {"start", "run", "recheck"}
    /\ step' = IF step = "run" THEN "unwind" ELSE "aborted"
    /\ UNCHANGED << driver, next, src, source, mtime, bytecode, verdicts, second, restarted, began >>

AfterRestore ==
    /\ step' = IF step = "unwind" THEN "aborted" ELSE IF Rechecks THEN "recheck" ELSE "patch"
    /\ next' = IF step = "restore" /\ ~ Rechecks THEN next + 1 ELSE next
    /\ UNCHANGED << driver, src, bytecode, verdicts, second, restarted, began >>

\* Without finally: the slip of a mutation.
RestoreIfNoException ==
    /\ step \in {"restore", "unwind"}
    /\ IF step = "restore" THEN Write(SpecPath[next], src) ELSE UNCHANGED << source, mtime >>
    /\ AfterRestore

Restore ==
    /\ step \in {"restore", "unwind"}
    /\ Write(SpecPath[next], src)
    /\ AfterRestore

Recheck ==
    /\ step = "recheck"
    /\ Suite
    /\ IF Result # "SURVIVED" THEN step' = "aborted" /\ next' = next
                              ELSE step' = "patch" /\ next' = next + 1
    /\ UNCHANGED << driver, src, source, mtime, verdicts, second, restarted, began >>

Done ==
    /\ step = "patch" /\ next > SpecCount
    /\ step' = "done"
    /\ UNCHANGED << driver, next, src, source, mtime, bytecode, verdicts, second, restarted, began >>

DriverStep == Baseline \/ SkipSite \/ Patch \/ Run \/ Restore \/ Recheck \/ Done

----------------------------------------------------------------------------
(*                            The environment                              *)

Ended == step \in {"done", "aborted", "killed"}

\* The process is killed and no finally runs.
Crash ==
    /\ ~ Ended /\ ~ restarted
    /\ step' = "killed"
    /\ UNCHANGED << driver, next, src, source, mtime, bytecode, verdicts, second, restarted, began >>

\* This driver or another is started on the tree a killed one left.
Restart ==
    /\ step = "killed" /\ restarted' = TRUE
    /\ driver' \in {"lineage", "sweep", "xl"}
    /\ step' = "start" /\ next' = 1 /\ src' = {} /\ verdicts' = Unjudged /\ began' = source
    /\ UNCHANGED << source, mtime, bytecode, second >>

Second ==
    /\ ~ Ended /\ second < MaxSecond /\ second' = second + 1
    /\ UNCHANGED << driver, step, next, src, source, mtime, bytecode, verdicts, restarted, began >>

SweepNext == DriverStep \/ Interrupt \/ Crash \/ Restart \/ Second

SweepSpec == SweepInit /\ [][SweepNext]_sweepVars /\ WF_sweepVars(DriverStep)

----------------------------------------------------------------------------
(*                               Properties                                *)

SweepTypeOK ==
    /\ driver \in {"lineage", "sweep", "xl"}
    /\ step \in {"start", "patch", "run", "restore", "unwind", "recheck",
                 "done", "aborted", "killed"}
    /\ next \in Nat /\ next >= 1 /\ src \subseteq Specs
    /\ source \in [Paths -> SUBSET Specs] /\ began \in [Paths -> SUBSET Specs]
    /\ verdicts \in [Specs -> {"-", "SITE NOT FOUND", "KILLED", "SURVIVED", "TIMEOUT"}]

\* While a mutation is in, it is the only change to the tree the driver was
\* started on, and src holds what restoring its file takes.
OneMutationIn ==
    step \in {"run", "restore", "unwind"} =>
        /\ next \in Specs
        /\ src = began[SpecPath[next]]
        /\ source = [began EXCEPT ![SpecPath[next]] = src \cup {next}]

\* Every verdict of mutate_lineage.py and sweep_lineage.py is the suite's
\* answer to the tree the driver was started on with that one mutation in it,
\* whatever ran before and however fast: no cached bytecode of an earlier
\* mutation is graded in its place.
VerdictsAreTrue ==
    Rechecks => \A s \in Specs : verdicts[s] \in {"KILLED", "SURVIVED", "TIMEOUT"} =>
        verdicts[s] = Answer([began EXCEPT ![SpecPath[s]] = @ \cup {s}])

\* Between two mutations, and when a driver has ended in any way but by being
\* killed, the files are those it was started on: a failing suite, a timeout
\* and an interrupt restore them too.
SourceRestored ==
    step \in {"start", "patch", "recheck", "done", "aborted"} => source = began

\* A driver comes to its end: a timeout bounds every run of the suite.
SweepEnds == []<> Ended
=============================================================================
