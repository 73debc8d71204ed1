---------------------------- MODULE SmallProofs ----------------------------
(***************************************************************************)
(* The mutation drivers restore what they patch and grade one mutation at  *)
(* a time, for any list of mutations, any suite and any timing; the        *)
(* session loop stops on a declaration of its own; both subcut libraries   *)
(* read and write the same timestamps, however many hours, read the same   *)
(* cues from any lines and merge the chains of any cues; the engines'      *)
(* division through a float is exact where it can be; and the intervals of *)
(* either interval set are the maximal ones of its members.                *)
(***************************************************************************)
EXTENDS MutationSweep, SessionLoop, Subcut, FloatDivision, IntervalSet, ProofLemmas

SweepInv == SweepTypeOK /\ OneMutationIn /\ SourceRestored

(***************************************************************************)
(* Putting the old contents of a file back restores the tree.              *)
(***************************************************************************)
LEMMA PutFileBack ==
  ASSUME NEW S, NEW f \in [Paths -> S], NEW p \in Paths, NEW v
  PROVE  [[f EXCEPT ![p] = v] EXCEPT ![p] = f[p]] = f
OBVIOUS

(***************************************************************************)
(* The suite answers with one of its three verdicts.                       *)
(***************************************************************************)
LEMMA AnswerType ==
  ASSUME NEW running PROVE Answer(running) \in {"TIMEOUT", "KILLED", "SURVIVED"}
BY DEF Answer

(***************************************************************************)
(* Type correctness, the one mutation that is in and the restored files,   *)
(* together.                                                               *)
(***************************************************************************)
THEOREM SweepInvariant == SweepSpec => []SweepInv
<1> USE SpecCountAssumption, SpecPathAssumption
<1>1. SweepInit => SweepInv
  BY DEF SweepInit, SweepInv, SweepTypeOK, OneMutationIn, SourceRestored, Unjudged, Specs
<1>2. SweepInv /\ [SweepNext]_sweepVars => SweepInv'
  <2> SUFFICES ASSUME SweepInv, [SweepNext]_sweepVars PROVE SweepInv'
    OBVIOUS
  <2> USE DEF SweepInv
  <2>0. \A s \in Specs : SpecPath[s] \in Paths
    BY DEF Specs
  <2>0a. next \in Nat /\ next >= 1
    BY DEF SweepTypeOK
  <2>0b. next <= SpecCount => next \in Specs
    BY <2>0a DEF Specs
  <2>1. CASE Baseline
    BY <2>1 DEF Baseline, SweepTypeOK, OneMutationIn, SourceRestored
  <2>2. CASE SkipSite
    <3>1. next \in Specs /\ next' = next + 1
      BY <2>2, <2>0b DEF SkipSite
    <3>1a. next' \in Nat /\ next' >= 1
      BY <3>1, <2>0a
    <3> QED BY <2>2, <3>1, <3>1a DEF SkipSite, SweepTypeOK, OneMutationIn, SourceRestored
  <2>3. CASE Patch
    <3>1. next \in Specs /\ SpecPath[next] \in Paths /\ source = began
      BY <2>3, <2>0, <2>0b DEF Patch, SourceRestored
    <3>2. src' = source[SpecPath[next]] /\ src' \subseteq Specs
      BY <2>3, <3>1 DEF Patch, SweepTypeOK
    <3>3. source' = [source EXCEPT ![SpecPath[next]] = src' \cup {next}]
      BY <2>3 DEF Patch, Write
    <3>4. source' \in [Paths -> SUBSET Specs]
      BY <3>1, <3>2, <3>3 DEF SweepTypeOK
    <3> QED BY <2>3, <3>1, <3>2, <3>3, <3>4 DEF Patch, SweepTypeOK, OneMutationIn, SourceRestored
  <2>4. CASE Run
    <3>1. Result \in {"TIMEOUT", "KILLED", "SURVIVED"}
      BY AnswerType DEF Result
    <3>2. verdicts' \in [Specs -> {"-", "SITE NOT FOUND", "KILLED", "SURVIVED", "TIMEOUT"}]
      BY <2>4, <3>1 DEF Run, SweepTypeOK
    <3> QED BY <2>4, <3>2 DEF Run, SweepTypeOK, OneMutationIn, SourceRestored
  <2>5. CASE Restore
    <3>1. next \in Specs /\ SpecPath[next] \in Paths
      BY <2>5, <2>0 DEF Restore, OneMutationIn
    <3>2. source' = began
      <4>1. source' = [[began EXCEPT ![SpecPath[next]] = src \cup {next}]
                          EXCEPT ![SpecPath[next]] = began[SpecPath[next]]]
        BY <2>5 DEF Restore, Write, OneMutationIn
      <4>2. began \in [Paths -> SUBSET Specs]
        BY DEF SweepTypeOK
      <4> QED BY <3>1, <4>1, <4>2, PutFileBack
    <3>3. /\ step' \in {"aborted", "recheck", "patch"} /\ next' \in Nat /\ next' >= 1
          /\ UNCHANGED << driver, src, verdicts, began >>
      <4>1. step' = "aborted" \/ step' = "recheck" \/ step' = "patch"
        BY <2>5, Zenon DEF Restore, AfterRestore
      <4>2. next' = next + 1 \/ next' = next
        BY <2>5, Zenon DEF Restore, AfterRestore
      <4>3. UNCHANGED << driver, src, verdicts, began >>
        BY <2>5 DEF Restore, AfterRestore
      <4> QED BY <4>1, <4>2, <4>3, <2>0a
    <3> QED BY <3>2, <3>3 DEF SweepTypeOK, OneMutationIn, SourceRestored
  <2>6. CASE Recheck
    <3>1. \/ step' = "aborted" /\ next' = next
          \/ step' = "patch" /\ next' = next + 1
      BY <2>6 DEF Recheck
    <3>1a. next' \in Nat /\ next' >= 1
      BY <3>1, <2>0a
    <3>2. UNCHANGED << driver, src, source, verdicts, began >> /\ source = began
      BY <2>6 DEF Recheck, SourceRestored
    <3> QED BY <3>1, <3>1a, <3>2 DEF SweepTypeOK, OneMutationIn, SourceRestored
  <2>7. CASE Done
    BY <2>7 DEF Done, SweepTypeOK, OneMutationIn, SourceRestored
  <2>8. CASE Interrupt
    BY <2>8 DEF Interrupt, SweepTypeOK, OneMutationIn, SourceRestored
  <2>9. CASE Crash
    BY <2>9 DEF Crash, SweepTypeOK, OneMutationIn, SourceRestored
  <2>10. CASE Restart
    <3>1. /\ driver' \in {"lineage", "sweep", "xl"}
          /\ step' = "start" /\ next' = 1 /\ src' = {}
          /\ began' = source /\ source' = source
      BY <2>10 DEF Restart
    <3>2. verdicts' \in [Specs -> {"-", "SITE NOT FOUND", "KILLED", "SURVIVED", "TIMEOUT"}]
      BY <2>10 DEF Restart, Unjudged
    <3>3. source' \in [Paths -> SUBSET Specs] /\ began' \in [Paths -> SUBSET Specs]
      BY <3>1 DEF SweepTypeOK
    <3>4. SweepTypeOK'
      <4>1. next' \in Nat /\ next' >= 1
        BY <3>1
      <4> QED BY <3>1, <3>2, <3>3, <4>1 DEF SweepTypeOK
    <3> QED BY <3>1, <3>4 DEF OneMutationIn, SourceRestored
  <2>11. CASE Second
    BY <2>11 DEF Second, SweepTypeOK, OneMutationIn, SourceRestored
  <2>12. CASE UNCHANGED sweepVars
    BY <2>12 DEF sweepVars, SweepTypeOK, OneMutationIn, SourceRestored
  <2> QED
    BY <2>1, <2>2, <2>3, <2>4, <2>5, <2>6, <2>7, <2>8, <2>9, <2>10, <2>11, <2>12
    DEF SweepNext, DriverStep
<1> QED BY <1>1, <1>2, PTL DEF SweepSpec

(***************************************************************************)
(* Whatever ends a driver but a kill leaves the tree it was started on.    *)
(***************************************************************************)
THEOREM AlwaysRestored == SweepSpec => []SourceRestored
<1>1. SweepInv => SourceRestored
  BY DEF SweepInv
<1> QED BY <1>1, SweepInvariant, PTL

(***************************************************************************)
(* A driver that drops the caches runs the files as they are.              *)
(***************************************************************************)
LEMMA GuardedResult ==
  ASSUME CachesDropped, SweepTypeOK
  PROVE  Result = Answer(source)
<1>1. [p \in Paths |-> Executed(p)] = source
  BY DEF Executed, SweepTypeOK
<1> QED BY <1>1 DEF Result

(***************************************************************************)
(* Every verdict of the guarded drivers is that of the one mutation.       *)
(***************************************************************************)
THEOREM TrueVerdicts == SweepSpec => []VerdictsAreTrue
<1> USE SpecCountAssumption, SpecPathAssumption
<1> DEFINE Alone(s) == [began EXCEPT ![SpecPath[s]] = @ \cup {s}]
<1>1. SweepInit => VerdictsAreTrue
  BY DEF SweepInit, VerdictsAreTrue, Unjudged
<1>2. SweepInv /\ VerdictsAreTrue /\ [SweepNext]_sweepVars => VerdictsAreTrue'
  <2> SUFFICES ASSUME SweepInv, VerdictsAreTrue, [SweepNext]_sweepVars
               PROVE  VerdictsAreTrue'
    OBVIOUS
  <2>1. CASE Run
    <3> SUFFICES ASSUME Rechecks', NEW s \in Specs,
                        verdicts'[s] \in {"KILLED", "SURVIVED", "TIMEOUT"}
                 PROVE  verdicts'[s] = Answer(Alone(s))
      <4>1. began' = began
        BY <2>1 DEF Run
      <4> QED BY <4>1 DEF VerdictsAreTrue, Answer
    <3>1. Rechecks /\ CachesDropped /\ SweepTypeOK
      BY <2>1 DEF Run, Rechecks, CachesDropped, SweepInv, SweepTypeOK
    <3>2. CASE verdicts' = verdicts
      BY <3>1, <3>2 DEF VerdictsAreTrue
    <3>3. CASE verdicts' = [verdicts EXCEPT ![next] = Result]
      <4>1. CASE s # next
        BY <3>1, <3>3, <4>1 DEF VerdictsAreTrue, SweepTypeOK
      <4>2. CASE s = next
        <5>1. source = Alone(next)
          BY <2>1 DEF Run, SweepInv, OneMutationIn
        <5>2. verdicts'[s] = Result
          BY <3>1, <3>3, <4>2 DEF SweepTypeOK
        <5> QED BY <3>1, <4>2, <5>1, <5>2, GuardedResult
      <4> QED BY <4>1, <4>2
    <3> QED BY <2>1, <3>2, <3>3 DEF Run
  <2>2. CASE SkipSite
    <3> SUFFICES ASSUME Rechecks', NEW s \in Specs,
                        verdicts'[s] \in {"KILLED", "SURVIVED", "TIMEOUT"}
                 PROVE  verdicts'[s] = Answer(Alone(s))
      <4>1. began' = began
        BY <2>2 DEF SkipSite
      <4> QED BY <4>1 DEF VerdictsAreTrue, Answer
    <3>1. Rechecks
      BY <2>2 DEF SkipSite, Rechecks
    <3>2. s # next /\ verdicts'[s] = verdicts[s]
      BY <2>2 DEF SkipSite, SweepInv, SweepTypeOK
    <3> QED BY <3>1, <3>2 DEF VerdictsAreTrue
  <2>3. CASE Restart
    BY <2>3 DEF Restart, VerdictsAreTrue, Unjudged
  <2>4. CASE UNCHANGED << driver, verdicts, began >>
    BY <2>4 DEF VerdictsAreTrue, Rechecks, Answer
  <2> QED
    BY <2>1, <2>2, <2>3, <2>4
    DEF SweepNext, DriverStep, Baseline, Patch, Restore, AfterRestore, Recheck, Done,
        Interrupt, Crash, Second, sweepVars
<1>3. SweepSpec => []SweepInv
  BY SweepInvariant
<1> QED BY <1>1, <1>2, <1>3, PTL DEF SweepSpec
----------------------------------------------------------------------------
(*                            The session loop                             *)

Steps == {"check", "session", "commit", "grep", "sessions", "cap", "done", "killed"}

LoopTypeOK ==
    /\ session \in Nat /\ session >= 1 /\ launch \in Nat
    /\ at \in Steps
    /\ log \in [1 .. MAX_SESSIONS -> BOOLEAN]
    /\ commits \in Seq(Nat \X Nat)
    /\ at \in {"session", "commit", "grep", "done"} => session <= MAX_SESSIONS

\* The sessions of launch l that have a commit.
Committed(l) == {s \in Nat : \E k \in 1 .. Len(commits) : commits[k] = << l, s >>}

\* A commit is of this launch or an earlier one, and there is one of each session.
CommitsDiffer ==
    /\ \A k \in 1 .. Len(commits) : commits[k][1] <= launch
    /\ \A j, k \in 1 .. Len(commits) : commits[j] = commits[k] => j = k

\* The sessions before this one have ended without a declaration; from its end
\* on, the log of this one says whether it declared.
Progress ==
    /\ at \in {"check", "session", "sessions", "cap"} =>
          ended = 1 .. session - 1 /\ declared = {} /\ Committed(launch) = ended
    /\ at = "session" => ~ log[session]
    /\ at \in {"commit", "grep", "done"} =>
          ended = 1 .. session /\ declared = {s \in {session} : log[s]}
    /\ at = "commit" => Committed(launch) = 1 .. session - 1
    /\ at \in {"grep", "done"} => Committed(launch) = ended
    /\ at = "done" => log[session]

LoopInv == LoopTypeOK /\ CommitsDiffer /\ Progress

\* The commits of this launch, as the property collects them.
LEMMA CommittedIs ==
  ASSUME LoopTypeOK
  PROVE  {c[2] : c \in {commits[k] : k \in {j \in 1 .. Len(commits) : commits[j][1] = launch}}}
             = Committed(launch)
<1> DEFINE Mine == {j \in 1 .. Len(commits) : commits[j][1] = launch}
           Theirs == {c[2] : c \in {commits[k] : k \in Mine}}
<1>1. \A k \in 1 .. Len(commits) :
         commits[k][2] \in Nat /\ commits[k] = << commits[k][1], commits[k][2] >>
  BY DEF LoopTypeOK
<1>2. Theirs = {commits[k][2] : k \in Mine}
  OBVIOUS
<1>3. ASSUME NEW s \in Theirs
      PROVE  s \in Committed(launch)
  <2>1. PICK k \in Mine : s = commits[k][2]
    BY <1>2, <1>3
  <2> QED BY <1>1, <2>1 DEF Committed
<1>4. ASSUME NEW s \in Committed(launch)
      PROVE  s \in Theirs
  <2>1. PICK k \in 1 .. Len(commits) : commits[k] = << launch, s >>
    BY <1>4 DEF Committed
  <2>2. k \in Mine /\ commits[k][2] = s
    BY <2>1
  <2> QED BY <1>2, <2>2
<1> QED BY <1>3, <1>4

LEMMA LoopInvStep ==
  ASSUME LoopInv, [LoopNext]_loopVars
  PROVE  LoopInv'
<1> USE MaxSessionsAssumption DEF LoopInv, LoopTypeOK, Steps
<1>1. CASE Check
  <2>1. UNCHANGED << session, commits, launch, ended, declared >> /\ at = "check"
        /\ at' \in {"sessions", "cap", "session"}
    BY <1>1 DEF Check
  <2>2. at' = "session" => session <= MAX_SESSIONS /\ log' = [log EXCEPT ![session] = FALSE]
    BY <1>1 DEF Check
  <2>3. at' # "session" => log' = log
    BY <1>1 DEF Check
  <2>4. LoopTypeOK'
    BY <2>1, <2>2, <2>3
  <2>5. CommitsDiffer' /\ Committed(launch)' = Committed(launch)
    BY <2>1 DEF CommitsDiffer, Committed
  <2>6. Progress'
    BY <2>1, <2>2, <2>3, <2>5 DEF Progress
  <2> QED BY <2>4, <2>5, <2>6
<1>2. ASSUME NEW done \in BOOLEAN, SessionEnds(done)
      PROVE  LoopInv'
  <2>1. LoopTypeOK'
    BY <1>2 DEF SessionEnds
  <2>2. CommitsDiffer' /\ Committed(launch)' = Committed(launch)
    BY <1>2 DEF CommitsDiffer, Committed, SessionEnds
  <2>3. ended' = 1 .. session /\ declared' = {s \in {session} : log'[s]}
    BY <1>2 DEF SessionEnds, Progress
  <2> QED BY <1>2, <2>1, <2>2, <2>3 DEF Progress, SessionEnds
<1>3. CASE Commit
  <2>1. commits' = Append(commits, << launch, session >>) /\ at = "commit" /\ at' = "grep"
        /\ UNCHANGED << session, log, launch, ended, declared >>
    BY <1>3 DEF Commit
  <2>2. LoopTypeOK'
    BY <2>1
  <2>3. /\ Len(commits') = Len(commits) + 1 /\ commits'[Len(commits) + 1] = << launch, session >>
        /\ \A k \in 1 .. Len(commits) : commits'[k] = commits[k]
    BY <2>1
  <2>4. Committed(launch) = 1 .. session - 1 /\ session \in Nat
    BY <2>1 DEF Progress
  <2>5. \A k \in 1 .. Len(commits) : commits[k] # << launch, session >>
    <3>1. session \notin Committed(launch)
      BY <2>4
    <3> QED BY <2>4, <3>1 DEF Committed
  <2>6. CommitsDiffer'
    <3> DEFINE n == Len(commits)
    <3>1. n \in Nat /\ launch' = launch /\ launch \in Nat /\ << launch, session >>[1] = launch
      BY <2>1
    <3>2. \A k \in 1 .. n + 1 : k \in 1 .. n \/ k = n + 1
      BY <3>1
    <3>3. ASSUME NEW k \in 1 .. n + 1 PROVE commits'[k][1] <= launch'
      <4>1. CASE k \in 1 .. n
        BY <2>3, <3>1, <4>1 DEF CommitsDiffer
      <4>2. CASE k = n + 1
        <5>1. commits'[k] = << launch, session >>
          BY <2>3, <4>2
        <5> QED BY <3>1, <5>1
      <4> QED BY <3>2, <4>1, <4>2
    <3>4. \A j, k \in 1 .. n + 1 : commits'[j] = commits'[k] => j = k
      BY <2>3, <2>5, <3>1, <3>2 DEF CommitsDiffer
    <3> QED BY <2>3, <3>3, <3>4 DEF CommitsDiffer
  <2>7. Committed(launch)' = Committed(launch) \cup {session}
    <3> DEFINE n == Len(commits)
    <3>1. n \in Nat /\ launch' = launch
      BY <2>1
    <3>2. \A k \in 1 .. n + 1 : k \in 1 .. n \/ k = n + 1
      BY <3>1
    <3>3. ASSUME NEW s \in Nat
          PROVE  (\E k \in 1 .. n + 1 : commits'[k] = << launch, s >>)
                 <=> (\E k \in 1 .. n : commits[k] = << launch, s >>) \/ s = session
      <4>1. (\E k \in 1 .. n : commits'[k] = << launch, s >>)
            <=> (\E k \in 1 .. n : commits[k] = << launch, s >>)
        BY <2>3
      <4>2. commits'[n + 1] = << launch, s >> <=> s = session
        BY <2>3
      <4>3. (\E k \in 1 .. n + 1 : commits'[k] = << launch, s >>)
            <=> (\E k \in 1 .. n : commits'[k] = << launch, s >>)
                \/ commits'[n + 1] = << launch, s >>
        <5> HIDE DEF n
        <5>1. n + 1 \in 1 .. n + 1 /\ \A k \in 1 .. n : k \in 1 .. n + 1
          BY <3>1
        <5> QED BY <3>2, <5>1
      <4> QED BY <4>1, <4>2, <4>3
    <3> QED BY <2>3, <2>4, <3>1, <3>3 DEF Committed
  <2>8. Committed(launch)' = 1 .. session
    BY <2>4, <2>7
  <2> QED BY <2>1, <2>2, <2>6, <2>8 DEF Progress
<1>4. CASE Grep
  <2>1. LoopTypeOK'
    BY <1>4 DEF Grep
  <2>2. CommitsDiffer' /\ Committed(launch)' = Committed(launch)
    BY <1>4 DEF CommitsDiffer, Committed, Grep
  <2>3. CASE log[session]
    BY <1>4, <2>1, <2>2, <2>3 DEF Progress, Grep
  <2>4. CASE ~ log[session]
    <3>1. at' = "check" /\ session' = session + 1 /\ UNCHANGED << ended, declared, log >>
      BY <1>4, <2>4 DEF Grep
    <3>2. ended = 1 .. session /\ declared = {} /\ Committed(launch) = ended
      BY <1>4, <2>4 DEF Progress, Grep
    <3>3. ended' = 1 .. session' - 1
      BY <3>1, <3>2
    <3> QED BY <2>1, <2>2, <3>1, <3>2, <3>3 DEF Progress
  <2> QED BY <2>3, <2>4
<1>5. CASE KillLoop
  BY <1>5 DEF KillLoop, Finished, Progress, CommitsDiffer
<1>6. CASE Launch
  <2>1. Committed(launch + 1) = {}
    <3>1. \A k \in 1 .. Len(commits), s \in Nat : commits[k] # << launch + 1, s >>
      BY DEF CommitsDiffer
    <3> QED BY <3>1 DEF Committed
  <2>2. LoopTypeOK' /\ CommitsDiffer'
    BY <1>6 DEF Launch, CommitsDiffer
  <2>3. Committed(launch)' = {}
    BY <1>6, <2>1 DEF Launch, Committed
  <2> QED BY <1>6, <2>2, <2>3 DEF Launch, Progress
<1>7. CASE Hour
  BY <1>7 DEF Hour, Progress, CommitsDiffer, Committed
<1>8. CASE UNCHANGED loopVars
  BY <1>8 DEF loopVars, Progress, CommitsDiffer, Committed
<1> QED BY <1>1, <1>2, <1>3, <1>4, <1>5, <1>6, <1>7, <1>8 DEF LoopNext

\* The loop stops on a declaration of its own last session and snapshots every
\* session once, however often it is killed and started on the old logs.
THEOREM LoopStaysHonest == LoopSpec => []LoopIsHonest
<1>1. LoopInit => LoopInv
  BY MaxSessionsAssumption DEF LoopInit, LoopInv, LoopTypeOK, Steps, CommitsDiffer, Progress, Committed
<1>2. LoopInv => LoopIsHonest
  BY CommittedIs DEF LoopInv, LoopIsHonest, CommitsDiffer, Progress
<1> QED BY <1>1, <1>2, LoopInvStep, PTL DEF LoopSpec

----------------------------------------------------------------------------
(*                         Timestamps of subcut                            *)

\* The milliseconds of four fields, and the fields that both formatters take
\* out of a number of milliseconds.
Total(h, m, s, ms) == h * 3600000 + m * 60000 + s * 1000 + ms
TakenApart(n, h, m, s, ms) ==
    /\ n \div 3600000 = h /\ (n % 3600000) \div 60000 = m
    /\ ((n % 3600000) % 60000) \div 1000 = s /\ ((n % 3600000) % 60000) % 1000 = ms
    /\ (n \div 1000) % 60 = s /\ ((n \div 1000) \div 60) % 60 = m
    /\ ((n \div 1000) \div 60) \div 60 = h /\ n % 1000 = ms

Sixty == 0 .. 59
Thousand == 0 .. 999

(***************************************************************************)
(* Both arms take a number of milliseconds apart into the fields it is     *)
(* made of.                                                                *)
(***************************************************************************)
LEMMA FieldsOfTotal ==
  ASSUME NEW h \in Nat, NEW m \in Sixty, NEW s \in Sixty, NEW ms \in Thousand
  PROVE  Total(h, m, s, ms) \in Nat /\ TakenApart(Total(h, m, s, ms), h, m, s, ms)
<1> SUFFICES ASSUME NEW n, n = h * 3600000 + m * 60000 + s * 1000 + ms
             PROVE  n \in Nat /\ TakenApart(n, h, m, s, ms)
  BY SMT DEF Total
<1>0. m \in 0 .. 59 /\ s \in 0 .. 59 /\ ms \in 0 .. 999 /\ n \in Nat
  BY SMT DEF Sixty, Thousand
<1>1. n \div 3600000 = h /\ n % 3600000 = m * 60000 + s * 1000 + ms
  BY SMT, <1>0
<1>2. /\ (m * 60000 + s * 1000 + ms) \div 60000 = m
      /\ (m * 60000 + s * 1000 + ms) % 60000 = s * 1000 + ms
  BY SMT, <1>0
<1>3. (s * 1000 + ms) \div 1000 = s /\ (s * 1000 + ms) % 1000 = ms
  BY SMT, <1>0
<1>4. n \div 1000 = (h * 60 + m) * 60 + s /\ n % 1000 = ms
  BY SMT, <1>0
<1>5. ((h * 60 + m) * 60 + s) \div 60 = h * 60 + m /\ ((h * 60 + m) * 60 + s) % 60 = s
  BY SMT, <1>0
<1>6. (h * 60 + m) \div 60 = h /\ (h * 60 + m) % 60 = m
  BY SMT, <1>0
<1> QED BY SMT, <1>0, <1>1, <1>2, <1>3, <1>4, <1>5, <1>6 DEF TakenApart

(***************************************************************************)
(* Every number of milliseconds is made of such fields.                    *)
(***************************************************************************)
LEMMA EveryTotal ==
  ASSUME NEW n \in Nat
  PROVE  \E h \in Nat, m \in Sixty, s \in Sixty, ms \in Thousand : n = Total(h, m, s, ms)
<1> DEFINE h == n \div 3600000  t == n % 3600000
           m == t \div 60000    u == t % 60000
           s == u \div 1000     ms == u % 1000
<1>1. n = h * 3600000 + t /\ h \in Nat /\ t \in Nat /\ t < 3600000
  BY SMT
<1>2. t = m * 60000 + u /\ m \in Sixty /\ u \in Nat /\ u < 60000
  <2> HIDE DEF t
  <2> QED BY SMT, <1>1 DEF Sixty
<1>3. u = s * 1000 + ms /\ s \in Sixty /\ ms \in Thousand
  <2> HIDE DEF u
  <2> QED BY SMT, <1>2 DEF Sixty, Thousand
<1> HIDE DEF h, t, m, u, s, ms
<1>4. n = Total(h, m, s, ms)
  BY SMT, <1>1, <1>2, <1>3 DEF Total, Sixty, Thousand
<1> QED BY SMT, <1>1, <1>2, <1>3, <1>4

(***************************************************************************)
(* A text of four fields reads as their total in both arms, and the total  *)
(* is formatted to the same canonical text by both.                        *)
(***************************************************************************)
LEMMA FieldsRead ==
  ASSUME NEW t, t.h \in Nat, t.m \in Nat, t.s \in Nat, t.ms \in Nat, t.width \in Nat,
         t.width >= 2, t.m < 60, t.s < 60
  PROVE  /\ ParseStampA(t) = Total(t.h, t.m, t.s, t.ms)
         /\ ParseStampB(t) = Total(t.h, t.m, t.s, t.ms)
<1>2. ParseStampA(t) = Total(t.h, t.m, t.s, t.ms)
  BY SMT DEF ParseStampA, Total
<1> DEFINE Seconds(h, m, s, ms) == ((h * 3600 + m * 60) + s) * 1000 + ms
<1>3. ParseStampB(t) = Seconds(t.h, t.m, t.s, t.ms)
  BY SMT DEF ParseStampB
<1>4. \A h, m, s, ms \in Nat : Seconds(h, m, s, ms) = Total(h, m, s, ms)
  BY SMT DEF Total
<1> HIDE DEF Seconds
<1> QED BY <1>2, <1>3, <1>4

LEMMA TotalFormatted ==
  ASSUME NEW h \in Nat, NEW m \in Sixty, NEW s \in Sixty, NEW ms \in Thousand
  PROVE  /\ FormatA(Total(h, m, s, ms)) = Text(h, m, s, ms)
         /\ FormatB(Total(h, m, s, ms)) = Text(h, m, s, ms)
<1> DEFINE n == Total(h, m, s, ms)
<1>1. TakenApart(n, h, m, s, ms)
  BY FieldsOfTotal
<1> HIDE DEF n
<1>2. FormatA(n) = Text(h, m, s, ms) /\ FormatB(n) = Text(h, m, s, ms)
  BY SMT, <1>1 DEF TakenApart, FormatA, FormatB
<1> QED BY <1>2 DEF n

(***************************************************************************)
(* Whatever text of a timestamp their patterns let through, of any number  *)
(* of hour digits: both arms parse it alike, and format what they parsed   *)
(* to the same canonical text.                                             *)
(***************************************************************************)
THEOREM EveryStampRoundTrips ==
  ASSUME stamp.h \in Nat, stamp.m \in Nat, stamp.s \in Nat, stamp.ms \in Thousand,
         stamp.width \in Nat
  PROVE  StampsRoundTrip
<1>1. CASE stamp.width >= 2 /\ stamp.m < 60 /\ stamp.s < 60
  <2>1. stamp.m \in Sixty /\ stamp.s \in Sixty
    BY <1>1, SMT DEF Sixty
  <2> DEFINE n == Total(stamp.h, stamp.m, stamp.s, stamp.ms)
  <2>2. ParseStampA(stamp) = n /\ ParseStampB(stamp) = n
    <3> stamp.ms \in Nat
      BY SMT DEF Thousand
    <3> QED BY <1>1, FieldsRead
  <2>3. /\ FormatA(n) = Text(stamp.h, stamp.m, stamp.s, stamp.ms)
        /\ FormatB(n) = Text(stamp.h, stamp.m, stamp.s, stamp.ms)
    BY <2>1, TotalFormatted
  <2> HIDE DEF n
  <2> QED BY <2>2, <2>3 DEF StampsRoundTrip
<1>2. CASE ~ (stamp.width >= 2 /\ stamp.m < 60 /\ stamp.s < 60)
  <2>1. ParseStampA(stamp) = -1 /\ ParseStampB(stamp) = -1
    BY <1>2, SMT DEF ParseStampA, ParseStampB
  <2> QED BY <2>1, SMT DEF StampsRoundTrip
<1> QED BY <1>1, <1>2

(***************************************************************************)
(* What either arm writes for a number of milliseconds, both write, and    *)
(* both read it back as that number.                                       *)
(***************************************************************************)
THEOREM EveryTimeRoundTrips ==
  ASSUME NEW n \in Nat
  PROVE  FormatA(n) = FormatB(n) /\ ParseStampA(FormatA(n)) = n /\ ParseStampB(FormatA(n)) = n
<1>1. PICK h \in Nat, m \in Sixty, s \in Sixty, ms \in Thousand : n = Total(h, m, s, ms)
  BY EveryTotal
<1>2. FormatA(n) = Text(h, m, s, ms) /\ FormatB(n) = Text(h, m, s, ms)
  BY <1>1, TotalFormatted
<1> DEFINE t == Text(h, m, s, ms)
<1>3. t.width \in Nat /\ t.width >= 2
  <2>1. Digits(h) \in {1, 2, 3}
    BY DEF Digits
  <2>2. Max({2, Digits(h)}) \in {2, 3}
    BY <2>1 DEF Max
  <2> QED BY <2>2 DEF Text
<1>4. t.h = h /\ t.m = m /\ t.s = s /\ t.ms = ms
  BY DEF Text
<1> HIDE DEF t
<1>5. m \in Nat /\ m < 60 /\ s \in Nat /\ s < 60 /\ ms \in Nat
  BY SMT DEF Sixty, Thousand
<1>6. ParseStampA(t) = Total(t.h, t.m, t.s, t.ms) /\ ParseStampB(t) = Total(t.h, t.m, t.s, t.ms)
  BY <1>3, <1>4, <1>5, FieldsRead
<1> QED BY <1>1, <1>2, <1>4, <1>6 DEF t

----------------------------------------------------------------------------
(*                         The readers of SRT texts                        *)

\* Lines that are not blank, and those int() reads as an index.
TextKinds == LineKinds \ {"blank"}
Heads == {"index", "signed"}

\* Blocks that read as a cue, and those no further line makes one.
Whole(b) == Len(b) >= 3 /\ b[1] \in Heads /\ b[2] = "time"
Hopeless(b) == (Len(b) >= 1 /\ b[1] \notin Heads) \/ (Len(b) >= 2 /\ b[2] # "time")
\* What armA reads from a block.
ReadOf(b) == [index |-> b[1], text |-> [i \in 1 .. Len(b) - 2 |-> b[i + 2]]]

CueTexts == [index : Heads, text : Seq(TextKinds)]
\* The states of armA's loop.
Readers == [cues : Seq(CueTexts), wants : {"index", "time", "text", "more"}, ok : BOOLEAN]

ReadTypeOK ==
    blocks \in Seq(Seq(TextKinds)) /\ block \in Seq(TextKinds) /\ reader \in Readers

\* What armA's loop wants after the lines of a block.
Wanted(b) == IF Len(b) = 0 THEN "index" ELSE IF Len(b) = 1 THEN "time"
             ELSE IF Len(b) = 2 THEN "text" ELSE "more"

\* armA has read one cue of every block, or has refused a hopeless one.
ReadInv ==
    /\ ReadTypeOK
    /\ IF reader.ok
       THEN /\ \A k \in 1 .. Len(blocks) : Whole(blocks[k])
            /\ ~ Hopeless(block) /\ reader.wants = Wanted(block)
            /\ reader.cues = [k \in 1 .. Len(Blocks) |-> ReadOf(Blocks[k])]
       ELSE Hopeless(block) \/ \E k \in 1 .. Len(blocks) : ~ Whole(blocks[k])

(***************************************************************************)
(* Blocks is armB's list of finished blocks, with the block the text may   *)
(* still go on with when there is one.                                     *)
(***************************************************************************)
LEMMA BlocksAre ==
  ASSUME ReadTypeOK
  PROVE  /\ Blocks \in Seq(Seq(TextKinds)) /\ Len(blocks) \in Nat /\ Len(block) \in Nat
         /\ Len(Blocks) = IF block = << >> THEN Len(blocks) ELSE Len(blocks) + 1
         /\ \A k \in 1 .. Len(blocks) : Blocks[k] = blocks[k]
         /\ block # << >> => Blocks[Len(blocks) + 1] = block
         /\ block = << >> <=> Len(block) = 0
BY AppendSeq, LenProperties, EmptySeq DEF Blocks, ReadTypeOK

(***************************************************************************)
(* A block whose first line is an index reads as a cue.                    *)
(***************************************************************************)
LEMMA ReadIsCue ==
  ASSUME NEW b \in Seq(TextKinds), Len(b) >= 1, b[1] \in Heads
  PROVE  ReadOf(b) \in [index : Heads, text : Seq(TextKinds)]
<1>1. Len(b) \in Nat /\ \A i \in 1 .. Len(b) - 2 : b[i + 2] \in TextKinds
  BY LenProperties, ElementOfSeq
<1>2. [i \in 1 .. Len(b) - 2 |-> b[i + 2]] \in Seq(TextKinds)
  <2>1. CASE Len(b) = 1
    <3>1. Len(b) - 2 = -1
      BY <2>1
    <3>2. 1 .. -1 = 1 .. 0
      OBVIOUS
    <3>3. [i \in 1 .. 0 |-> b[i + 2]] \in Seq(TextKinds)
      OBVIOUS
    <3> QED BY <3>1, <3>2, <3>3
  <2>2. CASE Len(b) - 2 \in Nat
    BY <1>1, <2>2
  <2> QED BY <1>1, <2>1, <2>2
<1> QED BY <1>2 DEF ReadOf

(***************************************************************************)
(* One more line of a block is one more line of its cue's text.            *)
(***************************************************************************)
LEMMA ReadGrown ==
  ASSUME NEW b \in Seq(TextKinds), NEW line \in TextKinds, Len(b) >= 2
  PROVE  ReadOf(Append(b, line)) = [ReadOf(b) EXCEPT !.text = Append(@, line)]
<1>1. /\ Len(b) \in Nat /\ Len(Append(b, line)) = Len(b) + 1 /\ Append(b, line)[Len(b) + 1] = line
      /\ \A i \in 1 .. Len(b) : Append(b, line)[i] = b[i]
  BY AppendSeq, LenProperties
<1> DEFINE t == [i \in 1 .. Len(b) - 2 |-> b[i + 2]]
           u == [i \in 1 .. Len(Append(b, line)) - 2 |-> Append(b, line)[i + 2]]
<1>2. t \in Seq(TextKinds) /\ Len(t) = Len(b) - 2
  <2>1. \A i \in 1 .. Len(b) - 2 : b[i + 2] \in TextKinds
    BY <1>1, ElementOfSeq
  <2>2. Len(b) - 2 \in Nat
    BY <1>1
  <2> QED BY <2>1, <2>2
<1>3. u = Append(t, line)
  <2>1. /\ Append(t, line) \in Seq(TextKinds) /\ Len(Append(t, line)) = Len(b) - 1
        /\ Append(t, line)[Len(b) - 1] = line
        /\ \A i \in 1 .. Len(b) - 2 : Append(t, line)[i] = t[i]
    <3> HIDE DEF t
    <3> QED BY <1>1, <1>2, AppendSeq
  <2>2. DOMAIN Append(t, line) = 1 .. Len(b) - 1 /\ Append(t, line) = [i \in 1 .. Len(b) - 1 |-> Append(t, line)[i]]
    <3> HIDE DEF t
    <3> QED BY <2>1, LenProperties
  <2>3. \A i \in 1 .. Len(b) - 1 : Append(t, line)[i] = Append(b, line)[i + 2]
    <3> TAKE i \in 1 .. Len(b) - 1
    <3>1. CASE i = Len(b) - 1
      <4>1. i + 2 = Len(b) + 1
        BY <1>1, <3>1
      <4> QED BY <1>1, <2>1, <3>1, <4>1
    <3>2. CASE i # Len(b) - 1
      <4>1. i \in 1 .. Len(b) - 2 /\ i + 2 \in 1 .. Len(b)
        BY <1>1, <3>2
      <4> QED BY <1>1, <2>1, <4>1
    <3> QED BY <3>1, <3>2
  <2>4. Len(Append(b, line)) - 2 = Len(b) - 1
    BY <1>1
  <2> HIDE DEF t
  <2> QED BY <2>2, <2>3, <2>4
<1>4. Append(b, line)[1] = b[1]
  BY <1>1
<1>5. ReadOf(b) = [index |-> b[1], text |-> t] /\ ReadOf(Append(b, line)) = [index |-> b[1], text |-> u]
  BY <1>4 DEF ReadOf
<1>6. [ReadOf(b) EXCEPT !.text = Append(@, line)] = [index |-> b[1], text |-> Append(t, line)]
  <2> HIDE DEF t
  <2>1. ReadOf(b).text = t
    BY <1>5
  <2>2. ASSUME NEW h \in TextKinds, NEW x \in Seq(TextKinds), NEW y \in Seq(TextKinds)
        PROVE  [[index |-> h, text |-> x] EXCEPT !.text = y] = [index |-> h, text |-> y]
    OBVIOUS
  <2>3. Append(t, line) \in Seq(TextKinds) /\ b[1] \in TextKinds
    BY <1>1, <1>2, ElementOfSeq, AppendSeq
  <2>4. [[index |-> b[1], text |-> t] EXCEPT !.text = Append(t, line)] = [index |-> b[1], text |-> Append(t, line)]
    BY <1>2, <2>2, <2>3
  <2> QED BY <1>5, <2>1, <2>4, Zenon
<1> HIDE DEF t, u
<1> QED BY <1>3, <1>5, <1>6

(***************************************************************************)
(* A line that is not blank makes armB's last block longer, and no other.  *)
(***************************************************************************)
LEMMA GrownByText ==
  ASSUME ReadTypeOK, NEW line \in TextKinds, Split(line)
  PROVE  /\ blocks' = blocks /\ block' \in Seq(TextKinds) /\ Len(block') = Len(block) + 1
         /\ Len(block) \in Nat /\ block'[Len(block) + 1] = line
         /\ \A i \in 1 .. Len(block) : block'[i] = block[i]
         /\ block' = Append(block, line)
         /\ Blocks' = Append(blocks, block') /\ Len(Blocks') = Len(blocks) + 1
         /\ Blocks'[Len(blocks) + 1] = block'
         /\ \A k \in 1 .. Len(blocks) : Blocks'[k] = blocks[k]
<1>1. blocks' = blocks /\ block' = Append(block, line)
  BY DEF Split, TextKinds
<1>2. block \in Seq(TextKinds) /\ blocks \in Seq(Seq(TextKinds)) /\ Len(block) \in Nat
  BY LenProperties DEF ReadTypeOK
<1>3. /\ block' \in Seq(TextKinds) /\ Len(block') = Len(block) + 1
      /\ block'[Len(block) + 1] = line /\ \A i \in 1 .. Len(block) : block'[i] = block[i]
  BY <1>1, <1>2, AppendSeq
<1>4. block' # << >>
  BY <1>2, <1>3, EmptySeq
<1>5. Blocks' = Append(blocks, block')
  BY <1>1, <1>4 DEF Blocks
<1>6. /\ Len(Blocks') = Len(blocks) + 1 /\ Blocks'[Len(blocks) + 1] = block'
      /\ \A k \in 1 .. Len(blocks) : Blocks'[k] = blocks[k]
  BY <1>2, <1>3, <1>5, AppendSeq
<1> QED BY <1>1, <1>2, <1>3, <1>5, <1>6

(***************************************************************************)
(* A blank line ends the block; what the text's blocks are does not        *)
(* change.                                                                 *)
(***************************************************************************)
LEMMA EndedByBlank ==
  ASSUME ReadTypeOK, Split("blank")
  PROVE  block' = << >> /\ blocks' = Blocks /\ Blocks' = Blocks
BY DEF Split, Blocks

(***************************************************************************)
(* A block of three lines is whole unless nothing can mend it, and a whole *)
(* one is not beyond mending.                                              *)
(***************************************************************************)
LEMMA WholeOrHopeless ==
  ASSUME NEW b \in Seq(TextKinds)
  PROVE  /\ Len(b) >= 3 /\ ~ Hopeless(b) => Whole(b)
         /\ Hopeless(b) => ~ Whole(b)
         /\ Len(b) >= 1 /\ ~ Hopeless(b) => b[1] \in Heads
BY LenProperties DEF Whole, Hopeless

(***************************************************************************)
(* The cues of blocks that are whole, or may still become so, are cues.    *)
(***************************************************************************)
LEMMA CuesTyped ==
  ASSUME ReadTypeOK, \A k \in 1 .. Len(blocks) : Whole(blocks[k]), ~ Hopeless(block)
  PROVE  [k \in 1 .. Len(Blocks) |-> ReadOf(Blocks[k])] \in Seq([index : Heads, text : Seq(TextKinds)])
<1>1. \A k \in 1 .. Len(Blocks) : ReadOf(Blocks[k]) \in [index : Heads, text : Seq(TextKinds)]
  <2> TAKE k \in 1 .. Len(Blocks)
  <2>1. Blocks[k] \in Seq(TextKinds)
    BY BlocksAre, ElementOfSeq
  <2>2. Len(Blocks[k]) >= 1 /\ Blocks[k][1] \in Heads
    <3>1. CASE k \in 1 .. Len(blocks)
      <4>1. Blocks[k] = blocks[k] /\ Whole(blocks[k])
        BY <3>1, BlocksAre
      <4> QED BY <2>1, <4>1, LenProperties DEF Whole
    <3>2. CASE k \notin 1 .. Len(blocks)
      <4>1. block # << >> /\ k = Len(blocks) + 1
        BY <3>2, BlocksAre
      <4>2. Blocks[k] = block /\ Len(block) >= 1
        BY <4>1, BlocksAre
      <4> QED BY <4>2 DEF Hopeless
    <3> QED BY <3>1, <3>2
  <2> QED BY <2>1, <2>2, ReadIsCue
<1>2. Len(Blocks) \in Nat
  BY BlocksAre
<1> QED BY <1>1, <1>2

(***************************************************************************)
(* What armA's loop makes of a line, by what it wants next: parse_srt of   *)
(* armA, branch by branch.                                                 *)
(***************************************************************************)
LEMMA LineRead ==
  ASSUME NEW r \in Readers, NEW line \in LineKinds
  PROVE  /\ ~ r.ok => ReadLine(r, line) = r
         /\ r.ok /\ r.wants = "index" /\ line = "blank" => ReadLine(r, line) = r
         /\ r.ok /\ r.wants = "index" /\ line \in Heads =>
               ReadLine(r, line) = [r EXCEPT !.wants = "time", !.cues = Append(@, [index |-> line, text |-> << >>])]
         /\ r.ok /\ r.wants = "time" /\ line = "time" => ReadLine(r, line) = [r EXCEPT !.wants = "text"]
         /\ r.ok /\ r.wants \in {"text", "more"} /\ line # "blank" =>
               ReadLine(r, line) = [r EXCEPT !.wants = "more", !.cues[Len(r.cues)].text = Append(@, line)]
         /\ r.ok /\ r.wants = "more" /\ line = "blank" => ReadLine(r, line) = [r EXCEPT !.wants = "index"]
         /\ \/ r.ok /\ r.wants = "index" /\ line # "blank" /\ line \notin Heads
            \/ r.ok /\ r.wants = "time" /\ line # "time"
            \/ r.ok /\ r.wants = "text" /\ line = "blank"
               => ReadLine(r, line) = [r EXCEPT !.ok = FALSE]
<1>1. CASE ~ r.ok
  <2>1. ReadLine(r, line) = r
    BY <1>1 DEF ReadLine
  <2> QED BY <1>1, <2>1
<1>2. CASE r.ok /\ r.wants = "index"
  <2>1. line = "blank" => ReadLine(r, line) = r
    BY <1>2 DEF ReadLine
  <2>2. line \in Heads => 
          ReadLine(r, line) = [r EXCEPT !.wants = "time", !.cues = Append(@, [index |-> line, text |-> << >>])]
    BY <1>2 DEF ReadLine, Heads
  <2>3. line # "blank" /\ line \notin Heads => ReadLine(r, line) = [r EXCEPT !.ok = FALSE]
    BY <1>2 DEF ReadLine, Heads
  <2> QED BY <1>2, <2>1, <2>2, <2>3
<1>3. CASE r.ok /\ r.wants = "time"
  <2>1. line = "time" => ReadLine(r, line) = [r EXCEPT !.wants = "text"]
    BY <1>3 DEF ReadLine
  <2>2. line # "time" => ReadLine(r, line) = [r EXCEPT !.ok = FALSE]
    BY <1>3 DEF ReadLine
  <2> QED BY <1>3, <2>1, <2>2
<1>4. CASE r.ok /\ r.wants \in {"text", "more"}
  <2>1. line # "blank" =>
          ReadLine(r, line) = [r EXCEPT !.wants = "more", !.cues[Len(r.cues)].text = Append(@, line)]
    BY <1>4 DEF ReadLine
  <2>2. r.wants = "more" /\ line = "blank" => ReadLine(r, line) = [r EXCEPT !.wants = "index"]
    BY <1>4 DEF ReadLine
  <2>3. r.wants = "text" /\ line = "blank" => ReadLine(r, line) = [r EXCEPT !.ok = FALSE]
    BY <1>4 DEF ReadLine
  <2> QED BY <1>4, <2>1, <2>2, <2>3
<1> QED BY <1>1, <1>2, <1>3, <1>4 DEF Readers

(***************************************************************************)
(* Once armA has refused the text, some block stays one armB refuses,      *)
(* whatever lines follow.                                                  *)
(***************************************************************************)
LEMMA StepRefused ==
  ASSUME ReadInv, ~ reader.ok, NEW line \in LineKinds, reader' = ReadLine(reader, line), Split(line)
  PROVE  ReadInv'
<1>1. ReadTypeOK /\ reader' = reader /\ reader \in Readers
  BY LineRead DEF ReadInv, ReadTypeOK
<1>2. CASE line \in TextKinds
  <2>1. ReadTypeOK'
    BY <1>1, <1>2, GrownByText DEF ReadTypeOK
  <2>2. Hopeless(block) => Hopeless(block')
    <3>1. Len(block) \in Nat /\ Len(block') = Len(block) + 1 /\ \A i \in 1 .. Len(block) : block'[i] = block[i]
      BY <1>1, <1>2, GrownByText
    <3> QED BY <3>1 DEF Hopeless
  <2>3. blocks' = blocks
    BY <1>1, <1>2, GrownByText
  <2> QED BY <1>1, <2>1, <2>2, <2>3 DEF ReadInv
<1>3. CASE line = "blank"
  <2>1. block' = << >> /\ blocks' = Blocks
    BY <1>1, <1>3, EndedByBlank
  <2>2. ReadTypeOK'
    BY <1>1, <2>1, BlocksAre, EmptySeq DEF ReadTypeOK
  <2>3. \E k \in 1 .. Len(Blocks) : ~ Whole(Blocks[k])
    <3>1. CASE Hopeless(block)
      <4>1. block # << >> /\ ~ Whole(block)
        <5>1. block \in Seq(TextKinds) /\ Len(block) >= 1
          BY <1>1, <3>1, BlocksAre DEF Hopeless, ReadTypeOK
        <5> QED BY <1>1, <3>1, <5>1, WholeOrHopeless, BlocksAre
      <4>2. Len(blocks) + 1 \in 1 .. Len(Blocks) /\ Blocks[Len(blocks) + 1] = block
        BY <1>1, <4>1, BlocksAre
      <4> QED BY <4>1, <4>2
    <3>2. CASE \E k \in 1 .. Len(blocks) : ~ Whole(blocks[k])
      <4>1. PICK k \in 1 .. Len(blocks) : ~ Whole(blocks[k])
        BY <3>2
      <4>2. k \in 1 .. Len(Blocks) /\ Blocks[k] = blocks[k]
        BY <1>1, BlocksAre
      <4> QED BY <4>1, <4>2
    <3> QED BY <3>1, <3>2 DEF ReadInv
  <2> QED BY <1>1, <2>1, <2>2, <2>3 DEF ReadInv
<1> QED BY <1>2, <1>3 DEF TextKinds

(***************************************************************************)
(* A blank line: armA's loop goes on to the next cue, or refuses a cue     *)
(* without text; armB's block ends there.                                  *)
(***************************************************************************)
LEMMA StepBlank ==
  ASSUME ReadInv, reader.ok, reader' = ReadLine(reader, "blank"), Split("blank")
  PROVE  ReadInv'
<1>1. /\ ReadTypeOK /\ reader \in Readers /\ "blank" \in LineKinds
      /\ \A k \in 1 .. Len(blocks) : Whole(blocks[k])
      /\ ~ Hopeless(block) /\ reader.wants = Wanted(block)
      /\ reader.cues = [k \in 1 .. Len(Blocks) |-> ReadOf(Blocks[k])]
  BY DEF ReadInv, ReadTypeOK, LineKinds
<1>2. block' = << >> /\ blocks' = Blocks /\ Blocks' = Blocks
  BY <1>1, EndedByBlank
<1>3. Len(block) \in Nat /\ block \in Seq(TextKinds) /\ blocks' \in Seq(Seq(TextKinds)) /\ block' \in Seq(TextKinds)
  BY <1>1, <1>2, BlocksAre, EmptySeq DEF ReadTypeOK
<1>9. reader.wants = Wanted(block) /\ Len(block) \in Nat
  BY <1>1, <1>3
<1>4. Wanted(block') = "index" /\ ~ Hopeless(block')
  BY <1>2 DEF Wanted, Hopeless
<1>5. CASE Len(block) = 0
  <2>1. reader' = reader
    BY <1>1, <1>5, LineRead DEF Wanted
  <2>2. Blocks = blocks
    BY <1>1, <1>5, BlocksAre DEF Blocks
  <2>3. ReadTypeOK'
    BY <1>1, <1>3, <2>1 DEF ReadTypeOK
  <2>4. reader'.wants = "index"
    BY <1>1, <1>5, <2>1 DEF Wanted
  <2>5. /\ \A k \in 1 .. Len(blocks') : Whole(blocks'[k])
        /\ reader'.cues = [k \in 1 .. Len(Blocks') |-> ReadOf(Blocks'[k])]
    BY <1>1, <1>2, <2>1, <2>2
  <2> QED BY <1>4, <2>1, <2>3, <2>4, <2>5 DEF ReadInv
<1>6. CASE Len(block) \in {1, 2}
  <2>1. reader' = [reader EXCEPT !.ok = FALSE]
    <3>1. reader.wants \in {"time", "text"}
      BY <1>9, <1>6 DEF Wanted
    <3>2. CASE reader.wants = "time"
      <4>1. reader \in Readers /\ "blank" \in LineKinds /\ reader.ok /\ reader.wants = "time"
        BY <1>1, <3>2
      <4>2. "blank" # "time"
        OBVIOUS
      <4> QED BY <4>1, <4>2 DEF ReadLine
    <3>3. CASE reader.wants = "text"
      BY <1>1, <3>3, LineRead
    <3> QED BY <3>1, <3>2, <3>3
  <2>2. reader' \in Readers /\ ~ reader'.ok
    BY <1>1, <2>1 DEF Readers
  <2>3. ReadTypeOK'
    BY <1>1, <1>3, <2>2 DEF ReadTypeOK
  <2>4. Len(blocks) + 1 \in 1 .. Len(Blocks) /\ Blocks[Len(blocks) + 1] = block /\ ~ Whole(block)
    <3>1. block # << >> /\ ~ Whole(block)
      <4>0. \A n \in Nat : n \in {1, 2} => ~ (n >= 3) /\ n # 0
        OBVIOUS
      <4>1. ~ (Len(block) >= 3) /\ Len(block) # 0
        BY <1>6, <1>9, <4>0
      <4>2. block # << >>
        BY <1>1, <4>1, BlocksAre
      <4> QED BY <4>1, <4>2 DEF Whole
    <3> QED BY <1>1, <3>1, BlocksAre
  <2> QED BY <1>2, <2>2, <2>3, <2>4 DEF ReadInv
<1>7. CASE Len(block) >= 3
  <2>1. reader' = [reader EXCEPT !.wants = "index"]
    <3>1. reader.wants = "more"
      <4>0. \A n \in Nat : n >= 3 => n # 0 /\ n # 1 /\ n # 2
        OBVIOUS
      <4>1. Len(block) # 0 /\ Len(block) # 1 /\ Len(block) # 2
        BY <1>7, <1>9, <4>0
      <4> QED BY <1>9, <4>1 DEF Wanted
    <3> QED BY <1>1, <3>1, LineRead
  <2>2. reader' \in Readers /\ reader'.ok /\ reader'.wants = "index" /\ reader'.cues = reader.cues
    BY <1>1, <2>1 DEF Readers
  <2>3. ReadTypeOK'
    BY <1>1, <1>3, <2>2 DEF ReadTypeOK
  <2>4. \A k \in 1 .. Len(Blocks) : Whole(Blocks[k])
    <3>1. Whole(block)
      BY <1>1, <1>3, <1>7, WholeOrHopeless
    <3> QED BY <1>1, <3>1, BlocksAre
  <2> QED BY <1>1, <1>2, <1>4, <2>2, <2>3, <2>4 DEF ReadInv
<1>8. Len(block) = 0 \/ Len(block) \in {1, 2} \/ Len(block) >= 3
  <2>1. \A n \in Nat : n = 0 \/ n \in {1, 2} \/ n >= 3
    OBVIOUS
  <2> QED BY <1>9, <2>1
<1> QED BY <1>5, <1>6, <1>7, <1>8

(***************************************************************************)
(* The first line of a block must be an index.                             *)
(***************************************************************************)
LEMMA StepFirst ==
  ASSUME ReadInv, reader.ok, NEW line \in TextKinds, reader' = ReadLine(reader, line), Split(line), Len(block) = 0
  PROVE  ReadInv'
<1>1. /\ ReadTypeOK /\ reader \in Readers /\ line \in LineKinds /\ line # "blank"
      /\ reader.wants = "index"
  BY DEF ReadInv, ReadTypeOK, TextKinds, Wanted
<1>2. \A k \in 1 .. Len(blocks) : Whole(blocks[k])
  BY DEF ReadInv
<1>3. /\ reader.cues = [k \in 1 .. Len(blocks) |-> ReadOf(blocks[k])]
      /\ Len(blocks) \in Nat /\ Len(reader.cues) = Len(blocks)
  <2>1. Blocks = blocks
    BY <1>1, BlocksAre DEF Blocks
  <2> QED BY <1>1, <2>1, BlocksAre DEF ReadInv
<1>4. /\ blocks' = blocks /\ block' \in Seq(TextKinds) /\ Len(block') = 1 /\ block'[1] = line
      /\ Len(Blocks') = Len(blocks) + 1 /\ Blocks'[Len(blocks) + 1] = block'
      /\ \A k \in 1 .. Len(blocks) : Blocks'[k] = blocks[k]
  BY <1>1, GrownByText
<1>5. CASE line \in Heads
  <2> DEFINE c == [index |-> line, text |-> << >>]
  <2>1. reader' = [reader EXCEPT !.wants = "time", !.cues = Append(@, c)]
    BY <1>1, <1>5, LineRead
  <2>2. c \in CueTexts
    BY <1>5, EmptySeq DEF CueTexts
  <2>3. Append(reader.cues, c) \in Seq(CueTexts)
    <3> HIDE DEF c
    <3>1. reader.cues \in Seq(CueTexts)
      BY <1>1 DEF Readers
    <3> QED BY <2>2, <3>1, AppendSeq
  <2>4. reader' \in Readers /\ reader'.ok /\ reader'.wants = "time" /\ reader'.cues = Append(reader.cues, c)
    <3> HIDE DEF c
    <3> QED BY <1>1, <2>1, <2>3 DEF Readers
  <2>5. ReadTypeOK'
    BY <1>1, <1>4, <2>4 DEF ReadTypeOK
  <2>6. ReadOf(block') = c
    <3>1. [i \in 1 .. Len(block') - 2 |-> block'[i + 2]] = << >>
      <4>1. Len(block') - 2 = -1
        BY <1>4
      <4>2. 1 .. -1 = 1 .. 0
        OBVIOUS
      <4>3. [i \in 1 .. 0 |-> block'[i + 2]] = << >>
        OBVIOUS
      <4> QED BY <4>1, <4>2, <4>3
    <3> QED BY <1>4, <3>1 DEF ReadOf
  <2>7. reader'.cues = [k \in 1 .. Len(Blocks') |-> ReadOf(Blocks'[k])]
    <3> HIDE DEF c
    <3>1. reader.cues \in Seq(CueTexts)
      BY <1>1 DEF Readers
    <3>2. /\ Len(reader'.cues) = Len(blocks) + 1 /\ reader'.cues[Len(blocks) + 1] = c
          /\ \A k \in 1 .. Len(blocks) : reader'.cues[k] = ReadOf(blocks[k])
      BY <1>3, <2>2, <2>4, <3>1, AppendSeq
    <3>3. \A k \in 1 .. Len(blocks) + 1 : reader'.cues[k] = ReadOf(Blocks'[k])
      BY <1>3, <1>4, <2>6, <3>2
    <3>4. reader'.cues = [k \in 1 .. Len(blocks) + 1 |-> reader'.cues[k]]
      BY <2>3, <2>4, <3>2, LenProperties
    <3> QED BY <1>4, <3>3, <3>4
  <2>8. ~ Hopeless(block') /\ Wanted(block') = "time"
    BY <1>4, <1>5 DEF Hopeless, Wanted
  <2> QED BY <1>2, <1>4, <2>4, <2>5, <2>7, <2>8 DEF ReadInv
<1>6. CASE line \notin Heads
  <2>1. reader' = [reader EXCEPT !.ok = FALSE]
    BY <1>1, <1>6 DEF ReadLine, Heads
  <2>2. reader' \in Readers /\ ~ reader'.ok
    BY <1>1, <2>1 DEF Readers
  <2>3. ReadTypeOK' /\ Hopeless(block')
    BY <1>1, <1>4, <1>6, <2>2 DEF ReadTypeOK, Hopeless
  <2> QED BY <2>2, <2>3 DEF ReadInv
<1> QED BY <1>5, <1>6

(***************************************************************************)
(* The second line of a block must be the times.                           *)
(***************************************************************************)
LEMMA StepSecond ==
  ASSUME ReadInv, reader.ok, NEW line \in TextKinds, reader' = ReadLine(reader, line), Split(line), Len(block) = 1
  PROVE  ReadInv'
<1>1. /\ ReadTypeOK /\ reader \in Readers /\ line \in LineKinds /\ line # "blank"
      /\ reader.wants = "time"
  BY DEF ReadInv, ReadTypeOK, TextKinds, Wanted
<1>2. (\A k \in 1 .. Len(blocks) : Whole(blocks[k])) /\ ~ Hopeless(block)
  BY DEF ReadInv
<1>3. /\ reader.cues = [k \in 1 .. Len(blocks) + 1 |-> ReadOf(Blocks[k])]
      /\ Len(blocks) \in Nat /\ Blocks[Len(blocks) + 1] = block
      /\ \A k \in 1 .. Len(blocks) : Blocks[k] = blocks[k]
  <2>1. block # << >>
    BY <1>1, BlocksAre
  <2>2. reader.cues = [k \in 1 .. Len(Blocks) |-> ReadOf(Blocks[k])]
    BY DEF ReadInv
  <2> QED BY <1>1, <2>1, <2>2, BlocksAre
<1>4. /\ blocks' = blocks /\ block' \in Seq(TextKinds) /\ Len(block') = 2
      /\ block'[1] = block[1] /\ block'[2] = line
      /\ Len(Blocks') = Len(blocks) + 1 /\ Blocks'[Len(blocks) + 1] = block'
      /\ \A k \in 1 .. Len(blocks) : Blocks'[k] = blocks[k]
  BY <1>1, GrownByText
<1>5. CASE line = "time"
  <2>1. reader' = [reader EXCEPT !.wants = "text"]
    BY <1>1, <1>5, LineRead
  <2>2. reader' \in Readers /\ reader'.ok /\ reader'.wants = "text" /\ reader'.cues = reader.cues
    BY <1>1, <2>1 DEF Readers
  <2>3. ReadTypeOK'
    BY <1>1, <1>4, <2>2 DEF ReadTypeOK
  <2>4. ReadOf(block') = ReadOf(block)
    <3>1. Len(block') - 2 = 0 /\ Len(block) - 2 = -1
      BY <1>4
    <3>2. 1 .. -1 = 1 .. 0
      OBVIOUS
    <3>3. [i \in 1 .. 0 |-> block'[i + 2]] = [i \in 1 .. 0 |-> block[i + 2]]
      OBVIOUS
    <3>4. [i \in 1 .. Len(block') - 2 |-> block'[i + 2]] = [i \in 1 .. Len(block) - 2 |-> block[i + 2]]
      BY <3>1, <3>2, <3>3
    <3> QED BY <1>4, <3>4 DEF ReadOf
  <2>5. reader'.cues = [k \in 1 .. Len(Blocks') |-> ReadOf(Blocks'[k])]
    <3>1. \A k \in 1 .. Len(blocks) + 1 : ReadOf(Blocks[k]) = ReadOf(Blocks'[k])
      BY <1>3, <1>4, <2>4
    <3> QED BY <1>3, <1>4, <2>2, <3>1
  <2>6. ~ Hopeless(block') /\ Wanted(block') = "text"
    BY <1>2, <1>4, <1>5 DEF Hopeless, Wanted
  <2> QED BY <1>2, <1>4, <2>2, <2>3, <2>5, <2>6 DEF ReadInv
<1>6. CASE line # "time"
  <2>1. reader' = [reader EXCEPT !.ok = FALSE]
    BY <1>1, <1>6 DEF ReadLine
  <2>2. reader' \in Readers /\ ~ reader'.ok
    BY <1>1, <2>1 DEF Readers
  <2>3. ReadTypeOK' /\ Hopeless(block')
    BY <1>1, <1>4, <1>6, <2>2 DEF ReadTypeOK, Hopeless
  <2> QED BY <2>2, <2>3 DEF ReadInv
<1> QED BY <1>5, <1>6

(***************************************************************************)
(* Every other line of a block is a line of the cue's text.                *)
(***************************************************************************)
LEMMA StepText ==
  ASSUME ReadInv, reader.ok, NEW line \in TextKinds, reader' = ReadLine(reader, line), Split(line), Len(block) >= 2
  PROVE  ReadInv'
<1>1. ReadTypeOK /\ reader \in Readers /\ line \in LineKinds /\ line # "blank"
  BY DEF ReadInv, ReadTypeOK, TextKinds
<1>2. (\A k \in 1 .. Len(blocks) : Whole(blocks[k])) /\ ~ Hopeless(block) /\ reader.wants = Wanted(block)
  BY DEF ReadInv
<1>3. /\ Len(blocks) \in Nat /\ Len(block) \in Nat /\ block \in Seq(TextKinds) /\ block # << >>
      /\ Len(Blocks) = Len(blocks) + 1 /\ Blocks[Len(blocks) + 1] = block
      /\ \A k \in 1 .. Len(blocks) : Blocks[k] = blocks[k]
  <2>1. \A n \in Nat : n >= 2 => n # 0
    OBVIOUS
  <2> QED BY <1>1, <2>1, BlocksAre DEF ReadTypeOK
<1>4. reader.cues = [k \in 1 .. Len(blocks) + 1 |-> ReadOf(Blocks[k])]
  BY <1>3 DEF ReadInv
<1>5. /\ blocks' = blocks /\ block' \in Seq(TextKinds) /\ block' = Append(block, line)
      /\ Len(block') = Len(block) + 1
      /\ \A i \in 1 .. Len(block) : block'[i] = block[i]
      /\ Len(Blocks') = Len(blocks) + 1 /\ Blocks'[Len(blocks) + 1] = block'
      /\ \A k \in 1 .. Len(blocks) : Blocks'[k] = blocks[k]
  BY <1>1, GrownByText
<1>6. reader.wants \in {"text", "more"}
  <2>1. \A n \in Nat : n >= 2 => n # 0 /\ n # 1
    OBVIOUS
  <2>2. Len(block) # 0 /\ Len(block) # 1
    BY <1>3, <2>1
  <2> QED BY <1>2, <2>2 DEF Wanted
<1> DEFINE n == Len(blocks) + 1
           grown == [reader.cues EXCEPT ![n] = [reader.cues[n] EXCEPT !.text = Append(reader.cues[n].text, line)]]
           read == [k \in 1 .. n |-> ReadOf(Blocks'[k])]
<1>7. reader.cues \in Seq(CueTexts) /\ Len(reader.cues) = n /\ n \in Nat
  BY <1>1, <1>3, <1>4 DEF Readers
<1>8. reader' = [reader EXCEPT !.wants = "more", !.cues = grown]
  <2>1. reader' = [reader EXCEPT !.wants = "more", !.cues[Len(reader.cues)].text = Append(@, line)]
    BY <1>1, <1>6, LineRead
  <2> QED BY <1>7, <2>1
<1>9. grown = read
  <2>1. reader.cues[n] = ReadOf(block)
    BY <1>3, <1>4
  <2>2. [ReadOf(block) EXCEPT !.text = Append(@, line)] = ReadOf(block')
    BY <1>3, <1>5, ReadGrown
  <2>3. grown = [reader.cues EXCEPT ![n] = ReadOf(block')]
    BY <2>1, <2>2, Zenon
  <2>4. \A k \in 1 .. n : [reader.cues EXCEPT ![n] = ReadOf(block')][k] = ReadOf(Blocks'[k])
    <3> TAKE k \in 1 .. n
    <3>1. DOMAIN reader.cues = 1 .. n
      BY <1>4
    <3>2. CASE k = n
      BY <1>5, <3>1, <3>2
    <3>3. CASE k # n
      <4>1. k \in 1 .. Len(blocks)
        BY <1>3, <3>3
      <4> QED BY <1>3, <1>4, <1>5, <3>1, <3>3, <4>1
    <3> QED BY <3>2, <3>3
  <2>5. [reader.cues EXCEPT ![n] = ReadOf(block')] = [k \in 1 .. n |-> [reader.cues EXCEPT ![n] = ReadOf(block')][k]]
    BY <1>4
  <2> QED BY <2>3, <2>4, <2>5
<1>10. ~ Hopeless(block') /\ Wanted(block') = "more"
  <2>1. \A m \in Nat : m >= 2 => m + 1 # 0 /\ m + 1 # 1 /\ m + 1 # 2 /\ 1 \in 1 .. m /\ 2 \in 1 .. m
    OBVIOUS
  <2>2. Len(block') # 0 /\ Len(block') # 1 /\ Len(block') # 2 /\ block'[1] = block[1] /\ block'[2] = block[2]
    BY <1>3, <1>5, <2>1
  <2>3. Len(block) >= 1 /\ Len(block) >= 2
    BY <1>3
  <2> QED BY <1>2, <2>2, <2>3 DEF Hopeless, Wanted
<1>11. blocks' \in Seq(Seq(TextKinds))
  BY <1>1, <1>5 DEF ReadTypeOK
<1>12. read \in Seq(CueTexts)
  <2>1. \A k \in 1 .. n : ReadOf(Blocks'[k]) \in CueTexts
    <3> TAKE k \in 1 .. n
    <3>1. CASE k \in 1 .. Len(blocks)
      <4>1. reader.cues[k] \in CueTexts /\ reader.cues[k] = ReadOf(Blocks'[k])
        BY <1>3, <1>4, <1>5, <1>7, <3>1, ElementOfSeq
      <4> QED BY <4>1
    <3>2. CASE k = n
      <4>1. Len(block') >= 1 /\ block'[1] \in Heads
        <5>1. block[1] \in Heads /\ block'[1] = block[1]
          <6>1. \A m \in Nat : m >= 2 => m >= 1 /\ 1 \in 1 .. m
            OBVIOUS
          <6> QED BY <1>2, <1>3, <1>5, <6>1 DEF Hopeless
        <5> QED BY <1>3, <1>5, <5>1
      <4>2. ReadOf(block') \in CueTexts
        BY <1>5, <4>1, ReadIsCue DEF CueTexts
      <4> QED BY <1>5, <3>2, <4>2
    <3> QED BY <1>3, <3>1, <3>2
  <2> HIDE DEF n
  <2> QED BY <1>7, <2>1
<1>13. reader' \in Readers /\ reader'.ok /\ reader'.wants = "more" /\ reader'.cues = read
  <2> HIDE DEF n, grown, read
  <2> QED BY <1>1, <1>8, <1>9, <1>12 DEF Readers
<1>14. ReadTypeOK'
  BY <1>5, <1>11, <1>13 DEF ReadTypeOK
<1> QED BY <1>2, <1>5, <1>10, <1>13, <1>14 DEF ReadInv

(***************************************************************************)
(* armB's cue of a block is armA's with its lines stripped.                *)
(***************************************************************************)
LEMMA CueStripped ==
  ASSUME NEW b \in Seq(TextKinds), Len(b) >= 3
  PROVE  Stripped(ReadOf(b)) = CueOf(b)
<1>1. Len(b) - 2 \in Nat
  BY LenProperties
<1> DEFINE t == [i \in 1 .. Len(b) - 2 |-> b[i + 2]]
<1>2. Len(t) = Len(b) - 2
  BY <1>1
<1>3. [i \in 1 .. Len(t) |-> Strip(t[i])] = [i \in 1 .. Len(b) - 2 |-> Strip(b[i + 2])]
  BY <1>2
<1>4. ReadOf(b) = [index |-> b[1], text |-> t] /\ ReadOf(b).text = t /\ ReadOf(b).index = b[1]
  BY DEF ReadOf
<1> HIDE DEF t
<1>5. \A u : [ReadOf(b) EXCEPT !.text = u] = [index |-> b[1], text |-> u]
  BY <1>4
<1> QED BY <1>3, <1>4, <1>5 DEF Stripped, CueOf

(***************************************************************************)
(* armB lets a block through when it is whole and its index is one         *)
(* isdigit() takes.                                                        *)
(***************************************************************************)
LEMMA WholeIsValid ==
  ASSUME NEW b \in Seq(TextKinds)
  PROVE  Valid(b) <=> Whole(b) /\ b[1] = "index"
BY DEF Valid, Whole, Heads

(***************************************************************************)
(* As long as armA's loop has read what the blocks hold, both arms return  *)
(* the same cues or both raise ValueError.                                 *)
(***************************************************************************)
LEMMA BothReadAlike ==
  ASSUME ReadInv
  PROVE  IF ParseA.ok /\ \A k \in 1 .. Len(ParseA.cues) : ParseA.cues[k].index = "index"
         THEN ParseB = Accepted([k \in 1 .. Len(ParseA.cues) |-> Stripped(ParseA.cues[k])])
         ELSE ParseB = Refused
<1>1. /\ ReadTypeOK /\ reader \in Readers /\ Len(block) \in Nat /\ Len(blocks) \in Nat /\ Len(Blocks) \in Nat
      /\ block \in Seq(TextKinds) /\ blocks \in Seq(Seq(TextKinds)) /\ Blocks \in Seq(Seq(TextKinds))
  BY BlocksAre, LenProperties DEF ReadInv, ReadTypeOK
<1>2. \A k \in 1 .. Len(Blocks) : Blocks[k] \in Seq(TextKinds)
  BY <1>1, ElementOfSeq
<1>3. ASSUME NEW k \in 1 .. Len(Blocks), ~ Whole(Blocks[k])
      PROVE  ParseB = Refused
  <2>1. ~ Valid(Blocks[k])
    BY <1>2, <1>3, WholeIsValid
  <2> QED BY <2>1 DEF ParseB
<1>4. \A k \in 1 .. Len(blocks) : k \in 1 .. Len(Blocks) /\ Blocks[k] = blocks[k]
  BY <1>1, BlocksAre
<1>5. block # << >> => Len(blocks) + 1 \in 1 .. Len(Blocks) /\ Blocks[Len(blocks) + 1] = block
  BY <1>1, BlocksAre
<1>6. CASE ~ reader.ok
  <2>1. ParseA = Refused /\ ~ ParseA.ok
    BY <1>6 DEF ParseA, Refused
  <2>2. ParseB = Refused
    <3>1. CASE Hopeless(block)
      <4>1. ~ Whole(block) /\ block # << >>
        BY <1>1, <3>1, WholeOrHopeless, BlocksAre DEF Hopeless
      <4> QED BY <1>3, <1>5, <4>1
    <3>2. CASE \E k \in 1 .. Len(blocks) : ~ Whole(blocks[k])
      BY <1>3, <1>4, <3>2
    <3> QED BY <1>6, <3>1, <3>2 DEF ReadInv
  <2> QED BY <2>1, <2>2
<1>7. CASE reader.ok /\ reader.wants \in {"time", "text"}
  <2>1. ParseA = Refused /\ ~ ParseA.ok
    BY <1>7 DEF ParseA, Refused
  <2>2. Len(block) \in {1, 2}
    <3>1. reader.wants = Wanted(block)
      BY <1>7 DEF ReadInv
    <3>2. Len(block) = 1 \/ Len(block) = 2
      BY <1>7, <3>1 DEF Wanted
    <3> QED BY <3>2
  <2>3. ~ Whole(block) /\ block # << >>
    <3>0. \A n \in {1, 2} : ~ (n >= 3) /\ n # 0
      OBVIOUS
    <3>1. ~ (Len(block) >= 3) /\ Len(block) # 0
      BY <2>2, <3>0
    <3>2. block # << >>
      BY <1>1, <3>1, BlocksAre
    <3> QED BY <3>1, <3>2 DEF Whole
  <2> QED BY <1>3, <1>5, <2>1, <2>3
<1>8. CASE reader.ok /\ reader.wants \in {"index", "more"}
  <2> DEFINE read == [k \in 1 .. Len(Blocks) |-> ReadOf(Blocks[k])]
  <2>1. reader.cues = read
    BY <1>8 DEF ReadInv
  <2>2. ParseA.ok /\ ParseA.cues = read
    <3>1. ParseA = Accepted(reader.cues)
      BY <1>8 DEF ParseA
    <3> HIDE DEF read
    <3> QED BY <2>1, <3>1 DEF Accepted
  <2>3. Len(read) = Len(Blocks)
    BY <1>1
  <2>4. \A k \in 1 .. Len(Blocks) : Whole(Blocks[k])
    <3>1. block # << >> => Whole(block)
      <4>1. ~ Hopeless(block) /\ reader.wants = Wanted(block)
        BY <1>8 DEF ReadInv
      <4>2. Len(block) # 1 /\ Len(block) # 2
        BY <1>8, <4>1 DEF Wanted
      <4>3. \A n \in Nat : n = 0 \/ n = 1 \/ n = 2 \/ n >= 3
        OBVIOUS
      <4>4. Len(block) = 0 \/ Len(block) >= 3
        BY <1>1, <4>2, <4>3
      <4> QED BY <1>1, <4>1, <4>4, WholeOrHopeless, BlocksAre
    <3>2. \A k \in 1 .. Len(blocks) : Whole(blocks[k])
      BY <1>8 DEF ReadInv
    <3> QED BY <1>1, <3>1, <3>2, BlocksAre
  <2>5. \A k \in 1 .. Len(Blocks) : ReadOf(Blocks[k]).index = Blocks[k][1]
    BY DEF ReadOf
  <2>6. CASE \A k \in 1 .. Len(Blocks) : Blocks[k][1] = "index"
    <3>1. \A k \in 1 .. Len(Blocks) : Valid(Blocks[k])
      BY <1>2, <2>4, <2>6, WholeIsValid
    <3>2. \A k \in 1 .. Len(Blocks) : Stripped(read[k]) = CueOf(Blocks[k])
      BY <1>2, <2>4, CueStripped DEF Whole
    <3>3. ParseB = Accepted([k \in 1 .. Len(Blocks) |-> CueOf(Blocks[k])])
      BY <3>1 DEF ParseB
    <3>4. [k \in 1 .. Len(Blocks) |-> CueOf(Blocks[k])] = [k \in 1 .. Len(ParseA.cues) |-> Stripped(ParseA.cues[k])]
      <4> HIDE DEF read
      <4> QED BY <2>2, <2>3, <3>2
    <3>5. \A k \in 1 .. Len(ParseA.cues) : ParseA.cues[k].index = "index"
      BY <2>2, <2>3, <2>5, <2>6
    <3> QED BY <2>2, <3>3, <3>4, <3>5
  <2>7. CASE ~ \A k \in 1 .. Len(Blocks) : Blocks[k][1] = "index"
    <3>1. PICK k \in 1 .. Len(Blocks) : Blocks[k][1] # "index"
      BY <2>7
    <3>2. ~ Valid(Blocks[k])
      BY <1>2, <3>1, WholeIsValid
    <3>3. ParseB = Refused
      BY <3>2 DEF ParseB
    <3>4. k \in 1 .. Len(ParseA.cues) /\ ParseA.cues[k].index # "index"
      BY <2>2, <2>3, <2>5, <3>1
    <3> QED BY <3>3, <3>4
  <2> QED BY <2>6, <2>7
<1> QED BY <1>1, <1>6, <1>7, <1>8 DEF Readers

ReadersInv == ReadInv /\ stamp \in Stamps

(***************************************************************************)
(* Line by line, armA's loop has read exactly the blocks armB will split   *)
(* the text into: one cue of every block, the last one as far as it goes,  *)
(* and it has refused the text exactly when some block is beyond mending.  *)
(***************************************************************************)
THEOREM ReadersInvariant == SubcutSpec => []ReadersInv
<1>1. SubcutInit => ReadersInv
  <2> SUFFICES ASSUME SubcutInit PROVE ReadersInv
    OBVIOUS
  <2>1. reader = Reading /\ blocks = << >> /\ block = << >> /\ stamp \in Stamps
    BY DEF SubcutInit
  <2>2. reader.ok /\ reader.wants = "index" /\ reader.cues = << >> /\ reader \in Readers
    BY <2>1, EmptySeq DEF Reading, Readers
  <2>3. ReadTypeOK
    BY <2>1, <2>2, EmptySeq DEF ReadTypeOK
  <2>4. Blocks = << >> /\ Len(Blocks) = 0
    BY <2>1 DEF Blocks
  <2>5. reader.cues = [k \in 1 .. Len(Blocks) |-> ReadOf(Blocks[k])]
    <3>1. << >> = [k \in 1 .. 0 |-> ReadOf(Blocks[k])]
      OBVIOUS
    <3> QED BY <2>2, <2>4, <3>1
  <2>6. Wanted(block) = "index" /\ ~ Hopeless(block) /\ \A k \in 1 .. Len(blocks) : Whole(blocks[k])
    BY <2>1 DEF Wanted, Hopeless
  <2> QED BY <2>1, <2>2, <2>3, <2>5, <2>6 DEF ReadersInv, ReadInv
<1>2. ReadersInv /\ [SubcutNext]_subcutVars => ReadersInv'
  <2> SUFFICES ASSUME ReadersInv, [SubcutNext]_subcutVars PROVE ReadersInv'
    OBVIOUS
  <2>1. ReadInv /\ stamp \in Stamps
    BY DEF ReadersInv
  <2>2. CASE UNCHANGED << readVars, stamp >>
    BY <2>1, <2>2 DEF ReadersInv, readVars, ReadInv, ReadTypeOK, Blocks
  <2>3. ASSUME NEW line \in LineKinds, Feed(line)
        PROVE  ReadersInv'
    <3>1. reader' = ReadLine(reader, line) /\ Split(line) /\ stamp' = stamp
      BY <2>3 DEF Feed
    <3>2. CASE ~ reader.ok
      BY <2>1, <3>1, <3>2, StepRefused DEF ReadersInv
    <3>3. CASE reader.ok /\ line = "blank"
      BY <2>1, <3>1, <3>3, StepBlank DEF ReadersInv
    <3>4. CASE reader.ok /\ line # "blank"
      <4>1. line \in TextKinds
        BY <3>4 DEF TextKinds
      <4>2. Len(block) \in Nat
        BY <2>1, LenProperties DEF ReadInv, ReadTypeOK
      <4>3. \A n \in Nat : n = 0 \/ n = 1 \/ n >= 2
        OBVIOUS
      <4>4. Len(block) = 0 \/ Len(block) = 1 \/ Len(block) >= 2
        BY <4>2, <4>3
      <4> QED BY <2>1, <3>1, <3>4, <4>1, <4>4, StepFirst, StepSecond, StepText DEF ReadersInv
    <3> QED BY <3>2, <3>3, <3>4
  <2>4. CASE CueStep
    BY <2>2, <2>4 DEF CueStep, MergeBegins, InMerge, JoinA, JoinB, MergeEnds, Shift
  <2>5. CASE UNCHANGED subcutVars
    BY <2>2, <2>5 DEF subcutVars
  <2> QED BY <2>3, <2>4, <2>5 DEF SubcutNext
<1> QED BY <1>1, <1>2, PTL DEF SubcutSpec

(***************************************************************************)
(* parse_srt of both arms accepts the same texts, of any number of lines,  *)
(* and reads the same cues from them, but for the blanks armB strips and   *)
(* the indices only int() takes; and they read and write the same          *)
(* timestamps.                                                             *)
(***************************************************************************)
THEOREM ReadersAlwaysAgree == SubcutSpec => []ReadersAgree
<1>1. ReadersInv => ReadersAgree
  <2> SUFFICES ASSUME ReadersInv PROVE ReadersAgree
    OBVIOUS
  <2>1. StampsRoundTrip
    <3>1. stamp \in [h : Nat, m : Nat, s : Nat, ms : 0 .. 999, width : Nat, sep : {",", "."}]
      BY StampsAssumption DEF ReadersInv
    <3> QED BY <3>1, EveryStampRoundTrips DEF Thousand
  <2> QED BY <2>1, BothReadAlike DEF ReadersAgree, ReadersInv
<1> QED BY <1>1, ReadersInvariant, PTL

----------------------------------------------------------------------------
(*                           Merging and shifting                          *)

\* Cues, and a listing of the positions of cues in their order.
Cues == [index : Nat, start : Int, end : Int, text : Seq(Nat)]

Sorts(p, n, earlier) ==
    /\ p \in [1 .. n -> 1 .. n]
    /\ \A i, j \in 1 .. n : i < j => << p[i], p[j] >> \in earlier

(***************************************************************************)
(* The key both arms sort by, start and then position, puts any two cues   *)
(* in order.                                                               *)
(***************************************************************************)
LEMMA EarlierIsAnOrder ==
  ASSUME NEW cs \in Seq(Cues)
  PROVE  /\ \A i, j \in 1 .. Len(cs) : i # j => << i, j >> \in Earlier(cs) \/ << j, i >> \in Earlier(cs)
         /\ \A i, j, k \in 1 .. Len(cs) :
               << i, j >> \in Earlier(cs) /\ << j, k >> \in Earlier(cs) => << i, k >> \in Earlier(cs)
         /\ \A i, j \in 1 .. Len(cs) : << i, j >> \in Earlier(cs) => cs[i].start <= cs[j].start
<1> DEFINE N == Len(cs)
           from == [i \in 1 .. N |-> cs[i].start]
<1>1. N \in Nat /\ \A i \in 1 .. N : from[i] \in Int /\ i \in Int
  <2>1. \A i \in 1 .. Len(cs) : cs[i] \in Cues
    BY ElementOfSeq
  <2>2. \A i \in 1 .. Len(cs) : cs[i].start \in Int
    BY <2>1 DEF Cues
  <2> QED BY <2>2, LenProperties
<1>2. \A i, j \in 1 .. N : << i, j >> \in Earlier(cs) <=> from[i] < from[j] \/ (from[i] = from[j] /\ i < j)
  BY DEF Earlier
<1>3. \A i \in 1 .. N : cs[i].start = from[i]
  OBVIOUS
<1> HIDE DEF N, from
<1>4. \A i, j \in 1 .. N : i # j => << i, j >> \in Earlier(cs) \/ << j, i >> \in Earlier(cs)
  BY <1>1, <1>2
<1>5. \A i, j, k \in 1 .. N : << i, j >> \in Earlier(cs) /\ << j, k >> \in Earlier(cs) => << i, k >> \in Earlier(cs)
  <2> TAKE i, j, k \in 1 .. N
  <2>1. from[i] \in Int /\ from[j] \in Int /\ from[k] \in Int /\ i \in Int /\ j \in Int /\ k \in Int
    BY <1>1
  <2>2. \A a, b, c \in Int :
          /\ a < b \/ (a = b /\ i < j)
          /\ b < c \/ (b = c /\ j < k)
          => a < c \/ (a = c /\ i < k)
    BY <2>1
  <2> QED BY <1>2, <2>1, <2>2
<1>6. \A i, j \in 1 .. N : << i, j >> \in Earlier(cs) => cs[i].start <= cs[j].start
  BY <1>1, <1>2, <1>3
<1> QED BY <1>4, <1>5, <1>6 DEF N

(***************************************************************************)
(* A list in order with one more position, put where the key puts it.      *)
(***************************************************************************)
LEMMA OneMoreInOrder ==
  ASSUME NEW cs \in Seq(Cues), NEW n \in Nat, n + 1 <= Len(cs), NEW p, Sorts(p, n, Earlier(cs))
  PROVE  \E r : Sorts(r, n + 1, Earlier(cs))
<1> DEFINE R == Earlier(cs)
           Q == {k \in 1 .. n + 1 : k = n + 1 \/ << n + 1, p[k] >> \in R}
<1>1. Q \in SUBSET Nat /\ n + 1 \in Q
  OBVIOUS
<1>2. PICK q \in Q : \A k \in Q : q <= k
  <2> HIDE DEF Q
  <2> QED BY <1>1, LeastNat
<1>3. /\ q \in 1 .. n + 1
      /\ q <= n => << n + 1, p[q] >> \in R
      /\ \A k \in 1 .. n + 1 : k < q => k <= n /\ << n + 1, p[k] >> \notin R
  <2>1. q \in 1 .. n + 1 /\ (q <= n => << n + 1, p[q] >> \in R)
    BY <1>2
  <2>2. ASSUME NEW k \in 1 .. n + 1, k < q
        PROVE  k \notin Q
    <3> HIDE DEF Q
    <3>1. q \in Nat /\ k \in Nat
      BY <2>1
    <3> QED BY <1>2, <2>2, <3>1
  <2> QED BY <2>1, <2>2
<1>0. q \in Nat /\ 1 <= q /\ q <= n + 1
  BY <1>3
<1>4. /\ \A i \in 1 .. n : p[i] \in 1 .. n
      /\ \A i, j \in 1 .. n : i < j => << p[i], p[j] >> \in R
  BY DEF Sorts
<1>5. Len(cs) \in Nat /\ \A i \in 1 .. n : p[i] \in 1 .. Len(cs) /\ p[i] # n + 1
  BY <1>4, LenProperties
<1> HIDE DEF Q, R
<1>6. \A i \in 1 .. n : i < q => << p[i], n + 1 >> \in R
  <2> TAKE i \in 1 .. n
  <2> HAVE i < q
  <2>1. i \in 1 .. n + 1 /\ << n + 1, p[i] >> \notin R
    BY <1>3
  <2>2. n + 1 \in 1 .. Len(cs) /\ p[i] \in 1 .. Len(cs) /\ p[i] # n + 1
    BY <1>5
  <2> QED BY <2>1, <2>2, EarlierIsAnOrder DEF R
<1>7. \A j \in 1 .. n : q <= j => << n + 1, p[j] >> \in R
  <2> TAKE j \in 1 .. n
  <2> HAVE q <= j
  <2>0. q \in 1 .. n /\ q <= n
    BY <1>0
  <2>1. q \in 1 .. n /\ << n + 1, p[q] >> \in R
    BY <1>3, <2>0
  <2>2. CASE q = j
    BY <2>1, <2>2
  <2>3. CASE q < j
    <3>1. << p[q], p[j] >> \in R
      BY <1>4, <2>1, <2>3
    <3>2. n + 1 \in 1 .. Len(cs) /\ p[q] \in 1 .. Len(cs) /\ p[j] \in 1 .. Len(cs)
      BY <1>5, <2>1
    <3> QED BY <2>1, <3>1, <3>2, EarlierIsAnOrder DEF R
  <2>4. q = j \/ q < j
    BY <1>0
  <2> QED BY <2>2, <2>3, <2>4
<1> DEFINE r == [i \in 1 .. n + 1 |-> IF i < q THEN p[i] ELSE IF i = q THEN n + 1 ELSE p[i - 1]]
<1>8. /\ \A i \in 1 .. n + 1 : i < q => i \in 1 .. n /\ r[i] = p[i]
      /\ r[q] = n + 1
      /\ \A i \in 1 .. n + 1 : q < i => i - 1 \in 1 .. n /\ q <= i - 1 /\ r[i] = p[i - 1]
  <2>2. \A i \in 1 .. n + 1 : i < q => i \in 1 .. n /\ r[i] = p[i]
    BY <1>0
  <2>3. r[q] = n + 1
    BY <1>0
  <2>4. \A i \in 1 .. n + 1 : q < i => i - 1 \in 1 .. n /\ q <= i - 1
    BY <1>0
  <2>5. \A i \in 1 .. n + 1 : q < i => r[i] = p[i - 1]
    BY <1>0
  <2> QED BY <2>2, <2>3, <2>4, <2>5
<1>9. \A i \in 1 .. n + 1 : i < q \/ i = q \/ q < i
  BY <1>0
<1>10. r \in [1 .. n + 1 -> 1 .. n + 1]
  <2>1. \A i \in 1 .. n + 1 : r[i] \in 1 .. n + 1
    <3> HIDE DEF r
    <3>1. \A i \in 1 .. n : p[i] \in 1 .. n + 1
      BY <1>4
    <3>2. n + 1 \in 1 .. n + 1
      OBVIOUS
    <3> QED BY <1>8, <1>9, <3>1, <3>2
  <2> QED BY <2>1
<1>11. ASSUME NEW i \in 1 .. n + 1, NEW j \in 1 .. n + 1, i < j
       PROVE  << r[i], r[j] >> \in R
  <2> HIDE DEF r
  <2>0. i \in Nat /\ j \in Nat /\ q \in Nat
    BY <1>0
  <2>1. CASE j < q
    <3>1. i < q
      BY <1>11, <2>0, <2>1
    <3> QED BY <1>4, <1>8, <1>11, <2>1, <3>1
  <2>2. CASE j = q
    <3>1. i < q
      BY <1>11, <2>0, <2>2
    <3> QED BY <1>6, <1>8, <2>2, <3>1
  <2>3. CASE q < j /\ i < q
    <3>1. j - 1 \in 1 .. n /\ r[j] = p[j - 1] /\ r[i] = p[i] /\ i \in 1 .. n
      BY <1>8, <2>3
    <3>2. i < j - 1
      BY <2>0, <2>3
    <3> QED BY <1>4, <3>1, <3>2
  <2>4. CASE q < j /\ i = q
    BY <1>7, <1>8, <2>4
  <2>5. CASE q < i
    <3>1. q < j
      BY <1>11, <2>0, <2>5
    <3>2. /\ j - 1 \in 1 .. n /\ r[j] = p[j - 1]
          /\ i - 1 \in 1 .. n /\ r[i] = p[i - 1]
      BY <1>8, <2>5, <3>1
    <3>3. i - 1 < j - 1
      BY <1>11, <2>0
    <3> QED BY <1>4, <3>2, <3>3
  <2> QED BY <1>9, <2>1, <2>2, <2>3, <2>4, <2>5
<1>12. Sorts(r, n + 1, Earlier(cs))
  <2> HIDE DEF r
  <2> QED BY <1>10, <1>11 DEF Sorts, R
<1> QED BY <1>12

(***************************************************************************)
(* Every list can be sorted by the key.                                    *)
(***************************************************************************)
LEMMA SomeOrder ==
  ASSUME NEW cs \in Seq(Cues)
  PROVE  \E p : Sorts(p, Len(cs), Earlier(cs))
<1>1. Len(cs) \in Nat
  BY LenProperties
<1> DEFINE T == {n \in 0 .. Len(cs) : ~ \E p : Sorts(p, n, Earlier(cs))}
<1>2. T = {}
  <2> SUFFICES ASSUME T # {} PROVE FALSE
    OBVIOUS
  <2>1. T \in SUBSET Nat
    OBVIOUS
  <2>2. PICK m \in T : \A k \in T : m <= k
    <3> HIDE DEF T
    <3> QED BY <2>1, LeastNat
  <2>3. CASE m = 0
    <3>1. Sorts([i \in 1 .. 0 |-> i], 0, Earlier(cs))
      BY DEF Sorts
    <3> QED BY <2>2, <2>3, <3>1
  <2>4. CASE m # 0
    <3>1. m - 1 \in 0 .. Len(cs) /\ ~ (m <= m - 1) /\ (m - 1) + 1 = m /\ m - 1 \in Nat /\ m <= Len(cs)
      BY <1>1, <2>2, <2>4
    <3>2. PICK p : Sorts(p, m - 1, Earlier(cs))
      BY <2>2, <3>1
    <3>3. \E r : Sorts(r, m, Earlier(cs))
      BY <3>1, <3>2, OneMoreInOrder
    <3> QED BY <2>2, <3>3
  <2> QED BY <2>3, <2>4
<1> QED BY <1>1, <1>2

(***************************************************************************)
(* InOrder is a listing in the order of the key.                           *)
(***************************************************************************)
LEMMA OrderSorts ==
  ASSUME NEW cs \in Seq(Cues)
  PROVE  Sorts(InOrder(Len(cs), Earlier(cs)), Len(cs), Earlier(cs))
<1>1. PICK p : Sorts(p, Len(cs), Earlier(cs))
  BY SomeOrder
<1> QED BY <1>1, Zenon DEF InOrder, Sorts

(***************************************************************************)
(* The sorted cues are the cues given, by ascending start.                 *)
(***************************************************************************)
LEMMA SortedIs ==
  ASSUME NEW cs \in Seq(Cues)
  PROVE  /\ ByStart(cs) \in Seq(Cues) /\ Len(ByStart(cs)) = Len(cs)
         /\ \A i, j \in 1 .. Len(cs) : i <= j => ByStart(cs)[i].start <= ByStart(cs)[j].start
         /\ \A k \in 1 .. Len(cs) : \E i \in 1 .. Len(cs) : ByStart(cs)[k] = cs[i]
<1> DEFINE p == InOrder(Len(cs), Earlier(cs))
           N == Len(cs)
<1>1. N \in Nat /\ \A i \in 1 .. N : cs[i] \in Cues
  BY LenProperties, ElementOfSeq
<1>2. p \in [1 .. N -> 1 .. N] /\ \A i, j \in 1 .. N : i < j => << p[i], p[j] >> \in Earlier(cs)
  BY OrderSorts DEF Sorts
<1>3. ByStart(cs) = [k \in 1 .. N |-> cs[p[k]]]
  BY DEF ByStart
<1> HIDE DEF p
<1>4. \A k \in 1 .. N : p[k] \in 1 .. N /\ cs[p[k]] \in Cues
  BY <1>1, <1>2
<1>5. ByStart(cs) \in Seq(Cues) /\ Len(ByStart(cs)) = N
  <2> HIDE DEF N
  <2> QED BY <1>1, <1>3, <1>4
<1>6. \A k \in 1 .. N : ByStart(cs)[k] = cs[p[k]]
  BY <1>3
<1>7. ASSUME NEW i \in 1 .. N, NEW j \in 1 .. N, i <= j
      PROVE  ByStart(cs)[i].start <= ByStart(cs)[j].start
  <2>1. CASE i = j
    <3>1. ByStart(cs)[i].start \in Int
      BY <1>4, <1>6 DEF Cues
    <3>2. \A x \in Int : x <= x
      OBVIOUS
    <3> QED BY <2>1, <3>1, <3>2
  <2>2. CASE i < j
    <3>1. << p[i], p[j] >> \in Earlier(cs) /\ p[i] \in 1 .. N /\ p[j] \in 1 .. N
      BY <1>2, <2>2
    <3> QED BY <1>6, <3>1, EarlierIsAnOrder
  <2> QED BY <1>7, <2>1, <2>2
<1> QED BY <1>4, <1>5, <1>6, <1>7

(***************************************************************************)
(* A listing of the positions in ascending order lists each at its own     *)
(* place.                                                                  *)
(***************************************************************************)
LEMMA RisingIsPlain ==
  ASSUME NEW n \in Nat, NEW p \in [1 .. n -> 1 .. n], \A i, j \in 1 .. n : i < j => p[i] < p[j]
  PROVE  \A i \in 1 .. n : p[i] = i
<1>1. \A i \in 1 .. n : p[i] \in 1 .. n
  OBVIOUS
<1>2. \A i \in 1 .. n : p[i] >= i
  <2> DEFINE T == {i \in 1 .. n : p[i] < i}
  <2> SUFFICES T = {}
    BY <1>1
  <2> SUFFICES ASSUME T # {} PROVE FALSE
    OBVIOUS
  <2>1. PICK m \in T : \A k \in T : m <= k
    <3>1. T \in SUBSET Nat
      OBVIOUS
    <3> HIDE DEF T
    <3> QED BY <3>1, LeastNat
  <2>2. m \in 1 .. n /\ p[m] < m /\ p[m] \in 1 .. n
    BY <1>1, <2>1
  <2>3. p[p[m]] < p[m]
    BY <2>2
  <2>4. p[m] \in T
    BY <2>2, <2>3
  <2>5. m <= p[m]
    BY <2>1, <2>4
  <2> QED BY <2>2, <2>5
<1>3. \A i \in 1 .. n : p[i] <= i
  <2> DEFINE T == {j \in 0 .. n - 1 : p[n - j] > n - j}
  <2> SUFFICES ASSUME NEW i \in 1 .. n, p[i] > i PROVE FALSE
    BY <1>1
  <2>0. n - i \in 0 .. n - 1 /\ n - (n - i) = i
    OBVIOUS
  <2>1. n - i \in T
    BY <2>0
  <2>2. PICK m \in T : \A k \in T : m <= k
    <3>1. T \in SUBSET Nat
      OBVIOUS
    <3> HIDE DEF T
    <3> QED BY <2>1, <3>1, LeastNat
  <2>3. m \in 0 .. n - 1 /\ p[n - m] > n - m
    BY <2>2
  <2> DEFINE x == p[n - m]
  <2>4. n - m \in 1 .. n /\ x \in 1 .. n /\ x > n - m
    BY <1>1, <2>3
  <2>5. p[x] > x
    BY <2>4
  <2> HIDE DEF x
  <2>6. n - x \in 0 .. n - 1 /\ n - (n - x) = x /\ n - x < m
    BY <2>3, <2>4
  <2>7. n - x \in T
    BY <2>5, <2>6
  <2>8. m <= n - x
    BY <2>2, <2>7
  <2> QED BY <2>3, <2>6, <2>8
<1> QED BY <1>1, <1>2, <1>3

(***************************************************************************)
(* Sorting cues that are settled already leaves them where they are.       *)
(***************************************************************************)
LEMMA SettledStays ==
  ASSUME NEW cs \in Seq(Cues), Settled(cs)
  PROVE  ByStart(cs) = cs
<1> DEFINE p == InOrder(Len(cs), Earlier(cs))
           N == Len(cs)
<1>1. N \in Nat /\ \A i \in 1 .. N : cs[i] \in Cues
  BY LenProperties, ElementOfSeq
<1>2. p \in [1 .. N -> 1 .. N] /\ \A i, j \in 1 .. N : i < j => << p[i], p[j] >> \in Earlier(cs)
  BY OrderSorts DEF Sorts
<1>3. \A a, b \in 1 .. N : << a, b >> \in Earlier(cs) => a < b
  <2> TAKE a, b \in 1 .. N
  <2> HAVE << a, b >> \in Earlier(cs)
  <2>1. cs[a].start < cs[b].start \/ (cs[a].start = cs[b].start /\ a < b)
    BY DEF Earlier
  <2>2. b < a => cs[b].start <= cs[a].start
    BY DEF Settled
  <2>3. cs[a].start \in Int /\ cs[b].start \in Int
    BY <1>1 DEF Cues
  <2>4. \A u, v \in Int : u < v => ~ (v <= u) /\ u # v
    OBVIOUS
  <2>5. a \in Int /\ b \in Int
    OBVIOUS
  <2>6. (~ (b < a) /\ a # b) \/ a < b
    BY <2>1, <2>2, <2>3, <2>4
  <2> QED BY <2>5, <2>6
<1>4. \A i \in 1 .. N : p[i] = i
  <2> HIDE DEF p, N
  <2>1. \A i, j \in 1 .. N : i < j => p[i] < p[j]
    BY <1>2, <1>3
  <2> QED BY <1>1, <1>2, <2>1, RisingIsPlain
<1>5. ByStart(cs) = [k \in 1 .. N |-> cs[p[k]]]
  BY DEF ByStart
<1>6. cs = [k \in 1 .. N |-> cs[k]]
  BY LenProperties
<1> HIDE DEF p, N
<1> QED BY <1>4, <1>5, <1>6

\* No time of the cues is clamped when they are shifted by d.
Unclamped(cs, d) == \A i \in 1 .. Len(cs) : cs[i].start + d >= 0 /\ cs[i].end + d >= 0

(***************************************************************************)
(* max(0, t).                                                              *)
(***************************************************************************)
LEMMA ClampIs ==
  ASSUME NEW t \in Int
  PROVE  Clamp(t) \in Int /\ (t >= 0 => Clamp(t) = t)
<1>1. \E x \in {0, t} : \A y \in {0, t} : x >= y
  <2>1. CASE t >= 0
    BY <2>1
  <2>2. CASE ~ (t >= 0)
    BY <2>2
  <2> QED BY <2>1, <2>2
<1>2. Clamp(t) \in {0, t} /\ \A y \in {0, t} : Clamp(t) >= y
  BY <1>1 DEF Clamp, Max
<1> QED BY <1>2

(***************************************************************************)
(* What shift_cues returns: the same cues in the same order, moved where   *)
(* no time falls below zero.                                               *)
(***************************************************************************)
LEMMA ShiftIs ==
  ASSUME NEW cs \in Seq(Cues), NEW d \in Int
  PROVE  /\ ShiftA(cs, d) \in Seq(Cues) /\ Len(ShiftA(cs, d)) = Len(cs)
         /\ \A i \in 1 .. Len(cs) :
               /\ ShiftA(cs, d)[i].index = cs[i].index /\ ShiftA(cs, d)[i].text = cs[i].text
               /\ cs[i].start + d >= 0 => ShiftA(cs, d)[i].start = cs[i].start + d
               /\ cs[i].end + d >= 0 => ShiftA(cs, d)[i].end = cs[i].end + d
<1>1. Len(cs) \in Nat /\ \A i \in 1 .. Len(cs) : cs[i] \in Cues
  BY LenProperties, ElementOfSeq
<1> DEFINE x(c) == [c EXCEPT !.start = Clamp(c.start + d), !.end = Clamp(c.end + d)]
<1>2. ASSUME NEW c \in Cues
      PROVE  /\ x(c) \in Cues /\ x(c).index = c.index /\ x(c).text = c.text
             /\ c.start + d >= 0 => x(c).start = c.start + d
             /\ c.end + d >= 0 => x(c).end = c.end + d
  <2>1. c.start + d \in Int /\ c.end + d \in Int
    BY DEF Cues
  <2>2. Clamp(c.start + d) \in Int /\ Clamp(c.end + d) \in Int
    BY <2>1, ClampIs
  <2>3. x(c) \in Cues /\ x(c).index = c.index /\ x(c).text = c.text
        /\ x(c).start = Clamp(c.start + d) /\ x(c).end = Clamp(c.end + d)
    BY <2>2 DEF Cues
  <2> QED BY <2>1, <2>3, ClampIs
<1>3. ShiftA(cs, d) = [i \in 1 .. Len(cs) |-> x(cs[i])]
  BY DEF ShiftA
<1> HIDE DEF x
<1>4. ShiftA(cs, d) \in Seq(Cues) /\ Len(ShiftA(cs, d)) = Len(cs)
  BY <1>1, <1>2, <1>3
<1>5. \A i \in 1 .. Len(cs) : ShiftA(cs, d)[i] = x(cs[i])
  BY <1>3
<1> QED BY <1>1, <1>2, <1>4, <1>5

(***************************************************************************)
(* Without clamping, shifted cues sort as the cues they came from.         *)
(***************************************************************************)
LEMMA SortShifts ==
  ASSUME NEW cs \in Seq(Cues), NEW d \in Int, Unclamped(cs, d)
  PROVE  /\ ByStart(ShiftA(cs, d)) = ShiftA(ByStart(cs), d)
         /\ Unclamped(ByStart(cs), d)
<1> DEFINE N == Len(cs)
           shifted == ShiftA(cs, d)
<1>1. N \in Nat /\ \A i \in 1 .. N : cs[i] \in Cues
  BY LenProperties, ElementOfSeq
<1>2. Len(shifted) = N /\ \A i \in 1 .. N : shifted[i].start = cs[i].start + d
  BY ShiftIs DEF Unclamped
<1>3. Earlier(shifted) = Earlier(cs)
  <2>1. \A i, j \in 1 .. N : /\ shifted[i].start < shifted[j].start <=> cs[i].start < cs[j].start
                             /\ shifted[i].start = shifted[j].start <=> cs[i].start = cs[j].start
    <3> TAKE i, j \in 1 .. N
    <3>1. cs[i].start \in Int /\ cs[j].start \in Int
      BY <1>1 DEF Cues
    <3>2. \A a, b \in Int : (a + d < b + d <=> a < b) /\ (a + d = b + d <=> a = b)
      OBVIOUS
    <3>3. shifted[i].start = cs[i].start + d /\ shifted[j].start = cs[j].start + d
      BY <1>2
    <3> HIDE DEF shifted
    <3> QED BY <3>1, <3>2, <3>3
  <2> HIDE DEF shifted
  <2> QED BY <1>2, <2>1 DEF Earlier
<1> DEFINE p == InOrder(N, Earlier(cs))
<1>4. p \in [1 .. N -> 1 .. N]
  BY OrderSorts DEF Sorts
<1>5. ByStart(cs) = [k \in 1 .. N |-> cs[p[k]]] /\ ByStart(shifted) = [k \in 1 .. N |-> shifted[p[k]]]
  <2> HIDE DEF shifted
  <2> QED BY <1>2, <1>3 DEF ByStart
<1> DEFINE x(c) == [c EXCEPT !.start = Clamp(@ + d), !.end = Clamp(@ + d)]
<1>6. shifted = [i \in 1 .. N |-> x(cs[i])]
  BY DEF ShiftA
<1>7. ShiftA(ByStart(cs), d) = [k \in 1 .. N |-> x(cs[p[k]])]
  <2>1. Len(ByStart(cs)) = N
    BY SortedIs
  <2>2. ShiftA(ByStart(cs), d) = [k \in 1 .. N |-> x(ByStart(cs)[k])]
    BY <2>1 DEF ShiftA
  <2> HIDE DEF x, p
  <2> QED BY <1>5, <2>2
<1> HIDE DEF x, p, shifted
<1>8. ByStart(shifted) = ShiftA(ByStart(cs), d)
  BY <1>4, <1>5, <1>6, <1>7
<1>9. Unclamped(ByStart(cs), d)
  BY SortedIs DEF Unclamped
<1> QED BY <1>8, <1>9 DEF shifted

(***************************************************************************)
(* The greatest of a set, once one is found that no other exceeds.         *)
(***************************************************************************)
LEMMA MaxIs ==
  ASSUME NEW S \in SUBSET Int, NEW x \in S, \A y \in S : y <= x
  PROVE  Max(S) = x
<1>1. \A y \in S : x >= y
  OBVIOUS
<1>2. Max(S) \in S /\ \A y \in S : Max(S) >= y
  BY <1>1 DEF Max
<1>3. Max(S) \in Int /\ x \in Int /\ Max(S) >= x /\ Max(S) <= x
  BY <1>2
<1> QED BY <1>3

(***************************************************************************)
(* max() of two numbers.                                                   *)
(***************************************************************************)
LEMMA MaxOfTwo ==
  ASSUME NEW a \in Int, NEW b \in Int
  PROVE  Max({a, b}) = IF a >= b THEN a ELSE b
<1>1. CASE a >= b
  <2>1. Max({a, b}) = a
    <3>1. {a, b} \in SUBSET Int /\ a \in {a, b} /\ \A y \in {a, b} : y <= a
      BY <1>1
    <3> QED BY <3>1, MaxIs
  <2> QED BY <1>1, <2>1
<1>2. CASE ~ (a >= b)
  <2>1. Max({a, b}) = b
    <3>1. {a, b} \in SUBSET Int /\ b \in {a, b} /\ \A y \in {a, b} : y <= b
      BY <1>2
    <3> QED BY <3>1, MaxIs
  <2> QED BY <1>2, <2>1
<1> QED BY <1>1, <1>2

(***************************************************************************)
(* min() of two numbers the first of which is not the greater.             *)
(***************************************************************************)
LEMMA MinOfTwo ==
  ASSUME NEW a \in Int, NEW b \in Int, a <= b
  PROVE  Min({a, b}) = a
<1>1. a \in {a, b} /\ \A y \in {a, b} : a <= y
  OBVIOUS
<1>2. Min({a, b}) \in {a, b} /\ \A y \in {a, b} : Min({a, b}) <= y
  BY <1>1 DEF Min
<1> QED BY <1>2

\* f is what Told's definition asks for, over the first n texts.
Tells(f, n, openings, texts) ==
    f = [k \in 1 .. n |-> IF k \in openings THEN texts[k] ELSE f[k - 1] \o texts[k]]

(***************************************************************************)
(* The recursive definition of Told, one text further.                     *)
(***************************************************************************)
LEMMA ToldFurther ==
  ASSUME NEW openings, NEW texts, NEW n \in Nat, NEW f, Tells(f, n, openings, texts), 1 \in openings
  PROVE  \E g : Tells(g, n + 1, openings, texts)
<1> DEFINE told == IF n + 1 \in openings THEN texts[n + 1] ELSE f[n] \o texts[n + 1]
           g == [k \in 1 .. n + 1 |-> IF k = n + 1 THEN told ELSE f[k]]
           h == [k \in 1 .. n + 1 |-> IF k \in openings THEN texts[k] ELSE g[k - 1] \o texts[k]]
<1>1. \A k \in 1 .. n : g[k] = f[k]
  OBVIOUS
<1>2. \A k \in 1 .. n : f[k] = IF k \in openings THEN texts[k] ELSE f[k - 1] \o texts[k]
  BY DEF Tells
<1>3. \A k \in 1 .. n + 1 : g[k] = h[k]
  <2> TAKE k \in 1 .. n + 1
  <2>1. CASE k = n + 1
    <3>1. g[k] = told
      BY <2>1
    <3>2. CASE n + 1 \in openings
      BY <2>1, <3>1, <3>2
    <3>3. CASE n + 1 \notin openings
      <4>1. n \in 1 .. n
        BY <3>3
      <4>2. g[k - 1] = f[n]
        BY <1>1, <2>1, <4>1
      <4> HIDE DEF g
      <4> QED BY <2>1, <3>1, <3>3, <4>2
    <3> QED BY <3>2, <3>3
  <2>2. CASE k # n + 1
    <3>1. k \in 1 .. n /\ g[k] = f[k]
      BY <2>2
    <3>2. k = 1 \/ k - 1 \in 1 .. n
      BY <3>1
    <3>3. k \notin openings => g[k - 1] = f[k - 1]
      BY <1>1, <3>2
    <3> HIDE DEF g
    <3> QED BY <1>2, <3>1, <3>3
  <2> QED BY <2>1, <2>2
<1>4. g = h
  <2>1. g = [k \in 1 .. n + 1 |-> g[k]] /\ h = [k \in 1 .. n + 1 |-> h[k]]
    OBVIOUS
  <2> HIDE DEF g, h
  <2> QED BY <1>3, <2>1
<1>5. Tells(g, n + 1, openings, texts)
  <2> HIDE DEF g
  <2> QED BY <1>4 DEF Tells
<1> QED BY <1>5

(***************************************************************************)
(* Told is what its definition says, for any number of texts.              *)
(***************************************************************************)
LEMMA ToldIs ==
  ASSUME NEW openings, NEW texts, Len(texts) \in Nat, 1 \in openings
  PROVE  \A k \in 1 .. Len(texts) :
            Told(openings, texts)[k] = IF k \in openings THEN texts[k]
                                       ELSE Told(openings, texts)[k - 1] \o texts[k]
<1> DEFINE N == Len(texts)
           T == {n \in 0 .. N : ~ \E f : Tells(f, n, openings, texts)}
<1>1. T = {}
  <2> SUFFICES ASSUME T # {} PROVE FALSE
    OBVIOUS
  <2>1. T \in SUBSET Nat
    OBVIOUS
  <2>2. PICK m \in T : \A k \in T : m <= k
    <3> HIDE DEF T
    <3> QED BY <2>1, LeastNat
  <2>3. CASE m = 0
    <3> DEFINE e == [k \in 1 .. 0 |-> 0]
    <3>1. e = [k \in 1 .. 0 |-> IF k \in openings THEN texts[k] ELSE e[k - 1] \o texts[k]]
      OBVIOUS
    <3>2. Tells(e, 0, openings, texts)
      <4> HIDE DEF e
      <4> QED BY <3>1 DEF Tells
    <3> QED BY <2>2, <2>3, <3>2
  <2>4. CASE m # 0
    <3>1. m - 1 \in 0 .. N /\ ~ (m <= m - 1) /\ (m - 1) + 1 = m /\ m - 1 \in Nat
      BY <2>2, <2>4
    <3>2. PICK f : Tells(f, m - 1, openings, texts)
      BY <2>2, <3>1
    <3>3. \E g : Tells(g, m, openings, texts)
      BY <3>1, <3>2, ToldFurther
    <3> QED BY <2>2, <3>3
  <2> QED BY <2>3, <2>4
<1>2. PICK f : Tells(f, N, openings, texts)
  BY <1>1
<1>3. Told(openings, texts) = CHOOSE g : Tells(g, N, openings, texts)
  BY DEF Told, Tells
<1>4. Tells(Told(openings, texts), N, openings, texts)
  BY <1>2, <1>3
<1> DEFINE t == Told(openings, texts)
<1>5. t = [k \in 1 .. N |-> IF k \in openings THEN texts[k] ELSE t[k - 1] \o texts[k]]
  <2> HIDE DEF t
  <2> QED BY <1>4 DEF Tells, t
<1> HIDE DEF t, N
<1>6. \A k \in 1 .. N : t[k] = IF k \in openings THEN texts[k] ELSE t[k - 1] \o texts[k]
  BY <1>5
<1> QED BY <1>6 DEF t, N

\* IsChains, with the positions of the chains' first cues named.
Ordered(s) == \A i, j \in 1 .. Len(s) : i <= j => s[i].start <= s[j].start

LastOf(heads, size, n, i) == IF i = size THEN n ELSE heads[i + 1] - 1

IsChain(c, s, first, last) ==
    /\ c.index = s[first].index /\ c.start = s[first].start
    /\ \E k \in first .. last : c.end = s[k].end
    /\ \A k \in first .. last : s[k].end <= c.end
    /\ c.text = Told(Openings(s), TextsOf(s))[last]

Chained(m, s, n, heads) ==
    /\ heads \in [1 .. Len(m) -> 1 .. n]
    /\ \A i, j \in 1 .. Len(m) : i < j => heads[i] < heads[j]
    /\ {heads[i] : i \in 1 .. Len(m)} = Openings(s) \cap (1 .. n)
    /\ \A i \in 1 .. Len(m) : IsChain(m[i], s, heads[i], LastOf(heads, Len(m), n, i))

(***************************************************************************)
(* Every chain's first and last cue are among the sorted cues walked so    *)
(* far.                                                                    *)
(***************************************************************************)
LEMMA HeadsAre ==
  ASSUME NEW s \in Seq(Cues), NEW m \in Seq(Cues), NEW n \in 0 .. Len(s), NEW heads, Chained(m, s, n, heads)
  PROVE  /\ Len(m) \in Nat /\ Len(s) \in Nat /\ n \in Nat
         /\ \A i \in 1 .. Len(m) : m[i] \in Cues /\ heads[i] \in 1 .. n /\ heads[i] \in Openings(s)
         /\ \A i \in 1 .. Len(m) : LastOf(heads, Len(m), n, i) \in heads[i] .. n
         /\ \A k \in 1 .. Len(s) : s[k] \in Cues /\ s[k].end \in Int /\ s[k].start \in Int
         /\ \A i \in 1 .. Len(m) : m[i].end \in Int /\ m[i].start \in Int
<1>1. /\ Len(m) \in Nat /\ Len(s) \in Nat /\ n \in Nat
      /\ \A i \in 1 .. Len(m) : m[i] \in Cues
      /\ \A k \in 1 .. Len(s) : s[k] \in Cues
  BY LenProperties, ElementOfSeq
<1>2. \A i \in 1 .. Len(m) : heads[i] \in 1 .. n /\ heads[i] \in Openings(s)
  BY DEF Chained
<1>3. ASSUME NEW i \in 1 .. Len(m)
      PROVE  LastOf(heads, Len(m), n, i) \in heads[i] .. n
  <2>1. heads[i] \in 1 .. n
    BY <1>2
  <2>2. CASE i = Len(m)
    BY <1>1, <2>1, <2>2 DEF LastOf
  <2>3. CASE i # Len(m)
    <3>1. i + 1 \in 1 .. Len(m) /\ i < i + 1
      BY <1>1, <2>3
    <3>2. heads[i] < heads[i + 1] /\ heads[i + 1] \in 1 .. n
      BY <1>2, <3>1 DEF Chained
    <3> QED BY <1>1, <2>1, <2>3, <3>2 DEF LastOf
  <2> QED BY <2>2, <2>3
<1>4. \A c \in Cues : c.end \in Int /\ c.start \in Int
  BY DEF Cues
<1> QED BY <1>1, <1>2, <1>3, <1>4

(***************************************************************************)
(* The chains of the invariant are those of the property.                  *)
(***************************************************************************)
LEMMA ChainedIsChains ==
  ASSUME NEW s \in Seq(Cues), NEW m \in Seq(Cues), NEW n \in 0 .. Len(s), NEW heads, Chained(m, s, n, heads)
  PROVE  IsChains(m, s, n)
<1>1. ASSUME NEW i \in 1 .. Len(m), NEW last, last = LastOf(heads, Len(m), n, i)
      PROVE  m[i] = [index |-> s[heads[i]].index, start |-> s[heads[i]].start,
                     end |-> Max({s[k].end : k \in heads[i] .. last}),
                     text |-> Told(Openings(s), TextsOf(s))[last]]
  <2>1. m[i] \in Cues /\ heads[i] \in 1 .. n /\ last \in heads[i] .. n /\ n <= Len(s) /\ n \in Nat /\ Len(s) \in Nat
    BY <1>1, HeadsAre
  <2>2. IsChain(m[i], s, heads[i], last)
    BY <1>1 DEF Chained
  <2> DEFINE ends == {s[k].end : k \in heads[i] .. last}
  <2>3. \A k \in heads[i] .. last : k \in 1 .. Len(s)
    BY <2>1
  <2>4. ends \in SUBSET Int
    BY <2>3, HeadsAre
  <2>5. m[i].end \in ends /\ \A y \in ends : y <= m[i].end
    BY <2>2 DEF IsChain
  <2>6. Max(ends) = m[i].end
    <3> HIDE DEF ends
    <3> QED BY <2>4, <2>5, MaxIs
  <2> HIDE DEF ends
  <2>7. m[i] = [index |-> m[i].index, start |-> m[i].start, end |-> m[i].end, text |-> m[i].text]
    BY <2>1 DEF Cues
  <2>8. m[i] = [index |-> s[heads[i]].index, start |-> s[heads[i]].start, end |-> Max(ends),
                text |-> Told(Openings(s), TextsOf(s))[last]]
    BY <2>2, <2>6, <2>7 DEF IsChain
  <2> QED BY <2>8 DEF ends
<1>2. /\ heads \in [1 .. Len(m) -> 1 .. n]
      /\ \A i, j \in 1 .. Len(m) : i < j => heads[i] < heads[j]
      /\ {heads[i] : i \in 1 .. Len(m)} = Openings(s) \cap (1 .. n)
  BY DEF Chained
<1>3. \A i \in 1 .. Len(m) :
         LET last == IF i = Len(m) THEN n ELSE heads[i + 1] - 1
         IN m[i] = [index |-> s[heads[i]].index, start |-> s[heads[i]].start,
                    end |-> Max({s[k].end : k \in heads[i] .. last}),
                    text |-> Told(Openings(s), TextsOf(s))[last]]
  BY <1>1, Zenon DEF LastOf
<1> QED BY <1>2, <1>3, Zenon DEF IsChains

(***************************************************************************)
(* One cue of every chain, in the order of their starts: none overlaps a   *)
(* later one.                                                              *)
(***************************************************************************)
LEMMA ChainedSettled ==
  ASSUME NEW s \in Seq(Cues), NEW m \in Seq(Cues), NEW n \in 0 .. Len(s), NEW heads, Chained(m, s, n, heads),
         Ordered(s)
  PROVE  Settled(m)
<1> SUFFICES ASSUME NEW i \in 1 .. Len(m), NEW j \in 1 .. Len(m), i < j
             PROVE  m[i].start <= m[j].start /\ m[i].end <= m[j].start
  BY DEF Settled
<1> DEFINE last == LastOf(heads, Len(m), n, i)
<1>1. /\ heads[i] \in 1 .. n /\ heads[j] \in 1 .. n /\ heads[i] < heads[j] /\ heads[j] \in Openings(s)
      /\ n \in 0 .. Len(s) /\ n \in Nat /\ Len(s) \in Nat /\ Len(m) \in Nat
  BY HeadsAre DEF Chained
<1>2. m[j].start = s[heads[j]].start /\ m[i].start = s[heads[i]].start
  BY DEF Chained, IsChain
<1>3. PICK k \in heads[i] .. last : m[i].end = s[k].end
  BY DEF Chained, IsChain
<1>4. last = heads[i + 1] - 1 /\ heads[i + 1] <= heads[j] /\ heads[i + 1] \in 1 .. n
  <2>1. i # Len(m) /\ i + 1 \in 1 .. Len(m) /\ (i + 1 = j \/ i + 1 < j)
    BY <1>1
  <2>2. heads[i + 1] \in 1 .. n
    BY <2>1, HeadsAre
  <2>3. heads[i + 1] = heads[j] \/ heads[i + 1] < heads[j]
    BY <2>1 DEF Chained
  <2> QED BY <1>1, <2>1, <2>2, <2>3 DEF LastOf
<1> HIDE DEF last
<1>5. k \in 1 .. heads[j] - 1
  BY <1>1, <1>3, <1>4
<1>6. s[k].end <= s[heads[j]].start
  BY <1>1, <1>5 DEF Openings
<1>7. s[heads[i]].start <= s[heads[j]].start
  <2>1. heads[i] \in 1 .. Len(s) /\ heads[j] \in 1 .. Len(s) /\ heads[i] <= heads[j]
    BY <1>1
  <2> QED BY <2>1 DEF Ordered
<1> QED BY <1>2, <1>3, <1>6, <1>7

(***************************************************************************)
(* Without clamping, the shifted chains are the chains of the shifted      *)
(* cues.                                                                   *)
(***************************************************************************)
LEMMA ChainedShifts ==
  ASSUME NEW s \in Seq(Cues), NEW m \in Seq(Cues), NEW n \in 0 .. Len(s), NEW heads, Chained(m, s, n, heads),
         NEW d \in Int, Unclamped(s, d)
  PROVE  Chained(ShiftA(m, d), ShiftA(s, d), n, heads)
<1> DEFINE u == ShiftA(s, d)
           v == ShiftA(m, d)
<1>1. /\ u \in Seq(Cues) /\ v \in Seq(Cues) /\ Len(u) = Len(s) /\ Len(v) = Len(m)
      /\ \A k \in 1 .. Len(s) : /\ u[k].index = s[k].index /\ u[k].text = s[k].text
                                /\ u[k].start = s[k].start + d /\ u[k].end = s[k].end + d
      /\ \A i \in 1 .. Len(m) : /\ v[i].index = m[i].index /\ v[i].text = m[i].text
                                /\ m[i].start + d >= 0 => v[i].start = m[i].start + d
                                /\ m[i].end + d >= 0 => v[i].end = m[i].end + d
  BY ShiftIs DEF Unclamped
<1> HIDE DEF u, v
<1>2. \A a, b \in Int : a + d <= b + d <=> a <= b
  OBVIOUS
<1>3. Openings(u) = Openings(s)
  <2>1. \A k \in 1 .. Len(s) : \A j \in 1 .. k - 1 : u[j].end <= u[k].start <=> s[j].end <= s[k].start
    <3> TAKE k \in 1 .. Len(s)
    <3> TAKE j \in 1 .. k - 1
    <3>1. j \in 1 .. Len(s)
      BY LenProperties
    <3> QED BY <1>1, <1>2, <3>1, HeadsAre
  <2> QED BY <1>1, <2>1 DEF Openings
<1>4. TextsOf(u) = TextsOf(s)
  BY <1>1 DEF TextsOf
<1>5. ASSUME NEW i \in 1 .. Len(m)
      PROVE  IsChain(v[i], u, heads[i], LastOf(heads, Len(v), n, i))
  <2> DEFINE last == LastOf(heads, Len(m), n, i)
  <2>1. IsChain(m[i], s, heads[i], last)
    BY DEF Chained
  <2>2. heads[i] \in 1 .. n /\ last \in heads[i] .. n /\ n \in 0 .. Len(s) /\ n \in Nat /\ Len(s) \in Nat
    BY HeadsAre
  <2> HIDE DEF last
  <2>3. heads[i] \in 1 .. Len(s) /\ \A k \in heads[i] .. last : k \in 1 .. Len(s)
    BY <2>2
  <2>4. PICK k \in heads[i] .. last : m[i].end = s[k].end
    BY <2>1 DEF IsChain
  <2>5. m[i].start + d >= 0 /\ m[i].end + d >= 0
    <3>1. m[i].start = s[heads[i]].start
      BY <2>1 DEF IsChain
    <3> QED BY <2>3, <2>4, <3>1 DEF Unclamped
  <2>6. v[i].start = u[heads[i]].start /\ v[i].index = u[heads[i]].index /\ v[i].end = u[k].end
    BY <1>1, <2>1, <2>3, <2>4, <2>5 DEF IsChain
  <2>7. \A j \in heads[i] .. last : u[j].end <= v[i].end
    <3> TAKE j \in heads[i] .. last
    <3>1. s[j].end <= m[i].end /\ j \in 1 .. Len(s)
      BY <2>1, <2>3 DEF IsChain
    <3>2. s[j].end \in Int /\ m[i].end \in Int
      BY <3>1, HeadsAre
    <3> QED BY <1>1, <1>2, <2>5, <3>1, <3>2
  <2>8. v[i].text = Told(Openings(u), TextsOf(u))[last]
    BY <1>1, <1>3, <1>4, <2>1 DEF IsChain
  <2> QED BY <1>1, <2>4, <2>6, <2>7, <2>8 DEF IsChain, last
<1>6. /\ heads \in [1 .. Len(v) -> 1 .. n]
      /\ \A i, j \in 1 .. Len(v) : i < j => heads[i] < heads[j]
      /\ {heads[i] : i \in 1 .. Len(v)} = Openings(u) \cap (1 .. n)
  BY <1>1, <1>3 DEF Chained
<1>7. Chained(v, u, n, heads)
  BY <1>1, <1>5, <1>6 DEF Chained
<1> QED BY <1>7 DEF u, v

(***************************************************************************)
(* The first of the sorted cues opens a chain.                             *)
(***************************************************************************)
LEMMA FirstOpens ==
  ASSUME NEW s, Len(s) \in Nat, Len(s) >= 1
  PROVE  1 \in Openings(s)
BY DEF Openings

(***************************************************************************)
(* The texts of a chain, at its first cue and at the next one.             *)
(***************************************************************************)
LEMMA ToldNext ==
  ASSUME NEW s, Len(s) \in Nat, NEW n \in Nat, n + 1 \in 1 .. Len(s)
  PROVE  /\ n + 1 \in Openings(s) => Told(Openings(s), TextsOf(s))[n + 1] = s[n + 1].text
         /\ n + 1 \notin Openings(s) =>
               Told(Openings(s), TextsOf(s))[n + 1] = Told(Openings(s), TextsOf(s))[n] \o s[n + 1].text
<1> DEFINE texts == TextsOf(s)
           o == Openings(s)
<1>1. Len(texts) = Len(s) /\ texts[n + 1] = s[n + 1].text /\ 1 \in o
  BY FirstOpens DEF TextsOf
<1> DEFINE t == Told(o, texts)
<1>2. \A k \in 1 .. Len(texts) : t[k] = IF k \in o THEN texts[k] ELSE t[k - 1] \o texts[k]
  <2> HIDE DEF o, texts
  <2> QED BY <1>1, ToldIs
<1>3. (n + 1) - 1 = n
  OBVIOUS
<1> HIDE DEF o, texts, t
<1>4. t[n + 1] = IF n + 1 \in o THEN texts[n + 1] ELSE t[(n + 1) - 1] \o texts[n + 1]
  BY <1>1, <1>2, Zenon
<1> QED BY <1>1, <1>3, <1>4 DEF o, texts, t

(***************************************************************************)
(* Nothing is merged only before the first turn of the loop.               *)
(***************************************************************************)
LEMMA NoChainYet ==
  ASSUME NEW s \in Seq(Cues), NEW m \in Seq(Cues), NEW n \in 0 .. Len(s), NEW heads, Chained(m, s, n, heads),
         n < Len(s)
  PROVE  m = << >> => n = 0
<1>1. CASE n # 0
  <2>1. 1 \in 1 .. n /\ Len(s) \in Nat /\ Len(s) >= 1
    BY <1>1, HeadsAre
  <2>2. 1 \in {heads[i] : i \in 1 .. Len(m)}
    BY <2>1, FirstOpens DEF Chained
  <2>3. PICK i \in 1 .. Len(m) : 1 = heads[i]
    BY <2>2
  <2>4. Len(m) # 0
    BY <2>3
  <2> QED BY <2>4, EmptySeq
<1> QED BY <1>1

(***************************************************************************)
(* The next cue opens a chain just when the last merged cue ends no later  *)
(* than it starts, though it is compared with no other: the test both      *)
(* loops make.                                                             *)
(***************************************************************************)
LEMMA OpensWhen ==
  ASSUME NEW s \in Seq(Cues), NEW m \in Seq(Cues), NEW n \in 0 .. Len(s), NEW heads, Chained(m, s, n, heads),
         Ordered(s), n < Len(s), m # << >>
  PROVE  n + 1 \in Openings(s) <=> m[Len(m)].end <= s[n + 1].start
<1> DEFINE L == Len(m)
<1>1. L \in 1 .. L /\ L \in Nat /\ n \in Nat /\ Len(s) \in Nat /\ n + 1 \in 1 .. Len(s)
  <2>1. L \in Nat /\ L # 0 /\ n \in Nat /\ Len(s) \in Nat
    BY HeadsAre, EmptySeq
  <2> QED BY <2>1
<1>2. /\ heads[L] \in 1 .. n /\ heads[L] \in Openings(s) /\ LastOf(heads, L, n, L) = n
      /\ m[L].end \in Int /\ IsChain(m[L], s, heads[L], n)
  <2>1. LastOf(heads, L, n, L) = n
    BY DEF LastOf
  <2> QED BY <1>1, <2>1, HeadsAre DEF Chained
<1>3. \A k \in 1 .. Len(s) : s[k].start \in Int /\ s[k].end \in Int
  BY HeadsAre
<1> DEFINE now == s[n + 1].start
<1>4. now \in Int
  BY <1>1, <1>3
<1> HIDE DEF L
<1>5. ASSUME n + 1 \in Openings(s)
      PROVE  m[L].end <= now
  <2>1. PICK k \in heads[L] .. n : m[L].end = s[k].end
    BY <1>2 DEF IsChain
  <2>2. k \in 1 .. (n + 1) - 1
    BY <1>1, <1>2
  <2>3. s[k].end <= now
    BY <1>5, <2>2 DEF Openings
  <2> QED BY <2>1, <2>3
<1>6. ASSUME m[L].end <= now
      PROVE  n + 1 \in Openings(s)
  <2>1. ASSUME NEW j \in 1 .. (n + 1) - 1
        PROVE  s[j].end <= now
    <3>1. j \in 1 .. Len(s) /\ s[j].end \in Int
      BY <1>1, <1>3
    <3>2. CASE heads[L] <= j
      <4>1. j \in heads[L] .. n
        BY <1>1, <1>2, <3>2
      <4>2. s[j].end <= m[L].end
        BY <1>2, <4>1 DEF IsChain
      <4>3. \A a, b, c \in Int : a <= b /\ b <= c => a <= c
        OBVIOUS
      <4> HIDE DEF now
      <4> QED BY <1>2, <1>4, <1>6, <3>1, <4>2, <4>3
    <3>3. CASE ~ (heads[L] <= j)
      <4>1. j \in 1 .. heads[L] - 1 /\ heads[L] \in 1 .. Len(s) /\ heads[L] <= n + 1
        BY <1>1, <1>2, <3>3
      <4>2. s[j].end <= s[heads[L]].start
        BY <1>2, <4>1 DEF Openings
      <4>3. s[heads[L]].start <= now
        BY <1>1, <4>1 DEF Ordered
      <4>4. \A a, b, c \in Int : a <= b /\ b <= c => a <= c
        OBVIOUS
      <4>5. s[heads[L]].start \in Int
        BY <1>3, <4>1
      <4> HIDE DEF now
      <4> QED BY <1>4, <3>1, <4>2, <4>3, <4>4, <4>5
    <3> QED BY <3>2, <3>3
  <2> QED BY <1>1, <2>1 DEF Openings
<1> QED BY <1>5, <1>6 DEF L

(***************************************************************************)
(* Appending the next cue, when it opens a chain.                          *)
(***************************************************************************)
LEMMA ChainOpened ==
  ASSUME NEW s \in Seq(Cues), NEW m \in Seq(Cues), NEW n \in 0 .. Len(s), NEW heads, Chained(m, s, n, heads),
         n < Len(s), n + 1 \in Openings(s)
  PROVE  \E h : Chained(Append(m, s[n + 1]), s, n + 1, h)
<1> DEFINE L == Len(m)
           h == [i \in 1 .. L + 1 |-> IF i = L + 1 THEN n + 1 ELSE heads[i]]
           x == Append(m, s[n + 1])
<1>1. L \in Nat /\ n \in Nat /\ Len(s) \in Nat /\ n + 1 \in 1 .. Len(s) /\ s[n + 1] \in Cues
  BY HeadsAre
<1>2. /\ x \in Seq(Cues) /\ Len(x) = L + 1 /\ x[L + 1] = s[n + 1]
      /\ \A i \in 1 .. L : x[i] = m[i]
  BY <1>1, AppendSeq
<1>3. \A i \in 1 .. L : heads[i] \in 1 .. n
  BY HeadsAre
<1>4. h[L + 1] = n + 1 /\ \A i \in 1 .. L : h[i] = heads[i]
  BY <1>1
<1>5. h \in [1 .. L + 1 -> 1 .. n + 1]
  BY <1>1, <1>3
<1> HIDE DEF x, h, L
<1>6. ASSUME NEW i \in 1 .. L + 1, NEW j \in 1 .. L + 1, i < j
      PROVE  h[i] < h[j]
  <2>1. i \in 1 .. L
    BY <1>1, <1>6
  <2>2. CASE j = L + 1
    <3>1. h[i] \in 1 .. n /\ h[j] = n + 1
      BY <1>3, <1>4, <2>1, <2>2
    <3> QED BY <1>1, <3>1
  <2>3. CASE j # L + 1
    <3>1. j \in 1 .. L
      BY <1>1, <2>3
    <3> QED BY <1>4, <1>6, <2>1, <3>1 DEF Chained, L
  <2> QED BY <2>2, <2>3
<1>7. {h[i] : i \in 1 .. L + 1} = Openings(s) \cap (1 .. n + 1)
  <2>1. {heads[i] : i \in 1 .. L} = Openings(s) \cap (1 .. n)
    BY DEF Chained, L
  <2>2. 1 .. L + 1 = (1 .. L) \cup {L + 1} /\ 1 .. n + 1 = (1 .. n) \cup {n + 1}
    BY <1>1
  <2>3. {h[i] : i \in 1 .. L + 1} = {heads[i] : i \in 1 .. L} \cup {n + 1}
    BY <1>4, <2>2
  <2> QED BY <2>1, <2>2, <2>3
<1>8. ASSUME NEW i \in 1 .. L + 1
      PROVE  IsChain(x[i], s, h[i], LastOf(h, L + 1, n + 1, i))
  <2>1. CASE i = L + 1
    <3>1. LastOf(h, L + 1, n + 1, i) = n + 1 /\ h[i] = n + 1 /\ x[i] = s[n + 1]
      BY <1>2, <1>4, <2>1 DEF LastOf
    <3>2. \A k \in n + 1 .. n + 1 : k = n + 1
      BY <1>1
    <3>3. n + 1 \in n + 1 .. n + 1 /\ s[n + 1].end \in Int
      BY <1>1 DEF Cues
    <3>4. s[n + 1].end <= s[n + 1].end
      BY <3>3
    <3>5. s[n + 1].text = Told(Openings(s), TextsOf(s))[n + 1]
      BY <1>1, ToldNext
    <3> QED BY <3>1, <3>2, <3>3, <3>4, <3>5 DEF IsChain
  <2>2. CASE i # L + 1
    <3>1. i \in 1 .. L /\ (i = L \/ i + 1 \in 1 .. L)
      BY <1>1, <2>2
    <3>2. LastOf(h, L + 1, n + 1, i) = h[i + 1] - 1
      BY <2>2 DEF LastOf
    <3>3. LastOf(h, L + 1, n + 1, i) = LastOf(heads, L, n, i)
      <4>1. CASE i = L
        <5>1. h[i + 1] - 1 = n
          BY <1>1, <1>4, <4>1
        <5> QED BY <3>2, <4>1, <5>1 DEF LastOf
      <4>2. CASE i # L
        <5>1. h[i + 1] = heads[i + 1]
          BY <1>4, <3>1, <4>2
        <5> QED BY <3>2, <4>2, <5>1 DEF LastOf
      <4> QED BY <4>1, <4>2
    <3>4. IsChain(m[i], s, heads[i], LastOf(heads, L, n, i))
      BY <3>1 DEF Chained, L
    <3> QED BY <1>2, <1>4, <3>1, <3>3, <3>4
  <2> QED BY <2>1, <2>2
<1>9. Chained(x, s, n + 1, h)
  BY <1>2, <1>5, <1>6, <1>7, <1>8 DEF Chained
<1> QED BY <1>9 DEF x

(***************************************************************************)
(* Joining the next cue to the last merged one, when it opens no chain.    *)
(***************************************************************************)
LEMMA ChainGrown ==
  ASSUME NEW s \in Seq(Cues), NEW m \in Seq(Cues), NEW n \in 0 .. Len(s), NEW heads, Chained(m, s, n, heads),
         n < Len(s), m # << >>, n + 1 \notin Openings(s), NEW c \in Cues,
         c.index = Last(m).index, c.start = Last(m).start, c.end = Max({Last(m).end, s[n + 1].end}),
         c.text = Last(m).text \o s[n + 1].text
  PROVE  Chained(Append(Front(m), c), s, n + 1, heads)
<1> DEFINE L == Len(m)
           x == Append(Front(m), c)
<1>1. /\ L \in Nat /\ n \in Nat /\ Len(s) \in Nat /\ n + 1 \in 1 .. Len(s) /\ L \in 1 .. L /\ L - 1 \in Nat
      /\ s[n + 1].end \in Int /\ Last(m) = m[L]
  <2>1. L \in Nat /\ L # 0 /\ n \in Nat /\ Len(s) \in Nat
    BY HeadsAre, EmptySeq
  <2>2. n + 1 \in 1 .. Len(s) /\ L \in 1 .. L /\ L - 1 \in Nat
    BY <2>1
  <2> QED BY <2>1, <2>2, HeadsAre DEF Last
<1>2. /\ Len(x) = L /\ x[L] = c
      /\ \A i \in 1 .. L - 1 : x[i] = m[i]
  <2>1. Front(m) \in Seq(Cues) /\ Len(Front(m)) = L - 1 /\ \A i \in 1 .. L - 1 : Front(m)[i] = m[i]
    BY FrontSeq DEF Front
  <2>2. /\ Len(x) = (L - 1) + 1 /\ x[(L - 1) + 1] = c
        /\ \A i \in 1 .. L - 1 : x[i] = Front(m)[i]
    BY <2>1, AppendSeq
  <2>3. (L - 1) + 1 = L
    BY <1>1
  <2> QED BY <2>1, <2>2, <2>3
<1>3. \A i \in 1 .. L : heads[i] \in 1 .. n
  BY HeadsAre
<1>4. 1 .. n + 1 = (1 .. n) \cup {n + 1}
  BY <1>1
<1> HIDE DEF x, L
<1>5. /\ heads \in [1 .. L -> 1 .. n + 1]
      /\ {heads[i] : i \in 1 .. L} = Openings(s) \cap (1 .. n + 1)
      /\ \A i, j \in 1 .. L : i < j => heads[i] < heads[j]
  <2>1. /\ heads \in [1 .. L -> 1 .. n]
        /\ {heads[i] : i \in 1 .. L} = Openings(s) \cap (1 .. n)
        /\ \A i, j \in 1 .. L : i < j => heads[i] < heads[j]
    BY DEF Chained, L
  <2> QED BY <1>4, <2>1
<1>6. ASSUME NEW i \in 1 .. L
      PROVE  IsChain(x[i], s, heads[i], LastOf(heads, L, n + 1, i))
  <2>1. IsChain(m[i], s, heads[i], LastOf(heads, L, n, i))
    BY DEF Chained, L
  <2>2. CASE i # L
    <3>1. i \in 1 .. L - 1 /\ LastOf(heads, L, n + 1, i) = LastOf(heads, L, n, i)
      BY <1>1, <2>2 DEF LastOf
    <3> QED BY <1>2, <2>1, <3>1
  <2>3. CASE i = L
    <3>1. LastOf(heads, L, n + 1, i) = n + 1 /\ LastOf(heads, L, n, i) = n /\ x[i] = c /\ Last(m) = m[i]
      BY <1>1, <1>2, <2>3 DEF LastOf
    <3>2. heads[i] \in 1 .. n
      BY <1>3
    <3>3. m[i].end \in Int
      BY HeadsAre DEF L
    <3> DEFINE a == m[i].end
               b == s[n + 1].end
    <3>4. a \in Int /\ b \in Int /\ c.end = IF a >= b THEN a ELSE b
      BY <1>1, <3>1, <3>3, MaxOfTwo
    <3>5. PICK k \in heads[i] .. n : a = s[k].end
      BY <2>1, <3>1 DEF IsChain
    <3>6. n + 1 \in heads[i] .. n + 1 /\ \A j \in heads[i] .. n : j \in heads[i] .. n + 1
      BY <1>1, <3>2
    <3>7. \E j \in heads[i] .. n + 1 : c.end = s[j].end
      <4>1. c.end = a \/ c.end = b
        BY <3>4
      <4> QED BY <3>5, <3>6, <4>1
    <3>8. ASSUME NEW j \in heads[i] .. n + 1
          PROVE  s[j].end <= c.end
      <4>1. j = n + 1 \/ j \in heads[i] .. n
        BY <1>1, <3>2
      <4>2. CASE j = n + 1
        <5>1. s[j].end = b
          BY <4>2
        <5> HIDE DEF a, b
        <5>2. b <= c.end
          BY <3>4
        <5> QED BY <5>1, <5>2
      <4>3. CASE j \in heads[i] .. n
        <5>1. s[j].end <= a
          BY <2>1, <3>1, <4>3 DEF IsChain
        <5>2. j \in 1 .. Len(s)
          BY <1>1, <3>2, <4>3
        <5>3. s[j].end \in Int
          BY <5>2, HeadsAre
        <5> HIDE DEF a, b
        <5>4. \A y \in Int : y <= a => y <= c.end
          BY <3>4
        <5> QED BY <5>1, <5>3, <5>4
      <4> QED BY <4>1, <4>2, <4>3
    <3>9. c.text = Told(Openings(s), TextsOf(s))[n + 1]
      <4>1. Told(Openings(s), TextsOf(s))[n + 1] = Told(Openings(s), TextsOf(s))[n] \o s[n + 1].text
        BY <1>1, ToldNext
      <4>5. m[i].text = Told(Openings(s), TextsOf(s))[n]
        BY <2>1, <3>1 DEF IsChain
      <4> QED BY <3>1, <4>1, <4>5
    <3>10. c.index = s[heads[i]].index /\ c.start = s[heads[i]].start
      BY <2>1, <3>1 DEF IsChain
    <3> QED BY <3>1, <3>7, <3>8, <3>9, <3>10 DEF IsChain
  <2> QED BY <2>2, <2>3
<1>7. Chained(x, s, n + 1, heads)
  BY <1>2, <1>5, <1>6 DEF Chained
<1> QED BY <1>7 DEF x

\* The loop over the sorted cues, in either arm, after turn - 1 of them.
MergeInv ==
    /\ cues \in Seq(Cues) /\ merging \in {"no", "A", "B"}
    /\ merging # "no" =>
          /\ sorted = ByStart(cues) /\ turn \in 1 .. Len(sorted) + 1 /\ joined \in Seq(Cues)
          /\ \E heads : Chained(joined, sorted, turn - 1, heads)
          /\ Settled(cues) => joined = SubSeq(cues, 1, turn - 1)

(***************************************************************************)
(* A prefix with the next element is the longer prefix.                    *)
(***************************************************************************)
LEMMA PrefixGrows ==
  ASSUME NEW s \in Seq(Cues), NEW n \in Nat, n + 1 \in 1 .. Len(s)
  PROVE  Append(SubSeq(s, 1, n), s[n + 1]) = SubSeq(s, 1, n + 1)
<1>1. n \in 0 .. Len(s) /\ n + 1 \in 0 .. Len(s) /\ s[n + 1] \in Cues /\ Len(s) \in Nat
  <2>1. Len(s) \in Nat
    BY LenProperties
  <2> QED BY <2>1, ElementOfSeq
<1> DEFINE p == SubSeq(s, 1, n)
           q == SubSeq(s, 1, n + 1)
<1>2. p \in Seq(Cues) /\ Len(p) = n /\ \A j \in 1 .. n : p[j] = s[j]
  BY <1>1, PrefixSeq
<1>3. q \in Seq(Cues) /\ Len(q) = n + 1 /\ \A j \in 1 .. n + 1 : q[j] = s[j]
  BY <1>1, PrefixSeq
<1> HIDE DEF p, q
<1>4. /\ Append(p, s[n + 1]) \in Seq(Cues) /\ Len(Append(p, s[n + 1])) = n + 1
      /\ Append(p, s[n + 1])[n + 1] = s[n + 1]
      /\ \A j \in 1 .. n : Append(p, s[n + 1])[j] = p[j]
  BY <1>1, <1>2, AppendSeq
<1> DEFINE r == Append(p, s[n + 1])
<1> HIDE DEF r
<1>5. \A j \in 1 .. n + 1 : r[j] = q[j]
  <2> TAKE j \in 1 .. n + 1
  <2>1. j = n + 1 \/ j \in 1 .. n
    OBVIOUS
  <2> QED BY <1>2, <1>3, <1>4, <2>1 DEF r
<1>6. r = q
  BY <1>3, <1>4, <1>5, SeqEqual DEF r
<1> QED BY <1>6 DEF p, q, r

(***************************************************************************)
(* A turn of either loop keeps the invariant.                              *)
(***************************************************************************)
LEMMA JoinKeeps ==
  ASSUME MergeInv, merging # "no", turn <= Len(sorted), turn' = turn + 1, UNCHANGED << cues, merging, sorted >>,
         joined = << >> \/ Last(joined).end <= sorted[turn].start => joined' = Append(joined, sorted[turn]),
         joined # << >> /\ ~ (Last(joined).end <= sorted[turn].start) =>
            \E c \in Cues : /\ c.index = Last(joined).index /\ c.start = Last(joined).start
                            /\ c.end = Max({Last(joined).end, sorted[turn].end})
                            /\ c.text = Last(joined).text \o sorted[turn].text
                            /\ joined' = Append(Front(joined), c)
  PROVE  MergeInv'
<1> DEFINE n == turn - 1
           s == sorted
           m == joined
<1>1. /\ cues \in Seq(Cues) /\ s = ByStart(cues) /\ m \in Seq(Cues) /\ merging \in {"no", "A", "B"}
      /\ turn \in 1 .. Len(s) + 1
  BY DEF MergeInv
<1>2. PICK heads : Chained(m, s, n, heads)
  BY DEF MergeInv
<1>3. s \in Seq(Cues) /\ Len(s) = Len(cues) /\ Ordered(s)
  BY <1>1, SortedIs DEF Ordered
<1>4. /\ n \in 0 .. Len(s) /\ n < Len(s) /\ n + 1 = turn /\ turn' - 1 = n + 1 /\ Len(s) \in Nat
      /\ turn \in 1 .. Len(s) /\ n + 1 \in 0 .. Len(s) /\ turn' \in 1 .. Len(s) + 1 /\ n \in Nat
  <2>1. Len(s) \in Nat
    BY <1>3, LenProperties
  <2> QED BY <1>1, <2>1
<1>5. s[turn] \in Cues
  BY <1>3, <1>4, ElementOfSeq
<1> HIDE DEF n, s, m
<1>6. m # << >> => (n + 1 \in Openings(s) <=> Last(m).end <= s[turn].start)
  BY <1>1, <1>2, <1>3, <1>4, OpensWhen DEF Last
<1>7. m = << >> => n + 1 \in Openings(s)
  <2>1. m = << >> => n = 0
    BY <1>1, <1>2, <1>3, <1>4, NoChainYet
  <2>2. Len(s) >= 1
    BY <1>4
  <2> QED BY <1>4, <2>1, <2>2, FirstOpens
<1>8. joined' \in Seq(Cues) /\ \E h : Chained(joined', s, n + 1, h)
  <2>1. CASE m = << >> \/ Last(m).end <= s[turn].start
    <3>1. n + 1 \in Openings(s)
      BY <1>6, <1>7, <2>1
    <3>2. joined' = Append(m, s[n + 1])
      BY <1>4, <2>1 DEF m, s
    <3>3. joined' \in Seq(Cues)
      BY <1>1, <1>4, <1>5, <3>2, AppendSeq
    <3> QED BY <1>1, <1>2, <1>3, <1>4, <3>1, <3>2, <3>3, ChainOpened
  <2>2. CASE ~ (m = << >> \/ Last(m).end <= s[turn].start)
    <3>1. n + 1 \notin Openings(s) /\ m # << >>
      BY <1>6, <2>2
    <3>2. PICK c \in Cues : /\ c.index = Last(m).index /\ c.start = Last(m).start
                            /\ c.end = Max({Last(m).end, s[n + 1].end})
                            /\ c.text = Last(m).text \o s[n + 1].text
                            /\ joined' = Append(Front(m), c)
      BY <1>4, <2>2 DEF m, s
    <3>3. joined' \in Seq(Cues)
      <4>1. Front(m) \in Seq(Cues)
        BY <1>1, <3>1, FrontSeq DEF Front
      <4> QED BY <3>2, <4>1, AppendSeq
    <3>4. Chained(joined', s, n + 1, heads)
      BY <1>1, <1>2, <1>3, <1>4, <3>1, <3>2, ChainGrown
    <3> QED BY <3>3, <3>4
  <2> QED BY <2>1, <2>2
<1>9. ASSUME Settled(cues)
      PROVE  joined' = SubSeq(cues, 1, n + 1)
  <2>1. s = cues /\ m = SubSeq(cues, 1, n)
    BY <1>1, <1>9, SettledStays DEF MergeInv, s, m, n
  <2>2. Len(m) = n /\ \A j \in 1 .. n : m[j] = cues[j]
    BY <1>1, <1>3, <1>4, <2>1, PrefixSeq
  <2>3. m # << >> => Last(m).end <= s[turn].start
    <3>1. ASSUME m # << >>
          PROVE  n \in 1 .. n
      <4>1. n # 0
        BY <1>1, <2>2, <3>1, EmptySeq
      <4> QED BY <1>4, <4>1
    <3>2. ASSUME n \in 1 .. n
          PROVE  Last(m).end <= s[turn].start
      <4>1. Last(m) = cues[n]
        BY <2>2, <3>2 DEF Last
      <4>2. n \in 1 .. Len(cues) /\ turn \in 1 .. Len(cues) /\ n < turn
        BY <1>3, <1>4, <3>2
      <4>3. cues[n].end <= cues[turn].start
        BY <1>9, <4>2 DEF Settled
      <4> QED BY <2>1, <4>1, <4>3
    <3> QED BY <3>1, <3>2
  <2>4. joined' = Append(m, s[n + 1])
    BY <1>4, <2>3 DEF m, s
  <2>5. Append(SubSeq(cues, 1, n), cues[n + 1]) = SubSeq(cues, 1, n + 1)
    BY <1>1, <1>3, <1>4, PrefixGrows
  <2> QED BY <2>1, <2>4, <2>5
<1>10. cues' = cues /\ merging' = merging /\ sorted' = s
  BY DEF s
<1>11. /\ cues' \in Seq(Cues) /\ merging' \in {"no", "A", "B"} /\ sorted' = ByStart(cues')
       /\ turn' \in 1 .. Len(sorted') + 1 /\ joined' \in Seq(Cues)
       /\ \E h : Chained(joined', sorted', turn' - 1, h)
       /\ Settled(cues') => joined' = SubSeq(cues', 1, turn' - 1)
  BY <1>1, <1>4, <1>8, <1>9, <1>10
<1> QED BY <1>11 DEF MergeInv

(***************************************************************************)
(* The last merged cue starts no later than the next one: what makes       *)
(* min(start) of armB its start.                                           *)
(***************************************************************************)
LEMMA JoinedFrom ==
  ASSUME MergeInv, merging # "no", turn <= Len(sorted)
  PROVE  /\ sorted[turn] \in Cues
         /\ joined # << >> => Last(joined) \in Cues /\ Last(joined).start <= sorted[turn].start
<1>1. /\ cues \in Seq(Cues) /\ sorted = ByStart(cues) /\ joined \in Seq(Cues) /\ turn \in 1 .. Len(sorted) + 1
  BY DEF MergeInv
<1>2. sorted \in Seq(Cues) /\ Ordered(sorted)
  BY <1>1, SortedIs DEF Ordered
<1>3. Len(sorted) \in Nat /\ Len(joined) \in Nat /\ turn \in 1 .. Len(sorted) /\ turn - 1 \in 0 .. Len(sorted)
  <2>1. Len(sorted) \in Nat /\ Len(joined) \in Nat
    BY <1>1, <1>2, LenProperties
  <2> QED BY <1>1, <2>1
<1>4. sorted[turn] \in Cues
  BY <1>2, <1>3, ElementOfSeq
<1>5. ASSUME joined # << >>
      PROVE  Last(joined) \in Cues /\ Last(joined).start <= sorted[turn].start
  <2>1. PICK heads : Chained(joined, sorted, turn - 1, heads)
    BY DEF MergeInv
  <2>2. Len(joined) # 0
    BY <1>1, <1>5, EmptySeq
  <2>3. Len(joined) \in 1 .. Len(joined)
    BY <1>3, <2>2
  <2>4. Last(joined) \in Cues /\ heads[Len(joined)] \in 1 .. turn - 1
        /\ Last(joined).start = sorted[heads[Len(joined)]].start
    <3>1. Last(joined).start = sorted[heads[Len(joined)]].start
      BY <2>1, <2>3 DEF Chained, IsChain, Last
    <3>2. Last(joined) \in Cues /\ heads[Len(joined)] \in 1 .. turn - 1
      BY <1>1, <1>2, <1>3, <2>1, <2>3, HeadsAre DEF Last
    <3> QED BY <3>1, <3>2
  <2> DEFINE h == heads[Len(joined)]
  <2>5. h \in 1 .. Len(sorted) /\ h <= turn
    <3> HIDE DEF h
    <3>1. h \in 1 .. turn - 1
      BY <2>4 DEF h
    <3> QED BY <1>3, <3>1
  <2>6. sorted[h].start <= sorted[turn].start
    BY <1>2, <1>3, <2>5 DEF Ordered
  <2> QED BY <2>4, <2>6
<1> QED BY <1>4, <1>5

(***************************************************************************)
(* A cue with another end and another text.                                *)
(***************************************************************************)
LEMMA CueWithEnd ==
  ASSUME NEW r \in Cues, NEW e \in Int, NEW t \in Seq(Nat)
  PROVE  [r EXCEPT !.end = e, !.text = t] = [index |-> r.index, start |-> r.start, end |-> e, text |-> t]
<1> DEFINE q == [r EXCEPT !.end = e, !.text = t]
<1>1. q \in Cues /\ q.index = r.index /\ q.start = r.start /\ q.end = e /\ q.text = t
  BY DEF Cues
<1> HIDE DEF q
<1>2. q = [index |-> q.index, start |-> q.start, end |-> q.end, text |-> q.text]
  BY <1>1 DEF Cues
<1> QED BY <1>1, <1>2 DEF q

(***************************************************************************)
(* Both arms join the same cues to the same cue: armA keeps prev.start,    *)
(* armB takes the lesser start.                                            *)
(***************************************************************************)
LEMMA BothJoin ==
  ASSUME MergeInv, JoinA \/ JoinB
  PROVE  MergeInv'
<1>1. /\ merging # "no" /\ turn <= Len(sorted) /\ turn' = turn + 1
      /\ UNCHANGED << cues, merging, sorted >>
  BY DEF JoinA, JoinB, InMerge
<1> DEFINE s == sorted[turn]
           prev == Last(joined)
           grown == [index |-> prev.index, start |-> prev.start, end |-> Max({prev.end, s.end}), text |-> prev.text \o s.text]
<1>2. s \in Cues /\ (joined # << >> => prev \in Cues /\ prev.start <= s.start)
  BY <1>1, JoinedFrom
<1> HIDE DEF s, prev
<1>3. ASSUME joined # << >>
      PROVE  /\ grown \in Cues /\ grown.index = prev.index /\ grown.start = prev.start
             /\ grown.end = Max({prev.end, s.end}) /\ grown.text = prev.text \o s.text
             /\ [prev EXCEPT !.end = Max({prev.end, s.end}), !.text = prev.text \o s.text] = grown
             /\ Min({prev.start, s.start}) = prev.start
             /\ prev.end > s.start <=> ~ (prev.end <= s.start)
  <2>1. /\ prev.end \in Int /\ s.end \in Int /\ prev.start \in Int /\ s.start \in Int
        /\ prev.text \in Seq(Nat) /\ s.text \in Seq(Nat) /\ prev.index \in Nat
    BY <1>2, <1>3 DEF Cues
  <2> DEFINE e == Max({prev.end, s.end})
             t == prev.text \o s.text
  <2>2. e \in Int
    <3>1. e = IF prev.end >= s.end THEN prev.end ELSE s.end
      BY <2>1, MaxOfTwo
    <3> HIDE DEF e
    <3> QED BY <2>1, <3>1
  <2>3. t \in Seq(Nat)
    BY <2>1, ConcatProperties
  <2> HIDE DEF e, t
  <2>4. [index |-> prev.index, start |-> prev.start, end |-> e, text |-> t] \in Cues
    BY <2>1, <2>2, <2>3 DEF Cues
  <2>5. [prev EXCEPT !.end = e, !.text = t] = [index |-> prev.index, start |-> prev.start, end |-> e, text |-> t]
    BY <1>2, <1>3, <2>2, <2>3, CueWithEnd
  <2>6. Min({prev.start, s.start}) = prev.start
    BY <1>2, <1>3, <2>1, MinOfTwo
  <2>7. prev.end > s.start <=> ~ (prev.end <= s.start)
    BY <2>1
  <2> QED BY <2>4, <2>5, <2>6, <2>7 DEF e, t
<1>4. CASE JoinA
  <2>1. joined' = IF joined # << >> /\ prev.end > s.start
                  THEN Append(Front(joined), [prev EXCEPT !.end = Max({prev.end, s.end}), !.text = prev.text \o s.text])
                  ELSE Append(joined, s)
    BY <1>4 DEF JoinA, s, prev
  <2>2. joined = << >> \/ prev.end <= s.start => joined' = Append(joined, s)
    BY <1>3, <2>1
  <2>3. joined # << >> /\ ~ (prev.end <= s.start) => joined' = Append(Front(joined), grown)
    <3> HIDE DEF grown
    <3> QED BY <1>3, <2>1
  <2> HIDE DEF grown
  <2> QED BY <1>1, <1>3, <2>2, <2>3, JoinKeeps DEF s, prev
<1>5. CASE JoinB
  <2>1. joined' = IF joined = << >> \/ prev.end <= s.start THEN Append(joined, s)
                  ELSE Append(Front(joined), [index |-> prev.index, start |-> Min({prev.start, s.start}),
                                              end |-> Max({prev.end, s.end}), text |-> prev.text \o s.text])
    BY <1>5 DEF JoinB, s, prev
  <2>2. joined = << >> \/ prev.end <= s.start => joined' = Append(joined, s)
    BY <2>1
  <2>3. joined # << >> /\ ~ (prev.end <= s.start) => joined' = Append(Front(joined), grown)
    BY <1>3, <2>1
  <2> HIDE DEF grown
  <2> QED BY <1>1, <1>3, <2>2, <2>3, JoinKeeps DEF s, prev
<1> QED BY <1>4, <1>5

(***************************************************************************)
(* Before the first turn of the loop.                                      *)
(***************************************************************************)
LEMMA MergeStarts ==
  ASSUME MergeInv, NEW arm \in {"A", "B"}, MergeBegins(arm)
  PROVE  MergeInv'
<1>1. /\ cues' = cues /\ merging' = arm /\ sorted' = ByStart(cues) /\ turn' = 1 /\ joined' = << >>
      /\ cues \in Seq(Cues)
  BY DEF MergeBegins, MergeInv
<1>2. Len(sorted') \in Nat /\ turn' \in 1 .. Len(sorted') + 1 /\ turn' - 1 = 0
  <2>1. Len(sorted') \in Nat
    BY <1>1, SortedIs, LenProperties
  <2> QED BY <1>1, <2>1
<1>3. joined' \in Seq(Cues) /\ Len(joined') = 0
  BY <1>1, EmptySeq
<1>4. Chained(joined', sorted', 0, [i \in 1 .. 0 |-> i])
  <2>1. 1 .. 0 = {}
    OBVIOUS
  <2> QED BY <1>3, <2>1 DEF Chained
<1>5. joined' = SubSeq(cues', 1, turn' - 1)
  <2>1. SubSeq(cues, 1, 0) = << >>
    BY SubSeqEmpty
  <2> QED BY <1>1, <1>2, <2>1
<1>6. \E heads : Chained(joined', sorted', turn' - 1, heads)
  BY <1>2, <1>4
<1> QED BY <1>1, <1>2, <1>3, <1>5, <1>6 DEF MergeInv

(***************************************************************************)
(* Turn by turn, merged has one cue for every chain of the sorted cues     *)
(* walked so far; and cues that are settled are merged to themselves.      *)
(***************************************************************************)
THEOREM MergeInvariant == SubcutSpec => []MergeInv
<1>1. SubcutInit => MergeInv
  <2> SUFFICES ASSUME SubcutInit PROVE MergeInv
    OBVIOUS
  <2>1. cues \in Seq(Cues) /\ merging = "no"
    BY CuesAssumption DEF SubcutInit, Cues
  <2> QED BY <2>1 DEF MergeInv
<1>2. MergeInv /\ [SubcutNext]_subcutVars => MergeInv'
  <2> SUFFICES ASSUME MergeInv, [SubcutNext]_subcutVars PROVE MergeInv'
    OBVIOUS
  <2>1. CASE MergeBegins("A") \/ MergeBegins("B")
    BY <2>1, MergeStarts
  <2>2. CASE JoinA \/ JoinB
    BY <2>2, BothJoin
  <2>3. CASE MergeEnds
    <3>1. joined \in Seq(Cues) /\ cues' = joined /\ merging' = "no"
      BY <2>3 DEF MergeEnds, MergeInv
    <3> QED BY <3>1 DEF MergeInv
  <2>4. ASSUME NEW d \in Deltas, Shift(d)
        PROVE  MergeInv'
    <3>1. cues \in Seq(Cues) /\ d \in Int /\ merging' = "no" /\ cues' = ShiftA(cues, d)
      BY <2>4, DeltasAssumption DEF Shift, MergeInv, mergeVars
    <3>2. cues' \in Seq(Cues)
      BY <3>1, ShiftIs
    <3> QED BY <3>1, <3>2 DEF MergeInv
  <2>5. CASE UNCHANGED << cues, mergeVars >>
    BY <2>5 DEF MergeInv, mergeVars, Chained, IsChain, LastOf
  <2>6. ASSUME NEW line \in LineKinds, Feed(line)
        PROVE  MergeInv'
    BY <2>5, <2>6 DEF Feed
  <2>7. CASE UNCHANGED subcutVars
    BY <2>5, <2>7 DEF subcutVars
  <2> QED BY <2>1, <2>2, <2>3, <2>4, <2>6, <2>7 DEF SubcutNext, CueStep
<1> QED BY <1>1, <1>2, PTL DEF SubcutSpec

(***************************************************************************)
(* What the loop has built is what MergeIsChains says of it, shifted or    *)
(* not.                                                                    *)
(***************************************************************************)
LEMMA InvMakesChains ==
  ASSUME MergeInv
  PROVE  MergeIsChains
<1> SUFFICES ASSUME merging # "no"
             PROVE  /\ IsChains(joined, sorted, turn - 1)
                    /\ Settled(joined)
                    /\ Settled(cues) => joined = SubSeq(cues, 1, turn - 1)
                    /\ \A d \in Deltas :
                          Unclamped(cues, d) => IsChains(ShiftA(joined, d), ByStart(ShiftA(cues, d)), turn - 1)
  BY DEF MergeIsChains, Unclamped
<1>1. /\ cues \in Seq(Cues) /\ sorted = ByStart(cues) /\ joined \in Seq(Cues) /\ turn \in 1 .. Len(sorted) + 1
      /\ Settled(cues) => joined = SubSeq(cues, 1, turn - 1)
  BY DEF MergeInv
<1>2. PICK heads : Chained(joined, sorted, turn - 1, heads)
  BY DEF MergeInv
<1>3. sorted \in Seq(Cues) /\ Ordered(sorted) /\ turn - 1 \in 0 .. Len(sorted)
  <2>1. sorted \in Seq(Cues) /\ Ordered(sorted)
    BY <1>1, SortedIs DEF Ordered
  <2>2. Len(sorted) \in Nat
    BY <2>1, LenProperties
  <2> QED BY <1>1, <2>1, <2>2
<1>4. IsChains(joined, sorted, turn - 1) /\ Settled(joined)
  BY <1>1, <1>2, <1>3, ChainedIsChains, ChainedSettled
<1>5. ASSUME NEW d \in Deltas, Unclamped(cues, d)
      PROVE  IsChains(ShiftA(joined, d), ByStart(ShiftA(cues, d)), turn - 1)
  <2>1. d \in Int
    BY DeltasAssumption
  <2>2. ByStart(ShiftA(cues, d)) = ShiftA(sorted, d) /\ Unclamped(sorted, d)
    BY <1>1, <1>5, <2>1, SortShifts
  <2>3. Chained(ShiftA(joined, d), ShiftA(sorted, d), turn - 1, heads)
    BY <1>1, <1>2, <1>3, <2>1, <2>2, ChainedShifts
  <2>4. /\ ShiftA(joined, d) \in Seq(Cues) /\ ShiftA(sorted, d) \in Seq(Cues)
        /\ turn - 1 \in 0 .. Len(ShiftA(sorted, d))
    BY <1>1, <1>3, <2>1, ShiftIs
  <2> QED BY <2>2, <2>3, <2>4, ChainedIsChains
<1> QED BY <1>1, <1>4, <1>5

(***************************************************************************)
(* merge_overlapping() of both arms makes one cue of every chain of        *)
(* strictly overlapping cues, for any cues and through every turn of its   *)
(* loop; merging once more changes nothing; and unless a time is clamped   *)
(* to zero, shifting before merging and after it are the same.             *)
(***************************************************************************)
THEOREM MergeAlwaysChains == SubcutSpec => []MergeIsChains
BY MergeInvariant, InvMakesChains, PTL

----------------------------------------------------------------------------
(*                        Division through a float                         *)

(***************************************************************************)
(* Multiplying by a positive factor keeps and reflects the order.          *)
(***************************************************************************)
LEMMA Multiplied ==
  ASSUME NEW a \in Nat, NEW b \in Nat, NEW c \in Nat
  PROVE  /\ a * c \in Nat
         /\ a <= b => a * c <= b * c
         /\ c > 0 /\ a * c <= b * c => a <= b
         /\ c > 0 /\ a < b => a * c < b * c
         /\ c > 0 /\ a * c < b * c => a < b
OBVIOUS

(***************************************************************************)
(* Quotient and remainder of a division of naturals.                       *)
(***************************************************************************)
LEMMA Divided ==
  ASSUME NEW a \in Nat, NEW d \in Nat \ {0}
  PROVE  /\ a \div d \in Nat /\ a % d \in Nat /\ a % d < d
         /\ a = d * (a \div d) + (a % d)
<1>1. a \div d \in Int /\ a % d \in Int
  OBVIOUS
<1>2. a = d * (a \div d) + (a % d)
  OBVIOUS
<1>3. 0 <= a % d /\ a % d < d
  OBVIOUS
<1>4. a \div d >= 0
  OBVIOUS
<1> QED
  BY <1>1, <1>2, <1>3, <1>4

(***************************************************************************)
(* They are the only numbers that are so related.                          *)
(***************************************************************************)
LEMMA DividedIs ==
  ASSUME NEW a \in Nat, NEW d \in Nat \ {0}, NEW q \in Nat, NEW r \in Nat,
         r < d, a = d * q + r
  PROVE  a \div d = q /\ a % d = r
<1> DEFINE p == a \div d  s == a % d
<1>1. p \in Nat /\ s \in Nat /\ s < d /\ a = d * p + s
  BY Divided
<1> HIDE DEF p, s
<1>2. ASSUME NEW x \in Nat, NEW y \in Nat, x < y PROVE d * x + d <= d * y
  <2>1. (x + 1) * d <= y * d
    BY <1>2, Multiplied
  <2> QED BY <2>1
<1>3. d * p \in Nat /\ d * q \in Nat
  BY <1>1, Multiplied
<1>4. ~ (p < q)
  BY <1>1, <1>2, <1>3
<1>5. ~ (q < p)
  BY <1>1, <1>2, <1>3
<1>6. p = q
  BY <1>1, <1>4, <1>5
<1> QED
  BY <1>1, <1>3, <1>6 DEF p, s

(***************************************************************************)
(* What lies from a * p up to the next multiple of p has the quotient a.   *)
(***************************************************************************)
LEMMA Between ==
  ASSUME NEW a \in Nat, NEW p \in Nat \ {0}, NEW q \in Nat, a * p <= q, q < (a + 1) * p
  PROVE  q \div p = a
<1>1. a * p \in Nat /\ p * a = a * p /\ (a + 1) * p = a * p + p
  BY Multiplied
<1>2. q - a * p \in Nat /\ q - a * p < p /\ q = p * a + (q - a * p)
  BY <1>1
<1> QED
  BY <1>2, DividedIs

(***************************************************************************)
(* The rounding of a significand never carries over the next whole         *)
(* quotient: h is half the range of significands and p what the quotient   *)
(* was scaled by.  A tie that would round up to a whole number is a whole  *)
(* number already.                                                         *)
(***************************************************************************)
LEMMA NoCarry ==
  ASSUME NEW n \in Nat, NEW d \in Nat \ {0}, NEW p \in Nat \ {0}, NEW h \in Nat \ {0},
         n <= 2 * h, d * h <= n * p
  PROVE  Nearest(n * p, d) \div p = n \div d
<1> DEFINE a == n \div d  r == n % d  N == n * p  q == N \div d  m == N % d
<1>1. N \in Nat /\ a \in Nat /\ r \in Nat /\ r < d /\ n = d * a + r
  BY Divided, Multiplied
<1>2. q \in Nat /\ m \in Nat /\ m < d /\ N = d * q + m
  BY <1>1, Divided
<1>3. d * h <= N
  OBVIOUS
<1> HIDE DEF a, r, q, m
<1>4. d * a \in Nat /\ r * p \in Nat /\ d * q \in Nat /\ d * h \in Nat /\ a * p \in Nat
      /\ (a * p) * d \in Nat
  BY <1>1, <1>2, Multiplied
<1>5. N = (a * p) * d + r * p
  BY <1>1, <1>4
<1>6. r * p + p <= d * p
  <2>1. (r + 1) * p <= d * p
    BY <1>1, Multiplied
  <2> QED BY <2>1, <1>1
<1>7. (a + 1) * p = a * p + p /\ ((a + 1) * p) * d = (a * p) * d + d * p
  BY <1>1, <1>4
<1>8. a * p <= q
  <2>1. (a * p) * d < (q + 1) * d
    BY <1>1, <1>2, <1>4, <1>5
  <2>2. a * p < q + 1
    BY <2>1, <1>2, <1>4, Multiplied
  <2> QED BY <2>2, <1>2, <1>4
<1>9. q < (a + 1) * p
  <2>1. q * d < ((a + 1) * p) * d
    BY <1>1, <1>2, <1>4, <1>5, <1>6, <1>7
  <2>2. (a + 1) * p \in Nat
    BY <1>1, Multiplied
  <2> QED BY <2>1, <2>2, <1>2, Multiplied
<1>10. ASSUME q + 1 = (a + 1) * p, 2 * m >= d, ~ (2 * m = d /\ m = 0)
       PROVE  FALSE
  <2>1. ((a + 1) * p) * d = d * q + d
    BY <1>10, <1>2, <1>4
  <2>2. d * p - r * p = d - m
    BY <2>1, <1>1, <1>2, <1>4, <1>5, <1>7
  <2>3. 2 * p <= d
    BY <2>2, <1>6, <1>10, <1>1, <1>2, <1>4
  <2>4. (2 * p) * h <= d * h
    BY <2>3, Multiplied
  <2>5. (2 * h) * p <= n * p /\ (2 * h) * p = (2 * p) * h
    BY <2>4, <1>3, <1>4
  <2>6. n = 2 * h
    <3>1. 2 * h <= n
      BY <2>5, Multiplied
    <3> QED BY <3>1
  <2>7. d * h <= (2 * p) * h
    BY <2>5, <2>6
  <2>8. d = 2 * p
    <3>1. d <= 2 * p
      BY <2>7, Multiplied
    <3> QED BY <3>1, <2>3
  <2>9. N = d * h + 0
    BY <2>6, <2>8
  <2>10. m = 0
    BY <2>9, <1>1, DividedIs DEF m
  <2> QED BY <2>10, <1>10, <1>2
<1>11. \/ Nearest(N, d) = q
       \/ Nearest(N, d) = q + 1 /\ 2 * m >= d
  BY <1>1, <1>2 DEF Nearest, q, m
<1>12. ASSUME NEW x \in {q, q + 1}, x # (a + 1) * p
       PROVE  x \div p = a
  <2>1. x \in Nat /\ a * p <= x /\ x < (a + 1) * p
    BY <1>2, <1>4, <1>7, <1>8, <1>9, <1>12
  <2> QED BY <2>1, <1>1, Between
<1>13. CASE Nearest(N, d) = q
  <2>1. q # (a + 1) * p
    BY <1>2, <1>4, <1>7, <1>9
  <2> QED BY <2>1, <1>12, <1>13 DEF a
<1>14. CASE Nearest(N, d) = q + 1 /\ 2 * m >= d
  <2>1. q + 1 # (a + 1) * p
    BY <1>10, <1>14, <1>2
  <2> QED BY <2>1, <1>12, <1>14 DEF a
<1> QED
  BY <1>11, <1>13, <1>14 DEF N, a

\* f is a table of the powers of two up to n.
PowersTo(n, f) ==
    /\ f \in [0 .. n -> Nat]
    /\ \A i \in 0 .. n : f[i] = IF i = 0 THEN 1 ELSE 2 * f[i - 1]

(***************************************************************************)
(* There are tables of powers of any length: the definition of Pow2 is by  *)
(* recursion, which the prover does not take on trust.                     *)
(***************************************************************************)
LEMMA PowersExist == \A n \in Nat : \E f : PowersTo(n, f)
<1> DEFINE T == {n \in Nat : ~ \E f : PowersTo(n, f)}
<1> SUFFICES ASSUME T # {} PROVE FALSE
  OBVIOUS
<1>1. PICK m \in T : \A k \in T : m <= k
  <2>1. T \in SUBSET Nat
    OBVIOUS
  <2> HIDE DEF T
  <2> QED BY <2>1, LeastNat
<1>2. m \in Nat
  OBVIOUS
<1>3. m # 0
  <2>1. PowersTo(0, [i \in 0 .. 0 |-> 1])
    BY DEF PowersTo
  <2> QED BY <2>1
<1>4. m - 1 \in Nat /\ m - 1 \notin T
  BY <1>1, <1>2, <1>3
<1>5. PICK f : PowersTo(m - 1, f)
  BY <1>4
<1> DEFINE g == [i \in 0 .. m |-> IF i = m THEN 2 * f[m - 1] ELSE f[i]]
<1>6. f \in [0 .. m - 1 -> Nat] /\ \A i \in 0 .. m - 1 : f[i] = IF i = 0 THEN 1 ELSE 2 * f[i - 1]
  BY <1>5 DEF PowersTo
<1>7. m - 1 \in Nat /\ m - 1 \in 0 .. m - 1
  BY <1>4
<1>8. g \in [0 .. m -> Nat]
  <2>1. f[m - 1] \in Nat /\ \A i \in 0 .. m : i # m => f[i] \in Nat
    BY <1>2, <1>6, <1>7
  <2>2. 2 * f[m - 1] \in Nat
    BY <2>1
  <2> QED BY <2>1, <2>2
<1>9. ASSUME NEW i \in 0 .. m PROVE g[i] = IF i = 0 THEN 1 ELSE 2 * g[i - 1]
  <2>1. CASE i = m
    BY <2>1, <1>2, <1>3, <1>7
  <2>2. CASE i # m
    BY <2>2, <1>2, <1>3, <1>6
  <2> QED BY <2>1, <2>2
<1>10. PowersTo(m, g)
  BY <1>8, <1>9 DEF PowersTo
<1> QED
  BY <1>10

(***************************************************************************)
(* Two such tables agree where both are defined.                           *)
(***************************************************************************)
LEMMA PowersAgree ==
  ASSUME NEW n \in Nat, NEW k \in Nat, NEW f, NEW g, PowersTo(n, f), PowersTo(k, g), n <= k
  PROVE  \A i \in 0 .. n : f[i] = g[i]
<1> DEFINE T == {i \in 0 .. n : f[i] # g[i]}
<1> SUFFICES ASSUME T # {} PROVE FALSE
  OBVIOUS
<1>1. PICK m \in T : \A j \in T : m <= j
  <2>1. T \in SUBSET Nat
    OBVIOUS
  <2> HIDE DEF T
  <2> QED BY <2>1, LeastNat
<1>2. m \in 0 .. n
  OBVIOUS
<1>3. m # 0
  BY DEF PowersTo
<1>4. m - 1 \in 0 .. n /\ m - 1 \notin T
  BY <1>1, <1>2, <1>3
<1>5. f[m - 1] = g[m - 1]
  BY <1>4
<1> QED
  BY <1>1, <1>2, <1>3, <1>5 DEF PowersTo

(***************************************************************************)
(* Pow2 is the function its definition asks for.                           *)
(***************************************************************************)
LEMMA Pow2Is == Pow2 = [k \in Nat |-> IF k = 0 THEN 1 ELSE 2 * Pow2[k - 1]]
<1> DEFINE F(n) == CHOOSE f : PowersTo(n, f)
           G == [n \in Nat |-> F(n)[n]]
<1>1. \A n \in Nat : PowersTo(n, F(n))
  BY PowersExist
<1>2. \A n \in Nat : G[n] = F(n)[n]
  OBVIOUS
<1>3. \A n \in Nat : G[n] = IF n = 0 THEN 1 ELSE 2 * G[n - 1]
  <2> TAKE n \in Nat
  <2> HIDE DEF F, G
  <2>1. CASE n = 0
    BY <1>1, <1>2, <2>1 DEF PowersTo
  <2>2. CASE n # 0
    <3>1. n - 1 \in Nat /\ n - 1 \in 0 .. n - 1 /\ n - 1 <= n /\ n \in 0 .. n
      BY <2>2
    <3>2. F(n - 1)[n - 1] = F(n)[n - 1]
      BY <1>1, <3>1, PowersAgree
    <3>3. F(n)[n] = 2 * F(n)[n - 1]
      BY <1>1, <2>2, <3>1 DEF PowersTo
    <3> QED BY <1>2, <2>2, <3>1, <3>2, <3>3
  <2> QED BY <2>1, <2>2
<1>4. G = [k \in Nat |-> IF k = 0 THEN 1 ELSE 2 * G[k - 1]]
  <2>1. G = [k \in Nat |-> G[k]]
    <3> HIDE DEF F
    <3> QED OBVIOUS
  <2> HIDE DEF G
  <2> QED BY <1>3, <2>1
<1>5. \E P : P = [k \in Nat |-> IF k = 0 THEN 1 ELSE 2 * P[k - 1]]
  <2> HIDE DEF G
  <2> QED BY <1>4
<1> HIDE DEF F, G
<1> QED
  BY Zenon, <1>5 DEF Pow2

(***************************************************************************)
(* Powers of two are positive, and each is twice the one before.           *)
(***************************************************************************)
LEMMA Powers ==
  /\ Pow2[0] = 1
  /\ \A k \in Nat : Pow2[k + 1] = 2 * Pow2[k]
  /\ \A k \in Nat : Pow2[k] \in Nat \ {0}
<1>1. \A k \in Nat : Pow2[k] = IF k = 0 THEN 1 ELSE 2 * Pow2[k - 1]
  BY Pow2Is
<1>2. Pow2[0] = 1
  BY <1>1
<1>3. \A k \in Nat : Pow2[k + 1] = 2 * Pow2[k]
  BY <1>1
<1>4. \A k \in Nat : Pow2[k] \in Nat \ {0}
  <2> DEFINE T == {k \in Nat : Pow2[k] \notin Nat \ {0}}
  <2> SUFFICES ASSUME T # {} PROVE FALSE
    OBVIOUS
  <2>1. PICK m \in T : \A j \in T : m <= j
    <3>1. T \in SUBSET Nat
      OBVIOUS
    <3> HIDE DEF T
    <3> QED BY <3>1, LeastNat
  <2>2. m \in Nat /\ m # 0
    BY <1>2
  <2>3. m - 1 \in Nat /\ m - 1 \notin T /\ (m - 1) + 1 = m
    BY <2>1, <2>2
  <2>4. Pow2[m - 1] \in Nat \ {0} /\ Pow2[m] = 2 * Pow2[m - 1]
    BY <2>3, <1>3
  <2> QED BY <2>1, <2>4
<1> QED
  BY <1>2, <1>3, <1>4

(***************************************************************************)
(* Exponents are added when powers are multiplied.                         *)
(***************************************************************************)
LEMMA PowersMultiply == \A a, b \in Nat : Pow2[a + b] = Pow2[a] * Pow2[b]
<1> TAKE a \in Nat
<1> DEFINE T == {b \in Nat : Pow2[a + b] # Pow2[a] * Pow2[b]}
<1> SUFFICES ASSUME T # {} PROVE FALSE
  OBVIOUS
<1>1. PICK m \in T : \A j \in T : m <= j
  <2>1. T \in SUBSET Nat
    OBVIOUS
  <2> HIDE DEF T
  <2> QED BY <2>1, LeastNat
<1>2. m \in Nat /\ m # 0
  BY Powers
<1>3. m - 1 \in Nat /\ m - 1 \notin T /\ (m - 1) + 1 = m /\ (a + (m - 1)) + 1 = a + m
  BY <1>1, <1>2
<1>4. Pow2[a + (m - 1)] = Pow2[a] * Pow2[m - 1]
  BY <1>3
<1>5. Pow2[m] = 2 * Pow2[m - 1] /\ Pow2[a + m] = 2 * Pow2[a + (m - 1)]
      /\ Pow2[m - 1] \in Nat /\ Pow2[a] \in Nat
  BY <1>3, Powers
<1> QED
  BY <1>1, <1>4, <1>5

\* Half of the numbers of Precision bits.
Half == Pow2[Precision - 1]

(***************************************************************************)
(* Powers at and around the precision, in terms of half a significand.     *)
(***************************************************************************)
LEMMA Halves ==
  /\ Half \in Nat \ {0} /\ Pow2[Precision] = 2 * Half
  /\ \A e \in Nat : Pow2[Precision - 1 + e] = Half * Pow2[e] /\ Pow2[Precision + e] = (2 * Half) * Pow2[e]
  /\ \A e \in Nat : Pow2[e] \in Nat \ {0} /\ (e >= 1 => Pow2[e] = 2 * Pow2[e - 1])
<1>1. Precision - 1 \in Nat /\ Precision \in Nat /\ (Precision - 1) + 1 = Precision
  BY PrecisionAssumption
<1>2. Half \in Nat \ {0} /\ Pow2[Precision] = 2 * Half
  BY <1>1, Powers DEF Half
<1>3. ASSUME NEW e \in Nat
      PROVE  Pow2[Precision - 1 + e] = Half * Pow2[e] /\ Pow2[Precision + e] = (2 * Half) * Pow2[e]
  BY <1>1, <1>2, PowersMultiply DEF Half
<1>4. ASSUME NEW e \in Nat, e >= 1 PROVE Pow2[e] = 2 * Pow2[e - 1]
  <2>1. e - 1 \in Nat /\ (e - 1) + 1 = e
    BY <1>4
  <2> QED BY <2>1, Powers
<1> QED
  BY <1>2, <1>3, <1>4, Powers

(***************************************************************************)
(* A quotient of operands that are not too long has a significand: the     *)
(* least exponent at which it is in range from above is in range from      *)
(* below.                                                                  *)
(***************************************************************************)
LEMMA SomeExponentFits ==
  ASSUME NEW n \in Nat \ {0}, NEW d \in Nat \ {0},
         n <= 2 * Pow2[Precision], d <= Pow2[3 * Precision]
  PROVE  \E e \in Exponents : Fits(n, d, e)
<1> DEFINE Z == 4 * Precision
           T == {j \in Nat : n * Pow2[Z] < d * Pow2[Precision + j]}
<1>0. Precision \in Nat \ {0} /\ Z \in Nat /\ 3 * Precision \in Nat
  BY PrecisionAssumption
<1>1. \A e \in Nat : Pow2[e] \in Nat \ {0}
  BY Powers
<1>2. Z + 2 \in T
  <2>1. Pow2[Precision + (Z + 2)] = (Pow2[Precision] * 4) * Pow2[Z]
    <3>1. Pow2[Z + 1] = 2 * Pow2[Z] /\ Pow2[(Z + 1) + 1] = 2 * Pow2[Z + 1] /\ (Z + 1) + 1 = Z + 2
      BY <1>0, Powers
    <3>2. Pow2[Precision + (Z + 2)] = Pow2[Precision] * Pow2[Z + 2]
      BY <1>0, PowersMultiply
    <3> QED BY <3>1, <3>2, <1>0, <1>1
  <2>2. n < d * (Pow2[Precision] * 4)
    <3>1. Pow2[Precision] * 4 \in Nat /\ n < Pow2[Precision] * 4
      BY <1>0, <1>1
    <3>2. 1 * (Pow2[Precision] * 4) <= d * (Pow2[Precision] * 4)
      BY <3>1, Multiplied
    <3> QED BY <3>1, <3>2
  <2>3. n * Pow2[Z] < (d * (Pow2[Precision] * 4)) * Pow2[Z]
    <3>1. d * (Pow2[Precision] * 4) \in Nat /\ Pow2[Z] \in Nat /\ Pow2[Z] > 0
      BY <1>0, <1>1
    <3> QED BY <3>1, <2>2, Multiplied
  <2> QED BY <2>1, <2>3, <1>0, <1>1
<1>3. PICK j \in T : \A k \in T : j <= k
  <2>1. T \in SUBSET Nat
    OBVIOUS
  <2>2. T # {}
    BY <1>2
  <2> HIDE DEF T
  <2> QED BY <2>1, <2>2, LeastNat
<1>4. j \in Nat /\ j <= Z + 2
  BY <1>2, <1>3
<1>5. j # 0
  <2>1. Pow2[Z] = Pow2[3 * Precision] * Pow2[Precision]
    <3>1. 3 * Precision + Precision = Z
      BY <1>0
    <3> QED BY <3>1, <1>0, PowersMultiply
  <2>2. d * Pow2[Precision] <= Pow2[Z]
    BY <2>1, <1>0, <1>1, Multiplied
  <2>3. 1 * Pow2[Z] <= n * Pow2[Z]
    BY <1>0, <1>1, Multiplied
  <2>4. 0 \notin T
    BY <2>2, <2>3, <1>0, <1>1
  <2> QED BY <2>4
<1>6. j - 1 \in Nat /\ j - 1 \notin T
  BY <1>3, <1>4, <1>5
<1>7. d * Pow2[Precision + (j - 1)] <= n * Pow2[Z] /\ n * Pow2[Z] < d * Pow2[Precision + j]
  BY <1>0, <1>1, <1>3, <1>4, <1>6
<1> HIDE DEF T
<1>8. CASE j >= Z
  <2>1. j - Z \in Nat /\ Z + (j - Z) = j
    BY <1>0, <1>4, <1>8
  <2> DEFINE e == j - Z
  <2> HIDE DEF e
  <2>2. e \in Nat /\ Z + e = j
    BY <2>1 DEF e
  <2>3. Pow2[Precision + j] = Pow2[Precision + e] * Pow2[Z]
    <3>1. (Precision + e) + Z = Precision + j /\ Precision + e \in Nat
      BY <1>0, <2>2
    <3> QED BY <3>1, <1>0, <2>2, PowersMultiply
  <2>4. Pow2[Precision + (j - 1)] = Pow2[Precision - 1 + e] * Pow2[Z]
    <3>1. (Precision - 1 + e) + Z = Precision + (j - 1) /\ Precision - 1 + e \in Nat
      BY <1>0, <2>2
    <3> QED BY <3>1, <1>0, PowersMultiply
  <2>5. d * Pow2[Precision - 1 + e] <= n /\ n < d * Pow2[Precision + e]
    <3>1. Pow2[Precision - 1 + e] \in Nat /\ Pow2[Precision + e] \in Nat /\ Pow2[Z] \in Nat /\ Pow2[Z] > 0
      BY <1>0, <1>1, <2>2
    <3>2. d * Pow2[Precision - 1 + e] \in Nat /\ d * Pow2[Precision + e] \in Nat
      BY <3>1, Multiplied
    <3>3. (d * Pow2[Precision - 1 + e]) * Pow2[Z] <= n * Pow2[Z]
          /\ n * Pow2[Z] < (d * Pow2[Precision + e]) * Pow2[Z]
      BY <1>7, <2>3, <2>4, <3>1
    <3> QED BY <3>1, <3>2, <3>3, Multiplied
  <2>6. e \in Exponents /\ e >= 0
    BY <1>0, <1>4, <2>2 DEF Exponents
  <2>7. Fits(n, d, e)
    BY <2>5, <2>6 DEF Fits
  <2> QED BY <2>6, <2>7
<1>9. CASE j < Z
  <2> DEFINE k == Z - j
  <2>1. k \in Nat \ {0} /\ j + k = Z
    BY <1>0, <1>4, <1>9
  <2> HIDE DEF k
  <2>2. Pow2[Z] = Pow2[k] * Pow2[j]
    <3>1. k + j = Z
      BY <1>4, <2>1
    <3> QED BY <3>1, <1>4, <2>1, PowersMultiply
  <2>3. Pow2[Precision + j] = Pow2[Precision] * Pow2[j]
    BY <1>0, <1>4, PowersMultiply
  <2>4. Pow2[Precision + (j - 1)] = Pow2[Precision - 1] * Pow2[j]
    <3>1. (Precision - 1) + j = Precision + (j - 1) /\ Precision - 1 \in Nat
      BY <1>0, <1>4
    <3> QED BY <3>1, <1>4, PowersMultiply
  <2>5. d * Pow2[Precision - 1] <= n * Pow2[k] /\ n * Pow2[k] < d * Pow2[Precision]
    <3>1. Pow2[Precision - 1] \in Nat /\ Pow2[Precision] \in Nat /\ Pow2[k] \in Nat
          /\ Pow2[j] \in Nat /\ Pow2[j] > 0
      BY <1>0, <1>1, <1>4, <2>1
    <3>2. d * Pow2[Precision - 1] \in Nat /\ d * Pow2[Precision] \in Nat /\ n * Pow2[k] \in Nat
      BY <3>1, Multiplied
    <3>3. (d * Pow2[Precision - 1]) * Pow2[j] <= (n * Pow2[k]) * Pow2[j]
          /\ (n * Pow2[k]) * Pow2[j] < (d * Pow2[Precision]) * Pow2[j]
      BY <1>7, <2>2, <2>3, <2>4, <3>1
    <3> QED BY <3>1, <3>2, <3>3, Multiplied
  <2>6. - k \in Exponents /\ ~ (- k >= 0) /\ - (- k) = k
    BY <1>0, <1>4, <2>1 DEF Exponents
  <2>7. Fits(n, d, - k)
    BY <2>5, <2>6 DEF Fits
  <2> QED BY <2>6, <2>7
<1> QED
  BY <1>0, <1>4, <1>8, <1>9

(***************************************************************************)
(* With whatever exponent fits, rounding and cutting give the quotient cut *)
(* towards zero, when the dividend fits a significand.                     *)
(***************************************************************************)
LEMMA FitsIsExact ==
  ASSUME NEW n \in Nat \ {0}, NEW d \in Nat \ {0}, NEW e \in Exponents,
         n <= Pow2[Precision], Fits(n, d, e)
  PROVE  n \div d = IF e >= 0 THEN Nearest(n, d * Pow2[e]) * Pow2[e]
                    ELSE Nearest(n * Pow2[- e], d) \div Pow2[- e]
<1>0. Half \in Nat \ {0} /\ n <= 2 * Half /\ e \in Int
  BY Halves, PrecisionAssumption DEF Exponents
<1>1. CASE e >= 0
  <2>1. e \in Nat /\ Pow2[e] \in Nat \ {0}
    BY <1>0, <1>1, Halves
  <2> DEFINE p == Pow2[e]
  <2>2. (d * p) * Half <= n /\ d * p \in Nat \ {0} /\ (d * p) * Half \in Nat
    <3>1. d * (Half * p) <= n
      BY <1>1, <2>1, Halves DEF Fits
    <3>2. d * p \in Nat /\ d * p # 0
      BY <2>1
    <3> HIDE DEF p
    <3> QED BY <3>1, <3>2, <1>0, <2>1, Multiplied DEF p
  <2>3. d * p <= 2
    <3>1. (d * p) * Half <= 2 * Half
      BY <2>2, <1>0
    <3> HIDE DEF p
    <3> QED BY <3>1, <2>2, <1>0, Multiplied
  <2>4. p = 1 \/ (p = 2 /\ d = 1)
    <3>1. p \in Nat \ {0}
      BY <2>1
    <3> HIDE DEF p
    <3>2. 1 * p <= d * p
      BY <3>1, Multiplied
    <3>3. p <= 2
      BY <3>1, <3>2, <2>2, <2>3
    <3>4. p = 2 => d = 1
      BY <2>3
    <3> QED BY <3>1, <3>3, <3>4
  <2>5. CASE d * p = 1
    <3>1. d = 1 /\ p = 1
      BY <2>4, <2>5
    <3>2. n \div 1 = n /\ n % 1 = 0
      BY DividedIs
    <3>3. Nearest(n, 1) = n
      BY <3>2 DEF Nearest
    <3> QED BY <3>1, <3>2, <3>3, <1>1
  <2>6. CASE d * p = 2
    <3>1. n = 2 * Half + 0
      BY <2>2, <2>6, <1>0
    <3>2. n \div 2 = Half /\ n % 2 = 0
      BY <3>1, <1>0, DividedIs
    <3>3. Nearest(n, 2) = Half
      BY <3>2 DEF Nearest
    <3>4. CASE p = 1 /\ d = 2
      BY <3>2, <3>3, <3>4, <1>0, <1>1
    <3>5. CASE p = 2 /\ d = 1
      <4>1. n \div 1 = n
        BY DividedIs
      <4> QED BY <4>1, <3>1, <3>3, <3>5, <1>0, <1>1
    <3>6. p = 1 => d = 2
      BY <2>6
    <3> QED BY <2>4, <3>4, <3>5, <3>6
  <2> QED
    <3> HIDE DEF p
    <3> QED BY <2>2, <2>3, <2>5, <2>6
<1>2. CASE ~ (e >= 0)
  <2>1. - e \in Nat /\ Pow2[- e] \in Nat \ {0}
    BY <1>0, <1>2, Halves
  <2>2. d * Half <= n * Pow2[- e]
    BY <1>2 DEF Fits, Half
  <2> QED BY <2>1, <2>2, <1>0, <1>2, NoCarry
<1> QED
  BY <1>1, <1>2

(***************************************************************************)
(* Hence the float does.                                                   *)
(***************************************************************************)
LEMMA CutFloatIsExact ==
  ASSUME NEW n \in Nat, NEW d \in Nat \ {0}, n <= Pow2[Precision], d <= Pow2[3 * Precision]
  PROVE  CutFloat(n, d) = n \div d
<1>1. CASE n = 0
  <2>1. n \div d = 0
    BY <1>1, DividedIs
  <2> QED BY <1>1, <2>1 DEF CutFloat
<1>2. CASE n # 0
  <2> DEFINE e == CHOOSE x \in Exponents : Fits(n, d, x)
  <2>1. n <= 2 * Pow2[Precision]
    BY Halves
  <2>2. e \in Exponents /\ Fits(n, d, e)
    BY <1>2, <2>1, SomeExponentFits
  <2>3. CutFloat(n, d) = IF e >= 0 THEN Nearest(n, d * Pow2[e]) * Pow2[e]
                         ELSE Nearest(n * Pow2[- e], d) \div Pow2[- e]
    BY <1>2 DEF CutFloat
  <2> HIDE DEF e
  <2> QED BY <1>2, <2>2, <2>3, FitsIsExact
<1> QED
  BY <1>1, <1>2

(***************************************************************************)
(* The first dividend beyond is odd, and every float of its size is even.  *)
(***************************************************************************)
LEMMA BeyondIsEven ==
  \E x \in Nat : CutFloat(Pow2[Precision] + 1, 1) = 2 * x
<1> DEFINE n == Pow2[Precision] + 1
           e == CHOOSE x \in Exponents : Fits(n, 1, x)
<1>0. Half \in Nat \ {0} /\ Pow2[Precision] = 2 * Half /\ n = 2 * Half + 1
  BY Halves
<1>1. e \in Exponents /\ Fits(n, 1, e)
  <2>1. n \in Nat \ {0} /\ n <= 2 * Pow2[Precision]
    BY <1>0
  <2>2. 1 <= Pow2[3 * Precision]
    BY PrecisionAssumption, Halves
  <2> HIDE DEF n
  <2> QED BY <2>1, <2>2, SomeExponentFits
<1>2. CutFloat(n, 1) = IF e >= 0 THEN Nearest(n, 1 * Pow2[e]) * Pow2[e]
                       ELSE Nearest(n * Pow2[- e], 1) \div Pow2[- e]
  BY <1>0 DEF CutFloat
<1> HIDE DEF e
<1>3. e \in Int
  BY <1>1, PrecisionAssumption DEF Exponents
<1>4. e >= 1
  <2>1. CASE e = 0
    <3>1. n < 1 * Pow2[Precision + 0] /\ Precision + 0 = Precision
      BY <1>1, <2>1, PrecisionAssumption DEF Fits
    <3> QED BY <3>1, <1>0
  <2>2. CASE e < 0
    <3>1. - e \in Nat /\ Pow2[- e] \in Nat \ {0} /\ n * Pow2[- e] < 1 * Pow2[Precision]
      BY <1>1, <1>3, <2>2, Halves DEF Fits
    <3>2. 1 * n <= Pow2[- e] * n
      BY <3>1, <1>0, Multiplied
    <3> QED BY <3>1, <3>2, <1>0
  <2> QED BY <2>1, <2>2, <1>3
<1>5. e \in Nat /\ Pow2[e] = 2 * Pow2[e - 1] /\ Pow2[e - 1] \in Nat
  <2>1. e \in Nat /\ e - 1 \in Nat
    BY <1>3, <1>4
  <2> QED BY <2>1, <1>4, Halves
<1>6. Nearest(n, 1 * Pow2[e]) \in Nat
  <2>1. Pow2[e] \in Nat \ {0} /\ 1 * Pow2[e] = Pow2[e]
    BY <1>5, Halves
  <2>2. n \div Pow2[e] \in Nat
    BY <2>1, <1>0, Divided
  <2> QED BY <2>1, <2>2 DEF Nearest
<1>7. CutFloat(n, 1) = 2 * (Nearest(n, 1 * Pow2[e]) * Pow2[e - 1])
  BY <1>2, <1>4, <1>5, <1>6
<1> QED
  BY <1>5, <1>6, <1>7, Multiplied

(***************************************************************************)
(* int(left / right) of armK, armS and two v1 engines is left / right cut  *)
(* towards zero for every dividend that fits a significand and every       *)
(* divisor of up to three significands, of either sign; and not for the    *)
(* first dividend beyond.  The engines check that operands stay below      *)
(* 2^63, which is far less than three significands of 53 bits.             *)
(***************************************************************************)
THEOREM DivisionIsExact ==
  ASSUME dividend \in Int, divisor \in Int \ {0}, Abs(divisor) <= Pow2[3 * Precision]
  PROVE  DivisionExactness
<1>1. ASSUME Abs(dividend) <= Pow2[Precision]
      PROVE  Divide(dividend, divisor) = Truncated(dividend, divisor)
  <2>1. Abs(dividend) \in Nat /\ Abs(divisor) \in Nat \ {0}
    BY DEF Abs
  <2>2. CutFloat(Abs(dividend), Abs(divisor)) = Abs(dividend) \div Abs(divisor)
    BY <1>1, <2>1, CutFloatIsExact
  <2> QED BY <2>2 DEF Divide, Truncated
<1>2. Divide(Pow2[Precision] + 1, 1) # Truncated(Pow2[Precision] + 1, 1)
  <2>1. PICK x \in Nat : CutFloat(Pow2[Precision] + 1, 1) = 2 * x
    BY BeyondIsEven
  <2>2. Half \in Nat /\ Pow2[Precision] + 1 = 2 * Half + 1
    BY Halves
  <2>3. Abs(Pow2[Precision] + 1) = 2 * Half + 1 /\ Abs(1) = 1 /\ 2 * Half + 1 \in Nat
    BY <2>2 DEF Abs
  <2>4. Divide(Pow2[Precision] + 1, 1) = 2 * x
    BY <2>1, <2>2, <2>3 DEF Divide
  <2>5. (2 * Half + 1) \div 1 = 2 * Half + 1
    BY <2>3, DividedIs
  <2>6. Truncated(Pow2[Precision] + 1, 1) = 2 * Half + 1
    BY <2>2, <2>3, <2>5 DEF Truncated
  <2> QED BY <2>2, <2>4, <2>6
<1> QED
  BY <1>1, <1>2 DEF DivisionExactness

----------------------------------------------------------------------------
(*                            The interval sets                            *)

(***************************************************************************)
(* The elements of a list are what stands at its indices.                  *)
(***************************************************************************)
LEMMA ElementsAt ==
  ASSUME NEW S, NEW l \in Seq(S)
  PROVE  /\ \A i \in 1 .. Len(l) : l[i] \in ToSet(l) /\ l[i] \in S
         /\ \A e \in ToSet(l) : e \in S /\ \E i \in 1 .. Len(l) : l[i] = e
         /\ Len(l) \in Nat
BY LenProperties, ElementOfSeq DEF ToSet

(***************************************************************************)
(* The elements of a list with one more.                                   *)
(***************************************************************************)
LEMMA AppendSet ==
  ASSUME NEW S, NEW l \in Seq(S), NEW e \in S
  PROVE  ToSet(Append(l, e)) = ToSet(l) \cup {e}
BY AppendSeq DEF ToSet

(***************************************************************************)
(* The elements of two lists one after the other.                          *)
(***************************************************************************)
LEMMA ConcatSet ==
  ASSUME NEW S, NEW l \in Seq(S), NEW m \in Seq(S)
  PROVE  l \o m \in Seq(S) /\ ToSet(l \o m) = ToSet(l) \cup ToSet(m)
<1>1. /\ l \o m \in Seq(S) /\ Len(l \o m) = Len(l) + Len(m) /\ Len(l) \in Nat /\ Len(m) \in Nat
      /\ \A i \in 1 .. Len(l) + Len(m) : (l \o m)[i] = IF i <= Len(l) THEN l[i] ELSE m[i - Len(l)]
  BY ConcatProperties, LenProperties
<1>2. ToSet(l \o m) \subseteq ToSet(l) \cup ToSet(m)
  <2> SUFFICES ASSUME NEW e \in ToSet(l \o m) PROVE e \in ToSet(l) \cup ToSet(m)
    OBVIOUS
  <2>1. PICK i \in 1 .. Len(l \o m) : (l \o m)[i] = e
    BY <1>1, ElementsAt
  <2>2. CASE i <= Len(l)
    <3>1. i \in 1 .. Len(l) /\ e = l[i]
      BY <1>1, <2>1, <2>2
    <3> QED BY <3>1, ElementsAt
  <2>3. CASE ~ (i <= Len(l))
    <3>1. i - Len(l) \in 1 .. Len(m) /\ e = m[i - Len(l)]
      BY <1>1, <2>1, <2>3
    <3> QED BY <3>1, ElementsAt
  <2> QED BY <2>2, <2>3
<1>3. ASSUME NEW e \in ToSet(l) PROVE e \in ToSet(l \o m)
  <2>1. PICK i \in 1 .. Len(l) : l[i] = e
    BY ElementsAt
  <2>2. i \in 1 .. Len(l \o m) /\ (l \o m)[i] = e
    BY <1>1, <2>1
  <2> QED BY <1>1, <2>2, ElementsAt
<1>4. ASSUME NEW e \in ToSet(m) PROVE e \in ToSet(l \o m)
  <2>1. PICK i \in 1 .. Len(m) : m[i] = e
    BY ElementsAt
  <2>2. i + Len(l) \in 1 .. Len(l \o m) /\ (l \o m)[i + Len(l)] = e
    BY <1>1, <2>1
  <2> QED BY <1>1, <2>2, ElementsAt
<1> QED
  BY <1>1, <1>2, <1>3, <1>4

(***************************************************************************)
(* The elements of a list are its head and those of its tail.              *)
(***************************************************************************)
LEMMA HeadTailSet ==
  ASSUME NEW S, NEW l \in Seq(S), l # << >>
  PROVE  /\ Tail(l) \in Seq(S) /\ Head(l) \in S
         /\ ToSet(l) = {Head(l)} \cup ToSet(Tail(l))
<1>1. /\ Tail(l) \in Seq(S) /\ Head(l) \in S /\ Head(l) = l[1]
      /\ Len(l) \in Nat \ {0} /\ Len(Tail(l)) = Len(l) - 1
      /\ \A i \in 1 .. Len(Tail(l)) : Tail(l)[i] = l[i + 1]
  BY HeadTailProperties, EmptySeq
<1>2. ASSUME NEW e \in ToSet(l) PROVE e = Head(l) \/ e \in ToSet(Tail(l))
  <2>1. PICK i \in 1 .. Len(l) : l[i] = e
    BY ElementsAt
  <2>2. CASE i # 1
    <3>1. i - 1 \in 1 .. Len(Tail(l)) /\ Tail(l)[i - 1] = e
      BY <1>1, <2>1, <2>2
    <3> QED BY <3>1, <1>1, ElementsAt
  <2> QED BY <1>1, <2>1, <2>2
<1>3. Head(l) \in ToSet(l)
  BY <1>1, ElementsAt
<1>4. ASSUME NEW e \in ToSet(Tail(l)) PROVE e \in ToSet(l)
  <2> DEFINE t == Tail(l)
  <2>0. t \in Seq(S) /\ e \in ToSet(t)
    BY <1>1
  <2>1. PICK i \in 1 .. Len(t) : t[i] = e
    <3> HIDE DEF t
    <3> QED BY <2>0, ElementsAt
  <2>2. i + 1 \in 1 .. Len(l) /\ l[i + 1] = e
    BY <1>1, <2>1
  <2> QED BY <2>2, ElementsAt
<1> QED
  BY <1>1, <1>2, <1>3, <1>4

(***************************************************************************)
(* The elements of a slice of a list, which may be empty.                  *)
(***************************************************************************)
LEMMA SubSeqSet ==
  ASSUME NEW S, NEW l \in Seq(S), NEW m \in 1 .. Len(l) + 1, NEW n \in 0 .. Len(l)
  PROVE  /\ SubSeq(l, m, n) \in Seq(S)
         /\ ToSet(SubSeq(l, m, n)) = {l[i] : i \in m .. n}
<1> DEFINE k == SubSeq(l, m, n)
<1>0. Len(l) \in Nat
  BY LenProperties
<1>1. \A i \in m .. n : l[i] \in S
  BY <1>0, ElementOfSeq
<1>2. /\ k \in Seq(S) /\ Len(k) = IF m <= n THEN n - m + 1 ELSE 0
      /\ \A i \in 1 .. n - m + 1 : k[i] = l[m + i - 1]
  BY <1>0, <1>1, SubSeqProperties
<1> HIDE DEF k
<1>3. ASSUME NEW e \in ToSet(k) PROVE \E i \in m .. n : e = l[i]
  <2>1. PICK i \in 1 .. Len(k) : k[i] = e
    BY <1>2, ElementsAt
  <2>2. i \in 1 .. n - m + 1
    BY <2>1, <1>2, <1>0
  <2>3. m + i - 1 \in m .. n /\ e = l[m + i - 1]
    BY <2>1, <2>2, <1>2, <1>0
  <2> QED BY <2>3
<1>4. ASSUME NEW i \in m .. n PROVE l[i] \in ToSet(k)
  <2>1. i - m + 1 \in 1 .. n - m + 1 /\ m + (i - m + 1) - 1 = i
    BY <1>0
  <2>2. Len(k) = n - m + 1
    BY <1>2, <1>0
  <2>3. k[i - m + 1] = l[i] /\ i - m + 1 \in 1 .. Len(k)
    BY <1>2, <2>1, <2>2
  <2> QED BY <2>3, <1>2, ElementsAt
<1> QED
  BY <1>2, <1>3, <1>4 DEF k

Intervals == Int \X Int

(***************************************************************************)
(* The bounds of what add() makes of two intervals.                        *)
(***************************************************************************)
LEMMA HullIs ==
  ASSUME NEW iv \in Intervals, NEW jv \in Intervals
  PROVE  /\ Hull(iv, jv) \in Intervals
         /\ Hull(iv, jv)[1] = IF iv[1] <= jv[1] THEN iv[1] ELSE jv[1]
         /\ Hull(iv, jv)[2] = IF iv[2] >= jv[2] THEN iv[2] ELSE jv[2]
<1>1. \A a, b \in Int : Min({a, b}) = IF a <= b THEN a ELSE b
  BY DEF Min
<1>2. \A a, b \in Int : Max({a, b}) = IF a >= b THEN a ELSE b
  BY DEF Max
<1>3. iv[1] \in Int /\ iv[2] \in Int /\ jv[1] \in Int /\ jv[2] \in Int
  BY DEF Intervals
<1> QED
  BY <1>1, <1>2, <1>3 DEF Hull, Intervals

Before(l, k) == \A iv \in ToSet(l), jv \in ToSet(k) : iv[2] + 1 < jv[1]

(***************************************************************************)
(* Two lists of runs, the first ending well before the second begins, make *)
(* one list of runs.                                                       *)
(***************************************************************************)
LEMMA RunsJoined ==
  ASSUME NEW l \in Seq(Intervals), NEW k \in Seq(Intervals), AreRuns(l), AreRuns(k), Before(l, k)
  PROVE  AreRuns(l \o k)
<1>1. /\ Len(l \o k) = Len(l) + Len(k) /\ Len(l) \in Nat /\ Len(k) \in Nat
      /\ \A i \in 1 .. Len(l) + Len(k) : (l \o k)[i] = IF i <= Len(l) THEN l[i] ELSE k[i - Len(l)]
  BY ConcatProperties, LenProperties
<1>2. ASSUME NEW i \in 1 .. Len(l \o k) PROVE (l \o k)[i][1] <= (l \o k)[i][2]
  BY <1>1 DEF AreRuns
<1>3. ASSUME NEW i \in 1 .. Len(l \o k), NEW j \in 1 .. Len(l \o k), i < j
      PROVE  (l \o k)[i][2] + 1 < (l \o k)[j][1]
  <2>1. CASE j <= Len(l)
    <3>1. i \in 1 .. Len(l) /\ j \in 1 .. Len(l) /\ (l \o k)[i] = l[i] /\ (l \o k)[j] = l[j]
      BY <1>1, <1>3, <2>1
    <3> QED BY <3>1, <1>3 DEF AreRuns
  <2>2. CASE i <= Len(l) /\ ~ (j <= Len(l))
    <3>1. i \in 1 .. Len(l) /\ j - Len(l) \in 1 .. Len(k)
          /\ (l \o k)[i] = l[i] /\ (l \o k)[j] = k[j - Len(l)]
      BY <1>1, <1>3, <2>2
    <3>2. l[i] \in ToSet(l) /\ k[j - Len(l)] \in ToSet(k)
      BY <3>1, ElementsAt
    <3> QED BY <3>1, <3>2 DEF Before
  <2>3. CASE ~ (i <= Len(l))
    <3>1. i - Len(l) \in 1 .. Len(k) /\ j - Len(l) \in 1 .. Len(k) /\ i - Len(l) < j - Len(l)
          /\ (l \o k)[i] = k[i - Len(l)] /\ (l \o k)[j] = k[j - Len(l)]
      BY <1>1, <1>3, <2>3
    <3> QED BY <3>1 DEF AreRuns
  <2> QED BY <2>1, <2>2, <2>3, <1>1, <1>3
<1> QED
  BY <1>2, <1>3 DEF AreRuns

(***************************************************************************)
(* No interval at all, and a single one, are lists of runs.                *)
(***************************************************************************)
LEMMA OneRun ==
  /\ AreRuns(<< >>) /\ << >> \in Seq(Intervals) /\ ToSet(<< >>) = {}
  /\ \A iv \in Intervals : << iv >> \in Seq(Intervals) /\ ToSet(<< iv >>) = {iv}
                           /\ (iv[1] <= iv[2] => AreRuns(<< iv >>))
<1>1. AreRuns(<< >>) /\ << >> \in Seq(Intervals) /\ ToSet(<< >>) = {}
  BY DEF AreRuns, ToSet
<1>2. ASSUME NEW iv \in Intervals
      PROVE  << iv >> \in Seq(Intervals) /\ ToSet(<< iv >>) = {iv}
             /\ (iv[1] <= iv[2] => AreRuns(<< iv >>))
  <2>1. << iv >> \in Seq(Intervals) /\ Len(<< iv >>) = 1 /\ << iv >>[1] = iv
    OBVIOUS
  <2>2. ToSet(<< iv >>) = {iv}
    BY DEF ToSet
  <2>3. \A i \in 1 .. Len(<< iv >>) : i = 1
    BY <2>1
  <2>4. iv[1] <= iv[2] => AreRuns(<< iv >>)
    BY <2>1, <2>3 DEF AreRuns
  <2> QED BY <2>1, <2>2, <2>4
<1> QED
  BY <1>1, <1>2

(***************************************************************************)
(* What the loops do at every append: an interval well beyond all of a     *)
(* list of runs goes to its end.                                           *)
(***************************************************************************)
LEMMA RunsAppended ==
  ASSUME NEW l \in Seq(Intervals), NEW iv \in Intervals, AreRuns(l), iv[1] <= iv[2],
         \A jv \in ToSet(l) : jv[2] + 1 < iv[1]
  PROVE  AreRuns(Append(l, iv))
<1>1. Append(l, iv) = l \o << iv >>
  OBVIOUS
<1>2. Before(l, << iv >>)
  BY OneRun DEF Before
<1> QED
  BY <1>1, <1>2, OneRun, RunsJoined

(***************************************************************************)
(* A slice of a list of runs.                                              *)
(***************************************************************************)
LEMMA RunsBetween ==
  ASSUME NEW l \in Seq(Intervals), AreRuns(l), NEW m \in 1 .. Len(l) + 1, NEW n \in 0 .. Len(l)
  PROVE  AreRuns(SubSeq(l, m, n))
<1> DEFINE k == SubSeq(l, m, n)
<1>0. Len(l) \in Nat
  BY LenProperties
<1>1. \A i \in m .. n : l[i] \in Intervals
  BY <1>0, ElementOfSeq
<1>2. /\ Len(k) = IF m <= n THEN n - m + 1 ELSE 0
      /\ \A i \in 1 .. n - m + 1 : k[i] = l[m + i - 1]
  BY <1>0, <1>1, SubSeqProperties
<1> HIDE DEF k
<1>3. ASSUME NEW i \in 1 .. Len(k) PROVE k[i] = l[m + i - 1] /\ m + i - 1 \in 1 .. Len(l)
  BY <1>0, <1>2
<1>4. ASSUME NEW i \in 1 .. Len(k) PROVE k[i][1] <= k[i][2]
  BY <1>3 DEF AreRuns
<1>5. ASSUME NEW i \in 1 .. Len(k), NEW j \in 1 .. Len(k), i < j PROVE k[i][2] + 1 < k[j][1]
  <2>1. m + i - 1 < m + j - 1
    BY <1>0, <1>2, <1>5
  <2> QED BY <1>3, <2>1 DEF AreRuns
<1> QED
  BY <1>4, <1>5 DEF k, AreRuns

(***************************************************************************)
(* pop(0) of armB leaves a list of runs, all of it well beyond what was    *)
(* taken.                                                                  *)
(***************************************************************************)
LEMMA RunsTail ==
  ASSUME NEW l \in Seq(Intervals), AreRuns(l), l # << >>
  PROVE  /\ AreRuns(Tail(l)) /\ Head(l)[1] <= Head(l)[2]
         /\ \A jv \in ToSet(Tail(l)) : Head(l)[2] + 1 < jv[1]
<1>1. /\ Tail(l) \in Seq(Intervals) /\ Head(l) = l[1]
      /\ Len(l) \in Nat \ {0} /\ Len(Tail(l)) = Len(l) - 1
      /\ \A i \in 1 .. Len(Tail(l)) : Tail(l)[i] = l[i + 1]
  BY HeadTailProperties, EmptySeq
<1>2. AreRuns(Tail(l))
  BY <1>1 DEF AreRuns
<1>3. Head(l)[1] <= Head(l)[2]
  BY <1>1 DEF AreRuns
<1>4. ASSUME NEW jv \in ToSet(Tail(l)) PROVE Head(l)[2] + 1 < jv[1]
  <2> DEFINE t == Tail(l)
  <2>0. t \in Seq(Intervals) /\ jv \in ToSet(t)
    BY <1>1
  <2>1. PICK i \in 1 .. Len(t) : t[i] = jv
    <3> HIDE DEF t
    <3> QED BY <2>0, ElementsAt
  <2>2. i + 1 \in 1 .. Len(l) /\ 1 < i + 1 /\ jv = l[i + 1] /\ 1 \in 1 .. Len(l)
    BY <1>1, <2>1
  <2> QED BY <1>1, <2>2 DEF AreRuns
<1> QED
  BY <1>2, <1>3, <1>4

(***************************************************************************)
(* A loop that breaks at the first index with a property finds the least   *)
(* one.                                                                    *)
(***************************************************************************)
LEMMA FirstIndex ==
  ASSUME NEW n \in Nat, NEW I \in SUBSET (1 .. n)
  PROVE  IF I = {} THEN (IF I # {} THEN Min(I) ELSE 0) = 0
         ELSE Min(I) \in I /\ \A i \in I : Min(I) <= i
<1>1. CASE I # {}
  <2>1. \E x \in I : \A y \in I : x <= y
    BY <1>1, LeastNat
  <2> QED BY <1>1, <2>1 DEF Min
<1> QED BY <1>1

(***************************************************************************)
(* Both libraries end add() by inserting the grown interval before the     *)
(* first one beyond it. If it is apart from every interval of the list,    *)
(* what results is a list of runs again.                                   *)
(***************************************************************************)
LEMMA RunInserted ==
  ASSUME NEW l \in Seq(Intervals), AreRuns(l), new \in Intervals, new[1] <= new[2],
         \A iv \in ToSet(l) : iv[2] + 1 < new[1] \/ new[2] + 1 < iv[1],
         NEW I \in SUBSET (1 .. Len(l)),
         \A i \in 1 .. Len(l) : i \in I <=> new[2] + 1 < l[i][1]
  PROVE  LET found == IF I # {} THEN Min(I) ELSE 0
         IN /\ Inserted(l, found) \in Seq(Intervals) /\ AreRuns(Inserted(l, found))
            /\ ToSet(Inserted(l, found)) = ToSet(l) \cup {new}
<1>0. Len(l) \in Nat /\ \A i \in 1 .. Len(l) : l[i] \in Intervals /\ l[i] \in ToSet(l)
                                              /\ l[i][1] \in Int /\ l[i][2] \in Int
  BY ElementsAt DEF Intervals
<1>1. CASE I = {}
  <2>1. \A iv \in ToSet(l) : iv[2] + 1 < new[1]
    BY <1>1, ElementsAt
  <2> QED BY <1>1, <2>1, RunsAppended, AppendSet DEF Inserted
<1>2. CASE I # {}
  <2> DEFINE found == Min(I)
             left == SubSeq(l, 1, found - 1)
             right == SubSeq(l, found, Len(l))
  <2>1. found \in I /\ \A i \in I : found <= i
    BY <1>0, <1>2, FirstIndex
  <2>2. found \in 1 .. Len(l)
    BY <2>1
  <2> HIDE DEF found
  <2>3. /\ 1 \in 1 .. Len(l) + 1 /\ found - 1 \in 0 .. Len(l)
        /\ found \in 1 .. Len(l) + 1 /\ Len(l) \in 0 .. Len(l)
    BY <1>0, <2>2
  <2>4. /\ left \in Seq(Intervals) /\ AreRuns(left) /\ ToSet(left) = {l[i] : i \in 1 .. found - 1}
        /\ right \in Seq(Intervals) /\ AreRuns(right) /\ ToSet(right) = {l[i] : i \in found .. Len(l)}
    BY <2>3, SubSeqSet, RunsBetween
  <2>5. ToSet(l) = ToSet(left) \cup ToSet(right)
    <3>1. \A i \in 1 .. Len(l) : i \in 1 .. found - 1 \/ i \in found .. Len(l)
      BY <1>0, <2>2
    <3>2. \A i : i \in 1 .. found - 1 \/ i \in found .. Len(l) => i \in 1 .. Len(l)
      BY <1>0, <2>2
    <3> QED BY <2>4, <3>1, <3>2, ElementsAt
  <2> HIDE DEF left, right
  <2>6. ASSUME NEW iv \in ToSet(left) PROVE iv[2] + 1 < new[1]
    <3>1. PICK i \in 1 .. found - 1 : iv = l[i]
      BY <2>4
    <3>2. i \in 1 .. Len(l) /\ i \notin I
      BY <1>0, <2>1, <2>2, <3>1
    <3> QED BY <1>0, <3>1, <3>2
  <2>7. ASSUME NEW jv \in ToSet(right) PROVE new[2] + 1 < jv[1]
    <3>1. PICK i \in found .. Len(l) : jv = l[i]
      BY <2>4
    <3>2. i \in 1 .. Len(l) /\ new[2] + 1 < l[found][1]
      BY <1>0, <2>1, <2>2, <3>1
    <3>3. l[found][1] <= l[i][1]
      <4>1. found < i => l[found][1] <= l[found][2] /\ l[found][2] + 1 < l[i][1]
        BY <2>2, <3>2 DEF AreRuns
      <4> QED BY <1>0, <2>2, <3>1, <3>2, <4>1
    <3> QED BY <1>0, <2>2, <3>1, <3>2, <3>3 DEF Intervals
  <2>8. << new >> \in Seq(Intervals) /\ ToSet(<< new >>) = {new} /\ AreRuns(<< new >>)
    BY OneRun
  <2> DEFINE head == left \o << new >>
  <2>9. head \in Seq(Intervals) /\ AreRuns(head) /\ ToSet(head) = ToSet(left) \cup {new}
    <3>1. Before(left, << new >>)
      BY <2>6, <2>8 DEF Before
    <3>2. AreRuns(head)
      BY <2>4, <2>8, <3>1, RunsJoined
    <3>3. head \in Seq(Intervals) /\ ToSet(head) = ToSet(left) \cup ToSet(<< new >>)
      <4> DEFINE one == << new >>
      <4>1. one \in Seq(Intervals) /\ left \in Seq(Intervals)
        BY <2>4, <2>8
      <4> HIDE DEF one
      <4>2. left \o one \in Seq(Intervals) /\ ToSet(left \o one) = ToSet(left) \cup ToSet(one)
        BY <4>1, ConcatSet
      <4> QED BY <4>2 DEF one
    <3> QED BY <2>8, <3>2, <3>3
  <2> HIDE DEF head
  <2>10. Before(head, right)
    <3>1. ASSUME NEW iv \in ToSet(left), NEW jv \in ToSet(right) PROVE iv[2] + 1 < jv[1]
      <4>1. iv \in Intervals /\ jv \in Intervals
        BY <2>4, ElementsAt
      <4> QED BY <2>6, <2>7, <4>1 DEF Intervals
    <3> QED BY <2>7, <2>9, <3>1 DEF Before
  <2>11. head \o right \in Seq(Intervals) /\ AreRuns(head \o right)
         /\ ToSet(head \o right) = ToSet(l) \cup {new}
    <3>1. head \in Seq(Intervals) /\ right \in Seq(Intervals) /\ AreRuns(head) /\ AreRuns(right)
      BY <2>4, <2>9
    <3>2. AreRuns(head \o right)
      BY <2>10, <3>1, RunsJoined
    <3>3. head \o right \in Seq(Intervals) /\ ToSet(head \o right) = ToSet(head) \cup ToSet(right)
      BY <3>1, ConcatSet
    <3> QED BY <2>5, <2>9, <3>2, <3>3
  <2>12. Inserted(l, found) = head \o right
    <3>1. Inserted(l, found) = InsertAt(l, found, new)
      <4>1. found # 0
        BY <1>0, <2>2
      <4> QED BY <4>1 DEF Inserted
    <3> QED BY <3>1 DEF InsertAt, head, left, right
  <2> QED BY <1>2, <2>11, <2>12 DEF found
<1> QED
  BY <1>1, <1>2

\* The intervals of the list that the loop has passed.
Passed(x) == \E i \in 1 .. pos - 1 : list[i][1] <= x /\ x <= list[i][2]

\* All intervals of l end before those the loop is still to see.
Behind(l) == \A iv \in ToSet(l), i \in pos .. Len(list) : iv[2] + 1 < list[i][1]

Within(iv, x) == iv[1] <= x /\ x <= iv[2]

Among(S, x) == \E iv \in S : Within(iv, x)

IntervalTypeOK ==
    /\ library \in {"A", "B"} /\ call \in {"none", "add", "remove"}
    /\ list \in Seq(Intervals) /\ members \in SUBSET Int
    /\ start \in Int /\ end \in Int /\ pos \in 1 .. Len(list) + 1 /\ new \in Intervals
    /\ skipped \in Seq(Intervals) /\ merged \in Seq(Intervals) /\ result \in Seq(Intervals)

\* Inside a call too, list and members are those the last call left.
ListInv == AreRuns(list) /\ \A x \in Int : x \in members <=> Covers(list, x)

CallInv == IF call = "none" THEN pos = 1 /\ skipped = << >> /\ merged = << >> /\ result = << >>
           ELSE start <= end

\* remove(): what result covers is what the loop passed, less the call's range.
RemoveInv ==
    /\ skipped = << >> /\ merged = << >>
    /\ AreRuns(result) /\ Behind(result)
    /\ \A x \in Int : Among(ToSet(result), x) <=> Passed(x) /\ ~ (start <= x /\ x <= end)

\* add() of armA: result and new cover what the loop passed and the call's range.
\* It compares every interval with the call's range, not with new; once new has
\* grown beyond an end of it, no interval it could still miss there is to come.
AddInvA ==
    /\ skipped = << >> /\ merged = << >>
    /\ AreRuns(result) /\ Behind(result)
    /\ new[1] <= start /\ end <= new[2]
    /\ new[1] = start \/ \A i \in pos .. Len(list) : start <= list[i][1]
    /\ new[2] = end \/ \A i \in pos .. Len(list) : new[2] + 1 < list[i][1]
    /\ \A iv \in ToSet(result) : iv[2] + 1 < new[1] \/ new[2] + 1 < iv[1]
    /\ \A x \in Int : Among(ToSet(result), x) \/ Within(new, x)
                      <=> Passed(x) \/ (start <= x /\ x <= end)

\* add() of armB: the three lists and new cover what the loop passed and the
\* call's range, the lists in order of one another and apart from new.
AddInvB ==
    /\ AreRuns(skipped) /\ AreRuns(merged) /\ AreRuns(result)
    /\ Behind(skipped) /\ Behind(merged) /\ Behind(result)
    /\ Before(result, skipped) /\ Before(result, merged) /\ Before(skipped, merged)
    /\ new[1] <= new[2]
    /\ \A iv \in ToSet(skipped) : iv[2] + 1 < new[1]
    /\ \A iv \in ToSet(merged) : new[2] + 1 < iv[1]
    /\ \A iv \in ToSet(result) : iv[2] + 1 < new[1] \/ new[2] + 1 < iv[1]
    /\ \A x \in Int : Among(ToSet(skipped) \cup ToSet(merged) \cup ToSet(result), x) \/ Within(new, x)
                      <=> Passed(x) \/ (start <= x /\ x <= end)

IntervalInv ==
    /\ IntervalTypeOK /\ ListInv /\ CallInv
    /\ call = "remove" => RemoveInv
    /\ call = "add" /\ library = "A" => AddInvA
    /\ call = "add" /\ library = "B" => AddInvB

(***************************************************************************)
(* The elements of a list of runs are intervals that are not empty.        *)
(***************************************************************************)
LEMMA RunsElements ==
  ASSUME NEW l \in Seq(Intervals), AreRuns(l)
  PROVE  \A iv \in ToSet(l) : iv \in Intervals /\ iv[1] \in Int /\ iv[2] \in Int /\ iv[1] <= iv[2]
<1> TAKE iv \in ToSet(l)
<1>1. iv \in Intervals /\ \E i \in 1 .. Len(l) : l[i] = iv
  BY ElementsAt
<1> QED
  BY <1>1 DEF AreRuns, Intervals

(***************************************************************************)
(* One turn of a loop over the list: it passes list[pos], and all that is  *)
(* left begins beyond its end, with a gap.                                 *)
(***************************************************************************)
LEMMA NextInterval ==
  ASSUME IntervalTypeOK, ListInv, pos <= Len(list), pos' = pos + 1, list' = list
  PROVE  /\ pos \in 1 .. Len(list) /\ pos' \in 1 .. Len(list) + 1
         /\ list[pos] \in Intervals /\ list[pos][1] \in Int /\ list[pos][2] \in Int
         /\ list[pos][1] <= list[pos][2]
         /\ \A x : Passed(x)' <=> Passed(x) \/ Within(list[pos], x)
         /\ \A i \in pos' .. Len(list) : /\ i \in pos .. Len(list) /\ list[i][1] \in Int
                                         /\ list[pos][2] + 1 < list[i][1]
<1>1. Len(list) \in Nat /\ pos \in 1 .. Len(list)
  BY LenProperties DEF IntervalTypeOK
<1>2. /\ list[pos] \in Intervals /\ list[pos][1] \in Int /\ list[pos][2] \in Int
      /\ list[pos][1] <= list[pos][2]
  BY <1>1, ElementOfSeq DEF IntervalTypeOK, Intervals, ListInv, AreRuns
<1>3. ASSUME NEW x PROVE Passed(x)' <=> Passed(x) \/ Within(list[pos], x)
  <2>1. \A i : i \in 1 .. pos' - 1 <=> i \in 1 .. pos - 1 \/ i = pos
    BY <1>1
  <2> QED BY <2>1 DEF Passed, Within
<1>4. ASSUME NEW i \in pos' .. Len(list)
      PROVE  i \in pos .. Len(list) /\ list[i][1] \in Int /\ list[pos][2] + 1 < list[i][1]
  <2>1. i \in pos .. Len(list) /\ i \in 1 .. Len(list) /\ pos < i
    BY <1>1
  <2>2. list[i] \in Intervals
    BY <2>1, ElementOfSeq DEF IntervalTypeOK
  <2> QED BY <1>1, <2>1, <2>2 DEF ListInv, AreRuns, Intervals
<1> QED
  BY <1>1, <1>2, <1>3, <1>4

(***************************************************************************)
(* A list the loop has put behind what it still has to see, and perhaps    *)
(* the interval at hand, stays behind the rest.                            *)
(***************************************************************************)
LEMMA StillBehind ==
  ASSUME IntervalTypeOK, ListInv, pos <= Len(list), pos' = pos + 1, list' = list,
         NEW l, Behind(l), NEW k, ToSet(k) \subseteq ToSet(l) \cup {list[pos]}
  PROVE  \A iv \in ToSet(k), i \in pos' .. Len(list') : iv[2] + 1 < list'[i][1]
<1> TAKE iv \in ToSet(k), i \in pos' .. Len(list')
<1>1. i \in pos .. Len(list) /\ list[pos][2] + 1 < list[i][1]
  BY NextInterval
<1> QED
  BY <1>1 DEF Behind

(***************************************************************************)
(* Of two intervals that overlap or touch, add() makes one that covers     *)
(* what they did and no more.                                              *)
(***************************************************************************)
LEMMA HullCovers ==
  ASSUME NEW iv \in Intervals, NEW jv \in Intervals, iv[1] <= iv[2], jv[1] <= jv[2],
         iv[1] <= jv[2] + 1, jv[1] <= iv[2] + 1
  PROVE  \A x \in Int : Within(Hull(iv, jv), x) <=> Within(iv, x) \/ Within(jv, x)
<1> TAKE x \in Int
<1>1. iv[1] \in Int /\ iv[2] \in Int /\ jv[1] \in Int /\ jv[2] \in Int
  BY DEF Intervals
<1> QED
  BY <1>1, HullIs DEF Within

(***************************************************************************)
(* A turn of the loop of add() in armA.                                    *)
(***************************************************************************)
LEMMA ScanAKeeps ==
  ASSUME IntervalInv, ScanA PROVE IntervalInv'
<1> DEFINE iv == list[pos]
<1> USE DEF IntervalInv
<1>0. /\ IntervalTypeOK /\ ListInv /\ AddInvA /\ library = "A" /\ call = "add" /\ start <= end
      /\ pos <= Len(list) /\ pos' = pos + 1 /\ list' = list /\ members' = members
      /\ library' = library /\ call' = call /\ start' = start /\ end' = end
      /\ skipped' = skipped /\ merged' = merged
  BY DEF ScanA, InLoop, CallInv
<1>1. /\ pos \in 1 .. Len(list) /\ pos' \in 1 .. Len(list) + 1
      /\ iv \in Intervals /\ iv[1] \in Int /\ iv[2] \in Int
      /\ iv[1] <= iv[2]
      /\ \A x : Passed(x)' <=> Passed(x) \/ Within(iv, x)
      /\ \A i \in pos' .. Len(list) : /\ i \in pos .. Len(list) /\ list[i][1] \in Int
                                      /\ iv[2] + 1 < list[i][1]
  BY <1>0, NextInterval
<1>2. /\ new \in Intervals /\ new[1] \in Int /\ new[2] \in Int /\ start \in Int /\ end \in Int
      /\ result \in Seq(Intervals) /\ AreRuns(result) /\ Behind(result)
  BY <1>0 DEF IntervalTypeOK, Intervals, AddInvA
<1>3. \A rv \in ToSet(result) : /\ rv[1] \in Int /\ rv[2] \in Int /\ rv[1] <= rv[2]
                                /\ rv[2] + 1 < iv[1]
  BY <1>1, <1>2, RunsElements DEF Behind
<1>4. IF Apart(iv, start - 1, end + 1)
      THEN result' = Append(result, iv) /\ new' = new
      ELSE new' = Hull(new, iv) /\ result' = result
  BY DEF ScanA
<1>1a. iv[1] \in Int /\ iv[2] \in Int /\ iv[1] <= iv[2] /\ new[1] \in Int /\ new[2] \in Int
       /\ start \in Int /\ end \in Int
  BY <1>1, <1>2
<1> HIDE DEF iv
<1>5. new[1] <= start /\ end <= new[2] /\ (new[1] = start \/ start <= iv[1])
      /\ (new[2] = end \/ new[2] + 1 < iv[1])
  <2>1. pos \in pos .. Len(list)
    BY <1>1
  <2> QED BY <1>0, <2>1 DEF AddInvA, iv
<1>6. CASE Apart(iv, start - 1, end + 1)
  <2>1. iv[2] + 1 < new[1] \/ new[2] + 1 < iv[1]
    BY <1>1, <1>2, <1>5, <1>6 DEF Apart
  <2>2. result' = Append(result, iv) /\ new' = new
    BY <1>4, <1>6
  <2>3. result' \in Seq(Intervals) /\ ToSet(result') = ToSet(result) \cup {iv}
    BY <1>1, <1>2, <2>2, AppendSet
  <2>4. AreRuns(result')
    BY <1>1, <1>2, <1>3, <2>2, RunsAppended
  <2>5. Behind(result)'
    <3>1. ToSet(result') \subseteq ToSet(result) \cup {list[pos]}
      BY <2>3 DEF iv
    <3> QED BY <1>0, <1>2, <3>1, StillBehind DEF Behind
  <2>6. /\ new[1] = start \/ \A i \in pos' .. Len(list') : start <= list'[i][1]
        /\ new[2] = end \/ \A i \in pos' .. Len(list') : new[2] + 1 < list'[i][1]
    BY <1>0, <1>1 DEF AddInvA
  <2>7. \A rv \in ToSet(result') : rv[2] + 1 < new[1] \/ new[2] + 1 < rv[1]
    BY <1>0, <2>1, <2>3 DEF AddInvA
  <2>8. \A x \in Int : Among(ToSet(result'), x) \/ Within(new, x)
                      <=> Passed(x)' \/ (start <= x /\ x <= end)
    <3> TAKE x \in Int
    <3>1. Among(ToSet(result'), x) <=> Among(ToSet(result), x) \/ Within(iv, x)
      BY <2>3 DEF Among
    <3>2. Passed(x)' <=> Passed(x) \/ Within(iv, x)
      BY <1>1
    <3>3. Among(ToSet(result), x) \/ Within(new, x) <=> Passed(x) \/ (start <= x /\ x <= end)
      BY <1>0 DEF AddInvA
    <3> QED BY <3>1, <3>2, <3>3
  <2>9. AddInvA'
    BY <1>0, <1>5, <2>2, <2>4, <2>5, <2>6, <2>7, <2>8 DEF AddInvA
  <2>10. IntervalTypeOK' /\ ListInv' /\ CallInv'
    BY <1>0, <1>1, <1>2, <2>2, <2>3 DEF IntervalTypeOK, ListInv, AreRuns, Covers, CallInv
  <2> QED BY <1>0, <2>9, <2>10
<1>7. CASE ~ Apart(iv, start - 1, end + 1)
  <2>1. iv[2] + 1 >= start /\ iv[1] <= end + 1
    BY <1>1, <1>2, <1>7 DEF Apart
  <2>2. /\ new' = Hull(new, iv) /\ result' = result
        /\ new' \in Intervals /\ new'[1] \in Int /\ new'[2] \in Int
        /\ new'[1] = IF new[1] <= iv[1] THEN new[1] ELSE iv[1]
        /\ new'[2] = IF new[2] >= iv[2] THEN new[2] ELSE iv[2]
    BY <1>1, <1>2, <1>4, <1>7, HullIs DEF Intervals
  <2>3. Behind(result)'
    BY <1>0, <1>2, <2>2, StillBehind DEF Behind
  <2>4. new'[1] <= start /\ end <= new'[2]
    BY <1>1, <1>2, <1>5, <2>2
  <2>5. \A i \in pos' .. Len(list') : start <= list'[i][1]
    BY <1>0, <1>1, <1>2, <2>1
  <2>6. new'[2] = end \/ \A i \in pos' .. Len(list') : new'[2] + 1 < list'[i][1]
    <3>1. CASE new[2] >= iv[2] /\ new[2] # end
      <4>1. \A i \in pos' .. Len(list) : new[2] + 1 < list[i][1]
        BY <1>0, <1>1, <3>1 DEF AddInvA
      <4> QED BY <1>0, <2>2, <3>1, <4>1
    <3>2. CASE ~ (new[2] >= iv[2])
      BY <1>0, <1>1, <2>2, <3>2
    <3> QED BY <2>2, <3>1, <3>2
  <2>7. \A rv \in ToSet(result') : rv[2] + 1 < new'[1] \/ new'[2] + 1 < rv[1]
    <3> SUFFICES ASSUME NEW rv \in ToSet(result) PROVE rv[2] + 1 < new'[1] \/ new'[2] + 1 < rv[1]
      BY <2>2
    <3>1. rv[1] \in Int /\ rv[2] \in Int /\ rv[1] <= rv[2] /\ rv[2] + 1 < iv[1]
      BY <1>3
    <3>2. rv[2] + 1 < new[1] \/ new[2] + 1 < rv[1]
      BY <1>0 DEF AddInvA
    <3>3. ~ (new[2] + 1 < rv[1])
      BY <1>1a, <1>5, <2>1, <3>1
    <3>4. rv[2] + 1 < new[1]
      BY <3>2, <3>3
    <3>5. new'[1] = new[1] \/ new'[1] = iv[1]
      BY <2>2
    <3> QED BY <3>1, <3>4, <3>5
  <2>8. \A x \in Int : Among(ToSet(result'), x) \/ Within(new', x)
                      <=> Passed(x)' \/ (start <= x /\ x <= end)
    <3> TAKE x \in Int
    <3>1. Within(new', x) <=> Within(new, x) \/ Within(iv, x)
      <4>1. new[1] <= new[2] /\ new[1] <= iv[2] + 1 /\ iv[1] <= new[2] + 1
        <5>1. start <= end /\ new[1] <= start /\ end <= new[2]
          BY <1>0, <1>5
        <5> QED BY <1>1a, <2>1, <5>1
      <4>2. new \in Intervals /\ iv \in Intervals /\ iv[1] <= iv[2] /\ new' = Hull(new, iv)
        BY <1>1, <1>2, <2>2
      <4> QED BY <4>1, <4>2, HullCovers
    <3>2. Passed(x)' <=> Passed(x) \/ Within(iv, x)
      BY <1>1
    <3>3. Among(ToSet(result), x) \/ Within(new, x) <=> Passed(x) \/ (start <= x /\ x <= end)
      BY <1>0 DEF AddInvA
    <3> QED BY <2>2, <3>1, <3>2, <3>3
  <2>9. AddInvA'
    BY <1>0, <1>2, <2>2, <2>3, <2>4, <2>5, <2>6, <2>7, <2>8 DEF AddInvA
  <2>10. IntervalTypeOK' /\ ListInv' /\ CallInv'
    BY <1>0, <1>1, <1>2, <2>2 DEF IntervalTypeOK, ListInv, AreRuns, Covers, CallInv
  <2> QED BY <1>0, <2>9, <2>10
<1> QED
  BY <1>6, <1>7

(***************************************************************************)
(* A turn of the loop of add() in armB. While an interval is joined, and   *)
(* while one is put in front, nothing can be beyond the grown interval     *)
(* yet.                                                                    *)
(***************************************************************************)
LEMMA ScanBKeeps ==
  ASSUME IntervalInv, ScanB PROVE IntervalInv'
<1> DEFINE iv == list[pos]
<1> USE DEF IntervalInv
<1>0. /\ IntervalTypeOK /\ ListInv /\ AddInvB /\ library = "B" /\ call = "add" /\ start <= end
      /\ pos <= Len(list) /\ pos' = pos + 1 /\ list' = list /\ members' = members
      /\ library' = library /\ call' = call /\ start' = start /\ end' = end
      /\ result' = result
  BY DEF ScanB, InLoop, CallInv
<1>1. /\ pos \in 1 .. Len(list) /\ pos' \in 1 .. Len(list) + 1
      /\ iv \in Intervals /\ iv[1] \in Int /\ iv[2] \in Int
      /\ iv[1] <= iv[2]
      /\ \A x : Passed(x)' <=> Passed(x) \/ Within(iv, x)
      /\ \A i \in pos' .. Len(list) : /\ i \in pos .. Len(list) /\ list[i][1] \in Int
                                      /\ iv[2] + 1 < list[i][1]
  BY <1>0, NextInterval
<1>2. /\ new \in Intervals /\ new[1] \in Int /\ new[2] \in Int /\ start \in Int /\ end \in Int
      /\ new[1] <= new[2]
      /\ skipped \in Seq(Intervals) /\ AreRuns(skipped) /\ Behind(skipped)
      /\ merged \in Seq(Intervals) /\ AreRuns(merged) /\ Behind(merged)
      /\ result \in Seq(Intervals) /\ AreRuns(result) /\ Behind(result)
  BY <1>0 DEF IntervalTypeOK, Intervals, AddInvB
<1>3. \A jv \in ToSet(skipped) \cup ToSet(merged) \cup ToSet(result) :
          jv[1] \in Int /\ jv[2] \in Int /\ jv[1] <= jv[2] /\ jv[2] + 1 < iv[1]
  <2>1. ASSUME NEW l \in Seq(Intervals), AreRuns(l), Behind(l)
        PROVE  \A jv \in ToSet(l) : /\ jv[1] \in Int /\ jv[2] \in Int
                                     /\ jv[1] <= jv[2] /\ jv[2] + 1 < iv[1]
    BY <1>1, <2>1, RunsElements DEF Behind
  <2> QED BY <1>2, <2>1
<1>1a. iv[1] \in Int /\ iv[2] \in Int /\ iv[1] <= iv[2]
       /\ new[1] \in Int /\ new[2] \in Int /\ new[1] <= new[2]
  BY <1>1, <1>2
<1>4. \/ /\ iv[2] + 1 < new[1]
         /\ skipped' = Append(skipped, iv) /\ merged' = merged /\ new' = new
      \/ /\ iv[2] + 1 >= new[1] /\ new[2] + 1 < iv[1]
         /\ merged' = Append(merged, iv) /\ skipped' = skipped /\ new' = new
      \/ /\ iv[2] + 1 >= new[1] /\ new[2] + 1 >= iv[1]
         /\ new' = Hull(new, iv) /\ skipped' = skipped /\ merged' = merged
  BY DEF ScanB
<1>5. /\ \A jv \in ToSet(skipped) : jv[2] + 1 < new[1]
      /\ \A jv \in ToSet(merged) : new[2] + 1 < jv[1]
      /\ \A jv \in ToSet(result) : jv[2] + 1 < new[1] \/ new[2] + 1 < jv[1]
      /\ Before(result, skipped) /\ Before(result, merged) /\ Before(skipped, merged)
  BY <1>0 DEF AddInvB
<1>6. \A x \in Int : Among(ToSet(skipped) \cup ToSet(merged) \cup ToSet(result), x) \/ Within(new, x)
                      <=> Passed(x) \/ (start <= x /\ x <= end)
  BY <1>0 DEF AddInvB
<1>7. Behind(result)'
  BY <1>0, <1>2, StillBehind DEF Behind
<1>8. ASSUME skipped' \in Seq(Intervals), merged' \in Seq(Intervals), new' \in Intervals
      PROVE  IntervalTypeOK' /\ ListInv' /\ CallInv'
  BY <1>0, <1>1, <1>2, <1>8 DEF IntervalTypeOK, ListInv, AreRuns, Covers, CallInv
<1> HIDE DEF iv
<1>9. CASE /\ iv[2] + 1 < new[1]
           /\ skipped' = Append(skipped, iv) /\ merged' = merged /\ new' = new
  <2>1. skipped' \in Seq(Intervals) /\ ToSet(skipped') = ToSet(skipped) \cup {iv}
    BY <1>1, <1>2, <1>9, AppendSet
  <2>2. AreRuns(skipped')
    BY <1>1, <1>2, <1>3, <1>9, RunsAppended
  <2>3. Behind(skipped)'
    <3>1. ToSet(skipped') \subseteq ToSet(skipped) \cup {list[pos]}
      BY <2>1 DEF iv
    <3> QED BY <1>0, <1>2, <3>1, StillBehind DEF Behind
  <2>4. Behind(merged)'
    BY <1>0, <1>2, <1>9, StillBehind DEF Behind
  <2>5. \A jv \in ToSet(skipped') : jv[2] + 1 < new[1]
    BY <1>5, <1>9, <2>1
  <2>6. Before(result, skipped')
    BY <1>3, <1>5, <2>1 DEF Before
  <2>7. Before(skipped', merged)
    <3>1. ASSUME NEW jv \in ToSet(merged) PROVE FALSE
      <4>1. /\ jv[1] \in Int /\ jv[2] \in Int /\ jv[1] <= jv[2]
            /\ jv[2] + 1 < iv[1] /\ new[2] + 1 < jv[1]
        BY <1>3, <1>5
      <4> QED BY <4>1, <1>1a, <1>9
    <3> QED BY <3>1 DEF Before
  <2>8. \A x \in Int : Among(ToSet(skipped') \cup ToSet(merged) \cup ToSet(result), x) \/ Within(new, x)
                      <=> Passed(x)' \/ (start <= x /\ x <= end)
    <3> TAKE x \in Int
    <3>1. Among(ToSet(skipped') \cup ToSet(merged) \cup ToSet(result), x) <=>
          Among(ToSet(skipped) \cup ToSet(merged) \cup ToSet(result), x) \/ Within(iv, x)
      BY <2>1 DEF Among
    <3> QED BY <1>1, <1>6, <3>1
  <2>9. AddInvB'
    BY <1>0, <1>2, <1>5, <1>7, <1>9, <2>2, <2>3, <2>4, <2>5, <2>6, <2>7, <2>8 DEF AddInvB
  <2> QED BY <1>0, <1>2, <1>8, <1>9, <2>1, <2>9
<1>10. CASE /\ iv[2] + 1 >= new[1] /\ new[2] + 1 < iv[1]
            /\ merged' = Append(merged, iv) /\ skipped' = skipped /\ new' = new
  <2>1. merged' \in Seq(Intervals) /\ ToSet(merged') = ToSet(merged) \cup {iv}
    BY <1>1, <1>2, <1>10, AppendSet
  <2>2. AreRuns(merged')
    BY <1>1, <1>2, <1>3, <1>10, RunsAppended
  <2>3. Behind(merged)'
    <3>1. ToSet(merged') \subseteq ToSet(merged) \cup {list[pos]}
      BY <2>1 DEF iv
    <3> QED BY <1>0, <1>2, <3>1, StillBehind DEF Behind
  <2>4. Behind(skipped)'
    BY <1>0, <1>2, <1>10, StillBehind DEF Behind
  <2>5. \A jv \in ToSet(merged') : new[2] + 1 < jv[1]
    BY <1>5, <1>10, <2>1
  <2>6. Before(result, merged') /\ Before(skipped, merged')
    BY <1>3, <1>5, <2>1 DEF Before
  <2>7. \A x \in Int : Among(ToSet(skipped) \cup ToSet(merged') \cup ToSet(result), x) \/ Within(new, x)
                      <=> Passed(x)' \/ (start <= x /\ x <= end)
    <3> TAKE x \in Int
    <3>1. Among(ToSet(skipped) \cup ToSet(merged') \cup ToSet(result), x) <=>
          Among(ToSet(skipped) \cup ToSet(merged) \cup ToSet(result), x) \/ Within(iv, x)
      BY <2>1 DEF Among
    <3> QED BY <1>1, <1>6, <3>1
  <2>8. AddInvB'
    BY <1>0, <1>2, <1>5, <1>7, <1>10, <2>2, <2>3, <2>4, <2>5, <2>6, <2>7 DEF AddInvB
  <2> QED BY <1>0, <1>2, <1>8, <1>10, <2>1, <2>8
<1>11. CASE /\ iv[2] + 1 >= new[1] /\ new[2] + 1 >= iv[1]
            /\ new' = Hull(new, iv) /\ skipped' = skipped /\ merged' = merged
  <2>1. /\ new' \in Intervals /\ new'[1] \in Int /\ new'[2] \in Int
        /\ new'[1] = IF new[1] <= iv[1] THEN new[1] ELSE iv[1]
        /\ new'[2] = IF new[2] >= iv[2] THEN new[2] ELSE iv[2]
    BY <1>1, <1>2, <1>11, HullIs DEF Intervals
  <2>2. new'[1] <= new'[2]
    BY <1>1, <1>2, <2>1
  <2>3. Behind(skipped)' /\ Behind(merged)'
    BY <1>0, <1>2, <1>11, StillBehind DEF Behind
  <2>4. ASSUME NEW jv \in ToSet(merged) PROVE FALSE
    <3>1. /\ jv[1] \in Int /\ jv[2] \in Int /\ jv[1] <= jv[2]
          /\ jv[2] + 1 < iv[1] /\ new[2] + 1 < jv[1]
      BY <1>3, <1>5
    <3> QED BY <3>1, <1>1a, <1>11
  <2>5. \A jv \in ToSet(skipped) : jv[2] + 1 < new'[1]
    BY <1>1, <1>2, <1>3, <1>5, <2>1
  <2>6. ASSUME NEW jv \in ToSet(result) PROVE jv[2] + 1 < new'[1]
    <3>1. jv[1] \in Int /\ jv[2] \in Int /\ jv[1] <= jv[2] /\ jv[2] + 1 < iv[1]
      BY <1>3
    <3>1a. jv[2] + 1 < new[1] \/ new[2] + 1 < jv[1]
      BY <1>5
    <3>2. jv[2] + 1 < new[1]
      BY <1>1a, <1>11, <3>1, <3>1a
    <3> QED BY <2>1, <3>1, <3>2
  <2>7. \A x \in Int : Among(ToSet(skipped) \cup ToSet(merged) \cup ToSet(result), x) \/ Within(new', x)
                      <=> Passed(x)' \/ (start <= x /\ x <= end)
    <3> TAKE x \in Int
    <3>1. Within(new', x) <=> Within(new, x) \/ Within(iv, x)
      <4>1. new[1] <= iv[2] + 1 /\ iv[1] <= new[2] + 1
        BY <1>1, <1>2, <1>11
      <4> QED BY <1>1, <1>2, <1>11, <4>1, HullCovers
    <3> QED BY <1>1, <1>6, <3>1
  <2>8. AddInvB'
    BY <1>0, <1>2, <1>5, <1>7, <1>11, <2>2, <2>3, <2>4, <2>5, <2>6, <2>7 DEF AddInvB
  <2> QED BY <1>0, <1>2, <1>8, <1>11, <2>1, <2>8
<1> QED
  BY <1>4, <1>9, <1>10, <1>11

(***************************************************************************)
(* armB takes the head of skipped or of merged: always that of skipped     *)
(* while there is one, and the list it builds stays a list of runs.        *)
(***************************************************************************)
LEMMA OrderBKeeps ==
  ASSUME IntervalInv, OrderB PROVE IntervalInv'
<1> USE DEF IntervalInv
<1>0. /\ IntervalTypeOK /\ ListInv /\ AddInvB /\ library = "B" /\ call = "add" /\ start <= end
      /\ pos' = pos /\ list' = list /\ members' = members /\ new' = new
      /\ library' = library /\ call' = call /\ start' = start /\ end' = end
      /\ pos = Len(list) + 1 /\ Len(list) \in Nat
  BY LenProperties DEF OrderB, LoopDone, CallInv, IntervalTypeOK
<1>1. /\ skipped \in Seq(Intervals) /\ AreRuns(skipped)
      /\ merged \in Seq(Intervals) /\ AreRuns(merged)
      /\ result \in Seq(Intervals) /\ AreRuns(result)
      /\ Before(result, skipped) /\ Before(result, merged) /\ Before(skipped, merged)
  BY <1>0 DEF IntervalTypeOK, AddInvB
<1>2. Behind(skipped)' /\ Behind(merged)' /\ Behind(result)'
  <2>1. \A i : ~ (i \in pos' .. Len(list'))
    BY <1>0
  <2> QED BY <2>1 DEF Behind
<1>3. ASSUME NEW l \in Seq(Intervals), NEW h, NEW t, AreRuns(l), l # << >>, Before(result, l),
             h = Head(l), t = Tail(l), result' = Append(result, h)
      PROVE  /\ h \in Intervals /\ t \in Seq(Intervals) /\ AreRuns(t)
             /\ ToSet(l) = {h} \cup ToSet(t)
             /\ result' \in Seq(Intervals) /\ AreRuns(result')
             /\ ToSet(result') = ToSet(result) \cup {h} /\ Before(result', t)
  <2>1. h \in Intervals /\ t \in Seq(Intervals) /\ ToSet(l) = {h} \cup ToSet(t)
    BY <1>3, HeadTailSet
  <2>2. AreRuns(t) /\ h[1] <= h[2] /\ \A jv \in ToSet(t) : h[2] + 1 < jv[1]
    BY <1>3, RunsTail
  <2>3. \A jv \in ToSet(result) : jv[2] + 1 < h[1]
    BY <1>3, <2>1 DEF Before
  <2>4. result' \in Seq(Intervals) /\ ToSet(result') = ToSet(result) \cup {h}
    BY <1>1, <1>3, <2>1, AppendSet
  <2>5. AreRuns(result')
    BY <1>1, <1>3, <2>1, <2>2, <2>3, RunsAppended
  <2>6. Before(result', t)
    BY <1>3, <2>1, <2>2, <2>4 DEF Before
  <2> QED BY <2>1, <2>2, <2>4, <2>5, <2>6
<1>4. CASE /\ skipped # << >> /\ result' = Append(result, Head(skipped)) /\ skipped' = Tail(skipped)
           /\ merged' = merged
  <2> DEFINE h == Head(skipped)
  <2>1. /\ h \in Intervals /\ skipped' \in Seq(Intervals) /\ AreRuns(skipped')
        /\ ToSet(skipped) = {h} \cup ToSet(skipped')
        /\ result' \in Seq(Intervals) /\ AreRuns(result')
        /\ ToSet(result') = ToSet(result) \cup {h} /\ Before(result', skipped')
    BY <1>1, <1>3, <1>4
  <2> HIDE DEF h
  <2>2. Before(result', merged) /\ Before(skipped', merged)
    BY <1>1, <2>1 DEF Before
  <2>3. /\ \A iv \in ToSet(skipped') : iv[2] + 1 < new[1]
        /\ \A iv \in ToSet(result') : iv[2] + 1 < new[1] \/ new[2] + 1 < iv[1]
    BY <1>0, <2>1 DEF AddInvB
  <2>4. ToSet(skipped) \cup ToSet(merged) \cup ToSet(result)
        = ToSet(skipped') \cup ToSet(merged') \cup ToSet(result')
    BY <1>4, <2>1
  <2>5. \A x : Passed(x)' <=> Passed(x)
    BY <1>0 DEF Passed
  <2>6. AddInvB'
    BY <1>0, <1>1, <1>2, <1>4, <2>1, <2>2, <2>3, <2>4, <2>5 DEF AddInvB
  <2>7. IntervalTypeOK' /\ ListInv' /\ CallInv'
    BY <1>0, <1>4, <2>1 DEF IntervalTypeOK, ListInv, AreRuns, Covers, CallInv
  <2> QED BY <1>0, <2>6, <2>7
<1>5. CASE /\ skipped = << >> /\ merged # << >>
           /\ result' = Append(result, Head(merged)) /\ merged' = Tail(merged) /\ skipped' = skipped
  <2> DEFINE h == Head(merged)
  <2>1. /\ h \in Intervals /\ merged' \in Seq(Intervals) /\ AreRuns(merged')
        /\ ToSet(merged) = {h} \cup ToSet(merged')
        /\ result' \in Seq(Intervals) /\ AreRuns(result')
        /\ ToSet(result') = ToSet(result) \cup {h} /\ Before(result', merged')
    <3>1. /\ merged \in Seq(Intervals) /\ AreRuns(merged) /\ merged # << >>
          /\ Before(result, merged)
          /\ h = Head(merged) /\ merged' = Tail(merged) /\ result' = Append(result, h)
      BY <1>1, <1>5
    <3> HIDE DEF h
    <3> QED BY <3>1, <1>3
  <2> HIDE DEF h
  <2>2. Before(result', skipped') /\ Before(skipped', merged') /\ ToSet(skipped') = {}
    BY <1>5, OneRun DEF Before
  <2>3. /\ \A iv \in ToSet(merged') : new[2] + 1 < iv[1]
        /\ \A iv \in ToSet(result') : iv[2] + 1 < new[1] \/ new[2] + 1 < iv[1]
    BY <1>0, <2>1 DEF AddInvB
  <2>4. ToSet(skipped) \cup ToSet(merged) \cup ToSet(result)
        = ToSet(skipped') \cup ToSet(merged') \cup ToSet(result')
    BY <1>5, <2>1
  <2>5. \A x : Passed(x)' <=> Passed(x)
    BY <1>0 DEF Passed
  <2>6. AddInvB'
    BY <1>0, <1>1, <1>2, <1>5, <2>1, <2>2, <2>3, <2>4, <2>5 DEF AddInvB
  <2>7. IntervalTypeOK' /\ ListInv' /\ CallInv'
    BY <1>0, <1>1, <1>5, <2>1 DEF IntervalTypeOK, ListInv, AreRuns, Covers, CallInv
  <2> QED BY <1>0, <2>6, <2>7
<1>6. skipped # << >> /\ merged # << >> => NotAfter(Head(skipped), Head(merged))
  <2> SUFFICES ASSUME skipped # << >>, merged # << >>
               PROVE  NotAfter(Head(skipped), Head(merged))
    OBVIOUS
  <2>1. /\ Head(skipped) \in Intervals /\ Head(skipped) \in ToSet(skipped)
        /\ Head(merged) \in Intervals /\ Head(merged) \in ToSet(merged)
    BY <1>1, HeadTailSet
  <2>2. Head(skipped)[1] <= Head(skipped)[2] /\ Head(skipped)[2] + 1 < Head(merged)[1]
    BY <1>1, <2>1, RunsTail DEF Before
  <2> QED BY <2>1, <2>2 DEF NotAfter, Intervals
<1> QED
  BY <1>4, <1>5, <1>6 DEF OrderB

(***************************************************************************)
(* Covered by a list, and by one of its elements, are the same.            *)
(***************************************************************************)
LEMMA CoversAmong ==
  ASSUME NEW l \in Seq(Intervals), NEW x PROVE Covers(l, x) <=> Among(ToSet(l), x)
BY ElementsAt DEF Covers, Among, Within

(***************************************************************************)
(* A call begins: no interval is passed, and the new one is the call's     *)
(* own.                                                                    *)
(***************************************************************************)
LEMMA CallBegins ==
  ASSUME IntervalInv, NEW s \in Points, NEW e \in Points, AddRange(s, e) \/ RemoveRange(s, e)
  PROVE  IntervalInv'
<1> USE DEF IntervalInv
<1>0. /\ IntervalTypeOK /\ ListInv /\ call = "none" /\ s \in Int /\ e \in Int /\ s <= e
      /\ pos = 1 /\ skipped = << >> /\ merged = << >> /\ result = << >>
      /\ call' \in {"add", "remove"} /\ start' = s /\ end' = e /\ new' = << s, e >>
      /\ library' = library /\ list' = list /\ members' = members /\ pos' = 1
      /\ skipped' = << >> /\ merged' = << >> /\ result' = << >>
  BY PointsAssumption DEF AddRange, RemoveRange, Called, CallInv
<1>1. IntervalTypeOK' /\ ListInv' /\ CallInv'
  <2>1. << s, e >> \in Intervals
    BY <1>0 DEF Intervals
  <2> QED BY <1>0, <2>1 DEF IntervalTypeOK, ListInv, AreRuns, Covers, CallInv
<1>2. /\ AreRuns(<< >>) /\ Before(<< >>, << >>) /\ ToSet(<< >>) = {}
      /\ \A x : ~ Among({}, x)
  BY OneRun DEF Before, Among
<1>3. Behind(<< >>)'
  BY <1>2 DEF Behind
<1>4. \A x : ~ Passed(x)'
  <2>1. \A i : ~ (i \in 1 .. pos' - 1)
    BY <1>0
  <2> QED BY <2>1 DEF Passed
<1>5. new'[1] = s /\ new'[2] = e
  BY <1>0
<1>6. RemoveInv'
  BY <1>0, <1>2, <1>3, <1>4 DEF RemoveInv, Behind
<1>7. \A x : Within(new', x) <=> start' <= x /\ x <= end'
  BY <1>0, <1>5 DEF Within
<1>8. AddInvA'
  <2>1. (skipped = << >> /\ merged = << >> /\ AreRuns(result) /\ Behind(result))'
    BY <1>0, <1>2, <1>3
  <2>2. (new[1] <= start /\ end <= new[2] /\ new[1] = start /\ new[2] = end)'
    BY <1>0, <1>5
  <2>3. \A iv \in ToSet(result') : FALSE
    BY <1>0, <1>2
  <2>4. \A x : ~ Among(ToSet(result'), x)
    BY <1>0, <1>2
  <2>5. (\A x \in Int : Among(ToSet(result), x) \/ Within(new, x)
                       <=> Passed(x) \/ (start <= x /\ x <= end))'
    BY <1>4, <1>7, <2>4
  <2> QED BY <2>1, <2>2, <2>3, <2>5 DEF AddInvA
<1>9. AddInvB'
  BY <1>0, <1>2, <1>3, <1>4, <1>5, <1>7 DEF AddInvB, Behind
<1> QED
  BY <1>0, <1>1, <1>6, <1>8, <1>9

(***************************************************************************)
(* A call that returns a list of runs, with the members the list covers,   *)
(* leaves both as they should be.                                          *)
(***************************************************************************)
LEMMA ReturnKeeps ==
  ASSUME IntervalInv, NEW l \in Seq(Intervals), NEW m, Returns(l, m), m \in SUBSET Int,
         AreRuns(l), \A x \in Int : x \in m <=> Among(ToSet(l), x)
  PROVE  IntervalInv'
<1> USE DEF IntervalInv
<1>1. /\ list' = l /\ members' = m /\ library' = library
      /\ call' = "none" /\ start' = 0 /\ end' = 0 /\ pos' = 1 /\ new' = << 0, 0 >>
      /\ skipped' = << >> /\ merged' = << >> /\ result' = << >>
  BY DEF Returns
<1>2. IntervalTypeOK'
  <2>1. << 0, 0 >> \in Intervals /\ 1 \in 1 .. Len(l) + 1
    BY LenProperties DEF Intervals
  <2> QED BY <1>1, <2>1 DEF IntervalTypeOK
<1>3. ListInv'
  BY <1>1, CoversAmong DEF ListInv
<1>4. CallInv'
  BY <1>1 DEF CallInv
<1> QED
  BY <1>1, <1>2, <1>3, <1>4

(***************************************************************************)
(* When the loop is done, the members are what it passed.                  *)
(***************************************************************************)
LEMMA AllPassed ==
  ASSUME IntervalTypeOK, ListInv, pos = Len(list) + 1
  PROVE  \A x \in Int : Passed(x) <=> x \in members
<1>1. Len(list) \in Nat /\ pos - 1 = Len(list)
  BY LenProperties DEF IntervalTypeOK
<1> QED
  BY <1>1 DEF Passed, ListInv, Covers

(***************************************************************************)
(* The end of add() in armA.                                               *)
(***************************************************************************)
LEMMA InsertAKeeps ==
  ASSUME IntervalInv, InsertA PROVE IntervalInv'
<1> USE DEF IntervalInv
<1> DEFINE I == {i \in 1 .. Len(result) : new[1] < result[i][1]}
           found == IF I # {} THEN Min(I) ELSE 0
<1>0. /\ IntervalTypeOK /\ ListInv /\ AddInvA /\ start <= end /\ pos = Len(list) + 1
      /\ Returns(Inserted(result, found), members \cup (start .. end))
  BY DEF InsertA, LoopDone, CallInv, SelectInSeq
<1>1. /\ new \in Intervals /\ new[1] \in Int /\ new[2] \in Int /\ new[1] <= new[2]
      /\ start \in Int /\ end \in Int
      /\ result \in Seq(Intervals) /\ AreRuns(result)
      /\ \A iv \in ToSet(result) : iv[2] + 1 < new[1] \/ new[2] + 1 < iv[1]
  BY <1>0 DEF IntervalTypeOK, Intervals, AddInvA
<1>2. ASSUME NEW i \in 1 .. Len(result) PROVE i \in I <=> new[2] + 1 < result[i][1]
  <2>1. /\ result[i] \in ToSet(result) /\ result[i][1] \in Int /\ result[i][2] \in Int
        /\ result[i][1] <= result[i][2]
    BY <1>1, ElementsAt, RunsElements
  <2>2. result[i][2] + 1 < new[1] \/ new[2] + 1 < result[i][1]
    BY <1>1, <2>1
  <2>3. new[1] \in Int /\ new[2] \in Int /\ new[1] <= new[2]
    BY <1>1
  <2> QED BY <2>1, <2>2, <2>3
<1> HIDE DEF I
<1>3. /\ Inserted(result, found) \in Seq(Intervals) /\ AreRuns(Inserted(result, found))
      /\ ToSet(Inserted(result, found)) = ToSet(result) \cup {new}
  <2>1. I \in SUBSET (1 .. Len(result))
    BY DEF I
  <2> QED BY <1>1, <1>2, <2>1, RunInserted
<1> HIDE DEF found
<1>4. \A x \in Int : x \in members \cup (start .. end) <=> Among(ToSet(Inserted(result, found)), x)
  <2> TAKE x \in Int
  <2>1. Among(ToSet(result), x) \/ Within(new, x) <=> Passed(x) \/ (start <= x /\ x <= end)
    BY <1>0 DEF AddInvA
  <2>2. Among(ToSet(Inserted(result, found)), x) <=> Among(ToSet(result), x) \/ Within(new, x)
    BY <1>3 DEF Among
  <2>3. Passed(x) <=> x \in members
    BY <1>0, AllPassed
  <2>4. x \in start .. end <=> start <= x /\ x <= end
    BY <1>1
  <2> QED BY <2>1, <2>2, <2>3, <2>4
<1>5. members \cup (start .. end) \in SUBSET Int
  BY <1>0, <1>1 DEF IntervalTypeOK
<1> QED
  BY <1>0, <1>3, <1>4, <1>5, ReturnKeeps

(***************************************************************************)
(* The end of add() in armB, which compares ends where armA compares       *)
(* starts.                                                                 *)
(***************************************************************************)
LEMMA InsertBKeeps ==
  ASSUME IntervalInv, InsertB PROVE IntervalInv'
<1> USE DEF IntervalInv
<1> DEFINE I == {i \in 1 .. Len(result) : new[1] <= result[i][2] + 1}
           found == IF I # {} THEN Min(I) ELSE 0
<1>0. /\ IntervalTypeOK /\ ListInv /\ AddInvB /\ start <= end /\ pos = Len(list) + 1
      /\ skipped = << >> /\ merged = << >>
      /\ Returns(Inserted(result, found), members \cup (start .. end))
  BY DEF InsertB, LoopDone, CallInv, SelectInSeq
<1>1. /\ new \in Intervals /\ new[1] \in Int /\ new[2] \in Int /\ new[1] <= new[2]
      /\ start \in Int /\ end \in Int
      /\ result \in Seq(Intervals) /\ AreRuns(result)
      /\ \A iv \in ToSet(result) : iv[2] + 1 < new[1] \/ new[2] + 1 < iv[1]
  BY <1>0 DEF IntervalTypeOK, Intervals, AddInvB
<1>2. ASSUME NEW i \in 1 .. Len(result) PROVE i \in I <=> new[2] + 1 < result[i][1]
  <2>1. /\ result[i] \in ToSet(result) /\ result[i][1] \in Int /\ result[i][2] \in Int
        /\ result[i][1] <= result[i][2]
    BY <1>1, ElementsAt, RunsElements
  <2>2. result[i][2] + 1 < new[1] \/ new[2] + 1 < result[i][1]
    BY <1>1, <2>1
  <2>3. new[1] \in Int /\ new[2] \in Int /\ new[1] <= new[2]
    BY <1>1
  <2> QED BY <2>1, <2>2, <2>3
<1> HIDE DEF I
<1>3. /\ Inserted(result, found) \in Seq(Intervals) /\ AreRuns(Inserted(result, found))
      /\ ToSet(Inserted(result, found)) = ToSet(result) \cup {new}
  <2>1. I \in SUBSET (1 .. Len(result))
    BY DEF I
  <2> QED BY <1>1, <1>2, <2>1, RunInserted
<1> HIDE DEF found
<1>4. \A x \in Int : x \in members \cup (start .. end) <=> Among(ToSet(Inserted(result, found)), x)
  <2> TAKE x \in Int
  <2>0. ToSet(skipped) \cup ToSet(merged) \cup ToSet(result) = ToSet(result)
    BY <1>0, OneRun
  <2>1. Among(ToSet(result), x) \/ Within(new, x) <=> Passed(x) \/ (start <= x /\ x <= end)
    BY <1>0, <2>0 DEF AddInvB
  <2>2. Among(ToSet(Inserted(result, found)), x) <=> Among(ToSet(result), x) \/ Within(new, x)
    BY <1>3 DEF Among
  <2>3. Passed(x) <=> x \in members
    BY <1>0, AllPassed
  <2>4. x \in start .. end <=> start <= x /\ x <= end
    BY <1>1
  <2> QED BY <2>1, <2>2, <2>3, <2>4
<1>5. members \cup (start .. end) \in SUBSET Int
  BY <1>0, <1>1 DEF IntervalTypeOK
<1> QED
  BY <1>0, <1>3, <1>4, <1>5, ReturnKeeps

(***************************************************************************)
(* The end of remove().                                                    *)
(***************************************************************************)
LEMMA RemovedKeeps ==
  ASSUME IntervalInv, Removed PROVE IntervalInv'
<1> USE DEF IntervalInv
<1>0. /\ IntervalTypeOK /\ ListInv /\ RemoveInv /\ pos = Len(list) + 1
      /\ Returns(result, members \ (start .. end))
      /\ result \in Seq(Intervals) /\ AreRuns(result) /\ start \in Int /\ end \in Int
  BY DEF Removed, LoopDone, RemoveInv, IntervalTypeOK
<1>1. \A x \in Int : x \in members \ (start .. end) <=> Among(ToSet(result), x)
  <2> TAKE x \in Int
  <2>1. Passed(x) <=> x \in members
    BY <1>0, AllPassed
  <2>2. x \in start .. end <=> start <= x /\ x <= end
    BY <1>0
  <2>3. Among(ToSet(result), x) <=> Passed(x) /\ ~ (start <= x /\ x <= end)
    BY <1>0 DEF RemoveInv
  <2> QED BY <2>1, <2>2, <2>3
<1>2. members \ (start .. end) \in SUBSET Int
  BY <1>0 DEF IntervalTypeOK
<1> QED
  BY <1>0, <1>1, <1>2, ReturnKeeps

(***************************************************************************)
(* Both libraries leave the same of an interval that remove() meets: a     *)
(* list of runs inside it, covering what the call does not.                *)
(***************************************************************************)
LEMMA PiecesSame ==
  ASSUME NEW iv \in Intervals, iv[1] <= iv[2], start \in Int, end \in Int, start <= end
  PROVE  /\ PiecesA(iv) = PiecesB(iv)
         /\ PiecesB(iv) \in Seq(Intervals) /\ AreRuns(PiecesB(iv))
         /\ \A jv \in ToSet(PiecesB(iv)) : iv[1] <= jv[1] /\ jv[2] <= iv[2]
         /\ \A x \in Int : Among(ToSet(PiecesB(iv)), x)
                        <=> Within(iv, x) /\ ~ (start <= x /\ x <= end)
<1> DEFINE left == << iv[1], start - 1 >>
           right == << end + 1, iv[2] >>
<1>0. iv[1] \in Int /\ iv[2] \in Int
  BY DEF Intervals
<1>1. left \in Intervals /\ right \in Intervals
      /\ left[1] = iv[1] /\ left[2] = start - 1 /\ right[1] = end + 1 /\ right[2] = iv[2]
  BY <1>0 DEF Intervals
<1>2. /\ << left >> \o << >> = << left >> /\ << >> \o << right >> = << right >>
      /\ << >> \o << >> = << >>
  BY <1>1, OneRun, ConcatEmptySeq
<1>3. << left >> \in Seq(Intervals) /\ << right >> \in Seq(Intervals)
  BY <1>1, OneRun
<1>4. PiecesA(iv) = IF Apart(iv, start, end) THEN << iv >>
                    ELSE (IF iv[1] < start THEN << left >> ELSE << >>)
                         \o (IF iv[2] > end THEN << right >> ELSE << >>)
  BY DEF PiecesA
<1>5. PiecesB(iv) = CASE Apart(iv, start, end) -> << iv >>
                      [] iv[1] >= start /\ iv[2] <= end -> << >>
                      [] iv[1] < start /\ iv[2] \in start .. end -> << left >>
                      [] iv[1] \in start .. end /\ iv[2] > end -> << right >>
                      [] OTHER -> << left, right >>
  BY DEF PiecesB
<1>6. << left, right >> = << left >> \o << right >>
  OBVIOUS
<1>7. Apart(iv, start, end) <=> iv[2] < start \/ iv[1] > end
  BY DEF Apart
<1> HIDE DEF left, right
<1>8. CASE Apart(iv, start, end)
  <2>1. /\ ~ (iv[1] >= start /\ iv[2] <= end)
        /\ ~ (iv[1] < start /\ iv[2] \in start .. end)
        /\ ~ (iv[1] \in start .. end /\ iv[2] > end)
    BY <1>0, <1>8, <1>7
  <2>2. PiecesA(iv) = << iv >>
    BY <1>8, <1>4
  <2>3. PiecesB(iv) = << iv >>
    BY <1>8, <1>5, <2>1
  <2>4. \A x \in Int : Within(iv, x) => ~ (start <= x /\ x <= end)
    BY <1>0, <1>8, <1>7 DEF Within
  <2> QED BY <1>0, <2>2, <2>3, <2>4, OneRun DEF Among
<1>9. CASE iv[1] >= start /\ iv[2] <= end
  <2>1. /\ ~ Apart(iv, start, end) /\ ~ (iv[1] < start) /\ ~ (iv[2] > end)
    BY <1>0, <1>9, <1>7
  <2>2. PiecesA(iv) = << >>
    BY <1>2, <1>4, <2>1
  <2>3. PiecesB(iv) = << >>
    BY <1>9, <1>5, <2>1
  <2>4. \A x \in Int : Within(iv, x) => start <= x /\ x <= end
    BY <1>0, <1>9 DEF Within
  <2> QED BY <2>2, <2>3, <2>4, OneRun DEF Among
<1>10. CASE ~ Apart(iv, start, end) /\ iv[1] < start /\ iv[2] <= end
  <2>1. /\ ~ (iv[1] >= start /\ iv[2] <= end) /\ iv[2] \in start .. end
        /\ ~ (iv[2] > end) /\ start - 1 < iv[2] /\ iv[1] <= start - 1
    BY <1>0, <1>10, <1>7
  <2>2. PiecesA(iv) = << left >>
    BY <1>10, <1>2, <1>4, <2>1
  <2>3. PiecesB(iv) = << left >>
    BY <1>10, <1>5, <2>1
  <2>4. \A x \in Int : Within(left, x) <=> Within(iv, x) /\ ~ (start <= x /\ x <= end)
    BY <1>0, <1>1, <2>1 DEF Within
  <2>5. iv[1] <= left[1] /\ left[2] <= iv[2] /\ left[1] <= left[2]
    BY <1>0, <1>1, <2>1
  <2> QED BY <1>1, <2>2, <2>3, <2>4, <2>5, OneRun DEF Among
<1>11. CASE ~ Apart(iv, start, end) /\ iv[1] >= start /\ iv[2] > end
  <2>1. /\ ~ (iv[1] >= start /\ iv[2] <= end) /\ iv[1] \in start .. end
        /\ ~ (iv[1] < start) /\ iv[1] < end + 1 /\ end + 1 <= iv[2]
    BY <1>0, <1>11, <1>7
  <2>2. PiecesA(iv) = << right >>
    BY <1>11, <1>2, <1>4, <2>1
  <2>3. PiecesB(iv) = << right >>
    BY <1>11, <1>5, <2>1
  <2>4. \A x \in Int : Within(right, x) <=> Within(iv, x) /\ ~ (start <= x /\ x <= end)
    BY <1>0, <1>1, <2>1 DEF Within
  <2>5. iv[1] <= right[1] /\ right[2] <= iv[2] /\ right[1] <= right[2]
    BY <1>0, <1>1, <2>1
  <2> QED BY <1>1, <2>2, <2>3, <2>4, <2>5, OneRun DEF Among
<1>12. CASE iv[1] < start /\ iv[2] > end
  <2>1. /\ ~ Apart(iv, start, end) /\ ~ (iv[1] >= start) /\ ~ (iv[1] \in start .. end)
        /\ ~ (iv[2] \in start .. end) /\ iv[1] <= start - 1 /\ start - 1 <= iv[2]
        /\ iv[1] <= end + 1 /\ end + 1 <= iv[2] /\ start - 1 + 1 < end + 1
    BY <1>0, <1>12, <1>7
  <2> DEFINE one == << left >>
             other == << right >>
             both == one \o other
  <2>2. PiecesA(iv) = both
    BY <1>12, <1>4, <2>1
  <2>3. PiecesB(iv) = both
    BY <1>5, <1>6, <2>1
  <2>4. /\ one \in Seq(Intervals) /\ ToSet(one) = {left} /\ AreRuns(one)
        /\ other \in Seq(Intervals) /\ ToSet(other) = {right} /\ AreRuns(other)
    BY <1>1, <2>1, OneRun
  <2> HIDE DEF one, other
  <2>5. both \in Seq(Intervals) /\ ToSet(both) = {left, right}
    BY <2>4, ConcatSet
  <2>6. AreRuns(both)
    <3>1. left[2] + 1 < right[1]
      BY <1>1, <2>1
    <3>2. Before(one, other)
      BY <2>4, <3>1 DEF Before
    <3> QED BY <2>4, <3>2, RunsJoined
  <2> HIDE DEF both
  <2>7. \A jv \in ToSet(both) : iv[1] <= jv[1] /\ jv[2] <= iv[2]
    BY <1>0, <1>1, <2>1, <2>5
  <2>8. \A x \in Int : Within(left, x) \/ Within(right, x)
                       <=> Within(iv, x) /\ ~ (start <= x /\ x <= end)
    BY <1>0, <1>1, <2>1 DEF Within
  <2> QED BY <2>2, <2>3, <2>5, <2>6, <2>7, <2>8 DEF Among
<1> QED
  BY <1>0, <1>7, <1>8, <1>9, <1>10, <1>11, <1>12

(***************************************************************************)
(* A turn of the loop of remove(), of either library.                      *)
(***************************************************************************)
LEMMA CutKeeps ==
  ASSUME IntervalInv, CutA \/ CutB PROVE IntervalInv'
<1> DEFINE iv == list[pos]
           pieces == PiecesB(iv)
<1> USE DEF IntervalInv
<1>0. /\ IntervalTypeOK /\ ListInv /\ RemoveInv /\ call = "remove" /\ start <= end
      /\ pos <= Len(list) /\ pos' = pos + 1 /\ list' = list /\ members' = members
      /\ library' = library /\ call' = call /\ start' = start /\ end' = end
      /\ skipped' = skipped /\ merged' = merged /\ new' = new
      /\ result' = result \o PiecesA(iv) \/ result' = result \o PiecesB(iv)
  BY DEF CutA, CutB, Cut, InLoop, CallInv
<1>1. /\ pos \in 1 .. Len(list) /\ pos' \in 1 .. Len(list) + 1
      /\ iv \in Intervals /\ iv[1] \in Int /\ iv[2] \in Int
      /\ iv[1] <= iv[2]
      /\ \A x : Passed(x)' <=> Passed(x) \/ Within(iv, x)
      /\ \A i \in pos' .. Len(list) : /\ i \in pos .. Len(list) /\ list[i][1] \in Int
                                      /\ iv[2] + 1 < list[i][1]
  BY <1>0, NextInterval
<1>2. /\ start \in Int /\ end \in Int
      /\ result \in Seq(Intervals) /\ AreRuns(result) /\ Behind(result)
  BY <1>0 DEF IntervalTypeOK, RemoveInv
<1>3. \A rv \in ToSet(result) : rv[1] \in Int /\ rv[2] \in Int /\ rv[2] + 1 < iv[1]
  BY <1>1, <1>2, RunsElements DEF Behind
<1> HIDE DEF iv
<1>4. /\ result' = result \o pieces
      /\ pieces \in Seq(Intervals) /\ AreRuns(pieces)
      /\ \A jv \in ToSet(pieces) : iv[1] <= jv[1] /\ jv[2] <= iv[2]
      /\ \A x \in Int : Among(ToSet(pieces), x) <=> Within(iv, x) /\ ~ (start <= x /\ x <= end)
  BY <1>0, <1>1, <1>2, PiecesSame
<1> HIDE DEF pieces
<1>5. \A jv \in ToSet(pieces) : jv[1] \in Int /\ jv[2] \in Int
  BY <1>4, RunsElements
<1>6. Before(result, pieces)
  <2>1. iv[1] \in Int
    BY <1>1
  <2> QED BY <1>3, <1>4, <1>5, <2>1 DEF Before
<1>7. /\ result' \in Seq(Intervals) /\ AreRuns(result')
      /\ ToSet(result') = ToSet(result) \cup ToSet(pieces)
  BY <1>2, <1>4, <1>6, RunsJoined, ConcatSet
<1>8. Behind(result)'
  <2> SUFFICES ASSUME NEW jv \in ToSet(result'), NEW i \in pos' .. Len(list)
               PROVE  jv[2] + 1 < list[i][1]
    BY <1>0 DEF Behind
  <2>1. CASE jv \in ToSet(result)
    BY <1>1, <1>2, <2>1 DEF Behind
  <2>2. CASE jv \in ToSet(pieces)
    <3>1. /\ jv[2] \in Int /\ jv[2] <= iv[2] /\ iv[2] \in Int
          /\ iv[2] + 1 < list[i][1] /\ list[i][1] \in Int
      BY <1>1, <1>4, <1>5, <2>2
    <3> QED BY <3>1
  <2> QED BY <1>7, <2>1, <2>2
<1>9. \A x \in Int : Among(ToSet(result'), x) <=> Passed(x)' /\ ~ (start <= x /\ x <= end)
  <2> TAKE x \in Int
  <2>1. Among(ToSet(result'), x) <=> Among(ToSet(result), x) \/ Among(ToSet(pieces), x)
    BY <1>7 DEF Among
  <2>2. Passed(x)' <=> Passed(x) \/ Within(iv, x)
    BY <1>1
  <2>3. Among(ToSet(result), x) <=> Passed(x) /\ ~ (start <= x /\ x <= end)
    BY <1>0 DEF RemoveInv
  <2>4. Among(ToSet(pieces), x) <=> Within(iv, x) /\ ~ (start <= x /\ x <= end)
    BY <1>4
  <2> QED BY <2>1, <2>2, <2>3, <2>4
<1>10. RemoveInv'
  BY <1>0, <1>7, <1>8, <1>9 DEF RemoveInv
<1>11. IntervalTypeOK' /\ ListInv' /\ CallInv'
  BY <1>0, <1>1, <1>2, <1>7 DEF IntervalTypeOK, ListInv, AreRuns, Covers, CallInv
<1> QED
  BY <1>0, <1>10, <1>11

(***************************************************************************)
(* Between calls the list of either library is the runs of the members;    *)
(* inside a call, what the loop has built covers what it passed, with what *)
(* the call adds or without what it removes.                               *)
(***************************************************************************)
THEOREM IntervalInvariant == IntervalSpec => []IntervalInv
<1>1. IntervalInit => IntervalInv
  <2> SUFFICES ASSUME IntervalInit PROVE IntervalInv
    OBVIOUS
  <2>1. << 0, 0 >> \in Intervals /\ << >> \in Seq(Intervals) /\ Len(<< >>) = 0 /\ 1 \in 1 .. 0 + 1
    BY DEF Intervals
  <2>2. IntervalTypeOK
    BY <2>1 DEF IntervalInit, IntervalTypeOK
  <2>3. ListInv
    BY <2>1, OneRun DEF IntervalInit, ListInv, Covers
  <2> QED BY <2>2, <2>3 DEF IntervalInit, IntervalInv, CallInv
<1>2. IntervalInv /\ [IntervalNext]_intervalVars => IntervalInv'
  <2> SUFFICES ASSUME IntervalInv, [IntervalNext]_intervalVars PROVE IntervalInv'
    OBVIOUS
  <2>1. CASE \E s, e \in Points : AddRange(s, e) \/ RemoveRange(s, e)
    BY <2>1, CallBegins
  <2>2. CASE ScanA
    BY <2>2, ScanAKeeps
  <2>3. CASE InsertA
    BY <2>3, InsertAKeeps
  <2>4. CASE CutA \/ CutB
    BY <2>4, CutKeeps
  <2>5. CASE ScanB
    BY <2>5, ScanBKeeps
  <2>6. CASE OrderB
    BY <2>6, OrderBKeeps
  <2>7. CASE InsertB
    BY <2>7, InsertBKeeps
  <2>8. CASE Removed
    BY <2>8, RemovedKeeps
  <2>9. CASE UNCHANGED intervalVars
    BY <2>9 DEF intervalVars, IntervalInv, IntervalTypeOK, ListInv, CallInv, RemoveInv,
       AddInvA, AddInvB, AreRuns, Covers, Behind, Before, Passed, Among, Within
  <2> QED BY <2>1, <2>2, <2>3, <2>4, <2>5, <2>6, <2>7, <2>8, <2>9 DEF IntervalNext
<1> QED
  BY <1>1, <1>2, PTL DEF IntervalSpec

(***************************************************************************)
(* The invariant gives the lists as they should be, and contains(): the    *)
(* scan stops at the first interval that ends at or after the point, and   *)
(* the point is a member exactly when that interval does not begin after   *)
(* it.                                                                     *)
(***************************************************************************)
LEMMA InvIsRuns == ASSUME IntervalInv PROVE ListsAreTheRuns
<1>1. list \in Seq(Intervals) /\ members \in SUBSET Int /\ library \in {"A", "B"}
      /\ AreRuns(list) /\ \A x \in Int : x \in members <=> Covers(list, x)
  BY DEF IntervalInv, IntervalTypeOK, ListInv
<1>2. Len(list) \in Nat /\ \A i \in 1 .. Len(list) : list[i][1] \in Int /\ list[i][2] \in Int
  BY <1>1, ElementsAt DEF Intervals
<1>3. members = UNION {list[i][1] .. list[i][2] : i \in 1 .. Len(list)}
  <2>1. ASSUME NEW x \in members PROVE x \in UNION {list[i][1] .. list[i][2] : i \in 1 .. Len(list)}
    <3>1. x \in Int /\ Covers(list, x)
      BY <1>1
    <3>2. PICK i \in 1 .. Len(list) : list[i][1] <= x /\ x <= list[i][2]
      BY <3>1 DEF Covers
    <3> QED BY <1>2, <3>1, <3>2
  <2>2. ASSUME NEW x \in UNION {list[i][1] .. list[i][2] : i \in 1 .. Len(list)} PROVE x \in members
    <3>1. PICK i \in 1 .. Len(list) : x \in list[i][1] .. list[i][2]
      OBVIOUS
    <3>2. x \in Int /\ list[i][1] <= x /\ x <= list[i][2]
      BY <1>2, <3>1
    <3> QED BY <1>1, <3>2 DEF Covers
  <2> QED BY <2>1, <2>2
<1>4. ASSUME NEW point \in Int, NEW I,
             \/ I = {i \in 1 .. Len(list) :
                        (list[i][1] <= point /\ point <= list[i][2]) \/ list[i][1] > point}
             \/ I = {i \in 1 .. Len(list) : list[i][1] > point \/ list[i][2] >= point},
             NEW found, found = IF I # {} THEN Min(I) ELSE 0
      PROVE  Covers(list, point) <=> found # 0 /\ list[found][1] <= point
  <2>1. I \in SUBSET (1 .. Len(list))
    BY <1>4
  <2>2. \A i \in 1 .. Len(list) : list[i][1] <= point /\ point <= list[i][2] => i \in I
    BY <1>2, <1>4
  <2>3. \A i \in I : list[i][1] <= point => point <= list[i][2]
    BY <1>2, <1>4
  <2>4. CASE I = {}
    <3>1. found = 0
      BY <1>4, <2>4
    <3>2. ~ Covers(list, point)
      BY <2>2, <2>4 DEF Covers
    <3> QED BY <3>1, <3>2
  <2>5. CASE I # {}
    <3>1. found \in I /\ \A i \in I : found <= i
      BY <1>2, <1>4, <2>1, <2>5, FirstIndex
    <3>2. found \in 1 .. Len(list) /\ found # 0
      <4>1. found \in 1 .. Len(list) /\ Len(list) \in Nat
        BY <1>2, <2>1, <3>1
      <4> QED BY <4>1
    <3>3. list[found][1] <= point => Covers(list, point)
      BY <2>3, <3>1, <3>2 DEF Covers
    <3>4. ASSUME Covers(list, point) PROVE list[found][1] <= point
      <4>1. PICK i \in 1 .. Len(list) : list[i][1] <= point /\ point <= list[i][2]
        BY <3>4 DEF Covers
      <4>2. i = found \/ found < i
        BY <2>2, <3>1, <3>2, <4>1
      <4>3. found < i => list[found][1] <= list[found][2] /\ list[found][2] + 1 < list[i][1]
        BY <1>1, <3>2, <4>1 DEF AreRuns
      <4>4. /\ list[found][1] \in Int /\ list[found][2] \in Int
            /\ list[i][1] \in Int /\ list[i][1] <= point
        BY <1>2, <3>2, <4>1
      <4> QED BY <4>2, <4>3, <4>4
    <3> QED BY <3>2, <3>3, <3>4
  <2> QED BY <2>4, <2>5
<1>5. ASSUME NEW point \in Points PROVE ContainsA(point) <=> point \in members
  <2> DEFINE I == {i \in 1 .. Len(list) :
                   (list[i][1] <= point /\ point <= list[i][2]) \/ list[i][1] > point}
             found == IF I # {} THEN Min(I) ELSE 0
  <2>1. ContainsA(point) <=> found # 0 /\ list[found][1] <= point
    BY DEF ContainsA, SelectInSeq
  <2>2. Covers(list, point) <=> found # 0 /\ list[found][1] <= point
    BY <1>4, PointsAssumption
  <2> QED BY <1>1, <2>1, <2>2, PointsAssumption
<1>6. ASSUME NEW point \in Points PROVE ContainsB(point) <=> point \in members
  <2> DEFINE I == {i \in 1 .. Len(list) : list[i][1] > point \/ list[i][2] >= point}
             found == IF I # {} THEN Min(I) ELSE 0
  <2>1. ContainsB(point) <=> found # 0 /\ ~ (list[found][1] > point)
    BY DEF ContainsB, SelectInSeq
  <2>2. Covers(list, point) <=> found # 0 /\ list[found][1] <= point
    BY <1>4, PointsAssumption
  <2>3. found # 0 => list[found][1] \in Int
    <3>1. I # {} => Min(I) \in I
      BY <1>2, FirstIndex
    <3> QED BY <1>2, <3>1
  <2> QED BY <1>1, <2>1, <2>2, <2>3, PointsAssumption
<1> QED
  BY <1>1, <1>3, <1>5, <1>6 DEF ListsAreTheRuns

(***************************************************************************)
(* After any calls of add() and remove(), over any integers, the list of   *)
(* either library is that of the runs of its members, and contains()       *)
(* answers for the members.                                                *)
(***************************************************************************)
THEOREM AlwaysTheRuns == IntervalSpec => []ListsAreTheRuns
BY IntervalInvariant, InvIsRuns, PTL

\* The list holds precisely the maximal intervals of the members.
ListIsMaximal ==
    \A iv \in Intervals : iv \in ToSet(list) <=>
        /\ iv[1] <= iv[2] /\ (iv[1] .. iv[2]) \subseteq members
        /\ iv[1] - 1 \notin members /\ iv[2] + 1 \notin members

(***************************************************************************)
(* What a list of runs with the right cover holds: precisely the maximal   *)
(* intervals of members, since a longer one would meet the gap around a    *)
(* run.                                                                    *)
(***************************************************************************)
LEMMA InvIsMaximal == ASSUME IntervalInv PROVE ListIsMaximal
<1>1. list \in Seq(Intervals) /\ members \in SUBSET Int
      /\ AreRuns(list) /\ \A x \in Int : x \in members <=> Covers(list, x)
  BY DEF IntervalInv, IntervalTypeOK, ListInv
<1>2. Len(list) \in Nat /\ \A i \in 1 .. Len(list) : list[i][1] \in Int /\ list[i][2] \in Int
                                                    /\ list[i] \in ToSet(list)
  BY <1>1, ElementsAt DEF Intervals
<1>3. ASSUME NEW i \in 1 .. Len(list)
      PROVE  /\ list[i][1] <= list[i][2] /\ (list[i][1] .. list[i][2]) \subseteq members
             /\ list[i][1] - 1 \notin members /\ list[i][2] + 1 \notin members
  <2>1. list[i][1] <= list[i][2]
    BY <1>1 DEF AreRuns
  <2>2. (list[i][1] .. list[i][2]) \subseteq members
    BY <1>1, <1>2 DEF Covers
  <2>3. ASSUME NEW x \in Int, x = list[i][1] - 1 \/ x = list[i][2] + 1 PROVE ~ Covers(list, x)
    <3> SUFFICES ASSUME NEW j \in 1 .. Len(list), list[j][1] <= x, x <= list[j][2] PROVE FALSE
      BY DEF Covers
    <3>1. list[i][1] \in Int /\ list[i][2] \in Int /\ list[j][1] \in Int /\ list[j][2] \in Int
      BY <1>2
    <3>2. list[j][1] <= list[j][2]
      BY <1>1 DEF AreRuns
    <3>3. i < j => list[i][2] + 1 < list[j][1]
      BY <1>1 DEF AreRuns
    <3>4. j < i => list[j][2] + 1 < list[i][1]
      BY <1>1 DEF AreRuns
    <3>5. i # j
      BY <2>1, <2>3, <3>1
    <3> QED BY <2>1, <2>3, <3>1, <3>2, <3>3, <3>4, <3>5
  <2>4. list[i][1] - 1 \in Int /\ list[i][2] + 1 \in Int
    BY <1>2
  <2> QED BY <1>1, <2>1, <2>2, <2>3, <2>4
<1> SUFFICES ASSUME NEW iv \in Intervals
             PROVE  iv \in ToSet(list) <=>
                        /\ iv[1] <= iv[2] /\ (iv[1] .. iv[2]) \subseteq members
                        /\ iv[1] - 1 \notin members /\ iv[2] + 1 \notin members
  BY DEF ListIsMaximal
<1>4. iv[1] \in Int /\ iv[2] \in Int
  BY DEF Intervals
<1>5. ASSUME /\ iv[1] <= iv[2] /\ (iv[1] .. iv[2]) \subseteq members
             /\ iv[1] - 1 \notin members /\ iv[2] + 1 \notin members
      PROVE  iv \in ToSet(list)
  <2>1. iv[1] \in members
    BY <1>4, <1>5
  <2>2. PICK i \in 1 .. Len(list) : list[i][1] <= iv[1] /\ iv[1] <= list[i][2]
    BY <1>1, <1>4, <2>1 DEF Covers
  <2> DEFINE a == list[i][1]
             b == list[i][2]
  <2>3. /\ a \in Int /\ b \in Int /\ a <= iv[1] /\ iv[1] <= b
        /\ \A x \in Int : a <= x /\ x <= b => x \in members
        /\ b + 1 \notin members
    BY <1>2, <1>3, <2>2
  <2>4. list[i] = << a, b >>
    BY <1>1, ElementOfSeq DEF Intervals
  <2> HIDE DEF a, b
  <2>5. iv[1] - 1 \in Int /\ iv[2] + 1 \in Int /\ b + 1 \in Int
    BY <1>4, <2>3
  <2>6. ~ (a < iv[1])
    BY <1>4, <1>5, <2>3, <2>5
  <2>7. ~ (iv[2] < b)
    BY <1>4, <1>5, <2>3, <2>5
  <2>8. ~ (b < iv[2])
    <3>1. b + 1 \notin iv[1] .. iv[2]
      BY <1>5, <2>3
    <3> QED BY <1>4, <2>3, <2>5, <3>1
  <2>9. a = iv[1] /\ b = iv[2]
    BY <1>4, <2>3, <2>6, <2>7, <2>8
  <2>10. list[i] = iv
    BY <2>4, <2>9 DEF Intervals
  <2> QED BY <1>2, <2>10
<1> QED
  BY <1>1, <1>3, <1>5, ElementsAt

(***************************************************************************)
(* At every moment, the intervals an interval set holds are the maximal    *)
(* intervals of integers that were added and not removed since: so there   *)
(* are as few of them as there can be, and armA and armB, told the same,   *)
(* hold the same.                                                          *)
(***************************************************************************)
THEOREM AlwaysMaximal == IntervalSpec => []ListIsMaximal
BY IntervalInvariant, InvIsMaximal, PTL
=============================================================================
