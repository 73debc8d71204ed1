---------------------------- MODULE SessionLoop ----------------------------
(***************************************************************************)
(* solo_loop.sh: sessions of a coding agent one after the other, a commit  *)
(* after each, until one declares <DONE>, the number of sessions or the    *)
(* deadline is reached.  sonnet_solo_loop.sh is the same loop without the  *)
(* pkill.  The agent is external.                                          *)
(***************************************************************************)
EXTENDS Integers, Sequences

CONSTANTS MAX_SESSIONS, Cap, MaxHour, MaxLaunches

ASSUME MaxSessionsAssumption == MAX_SESSIONS \in Nat

VARIABLES
    session, at,              \* session number, and the loop's next step
    hour, deadline,
    log,                      \* does session i's log hold <DONE>?
    commits,                  \* << launch, session >> of every snapshot
    launch,                   \* how often the loop was started
    ended, declared           \* sessions of this launch that ended, and that declared <DONE>

loopVars == << session, at, hour, deadline, log, commits, launch, ended, declared >>

LoopInit ==
    /\ session = 1 /\ at = "check" /\ hour = 0 /\ deadline = Cap
    /\ log = [s \in 1 .. MAX_SESSIONS |-> FALSE]
    /\ commits = << >> /\ launch = 1 /\ ended = {} /\ declared = {}

Finished == at \in {"sessions", "cap", "done", "killed"}

\* The slip of a mutation: >> session_$i.log.
CheckAppending ==
    /\ at = "check"
    /\ at' = IF session > MAX_SESSIONS THEN "sessions" ELSE IF hour >= deadline THEN "cap" ELSE "session"
    /\ UNCHANGED << session, hour, deadline, log, commits, launch, ended, declared >>

\* The while's condition, the cap, then `> session_$i.log`.
Check ==
    /\ at = "check"
    /\ at' = IF session > MAX_SESSIONS THEN "sessions" ELSE IF hour >= deadline THEN "cap" ELSE "session"
    /\ log' = IF at' = "session" THEN [log EXCEPT ![session] = FALSE] ELSE log
    /\ UNCHANGED << session, hour, deadline, commits, launch, ended, declared >>

\* The agent ends its session, declaring <DONE> or not.
SessionEnds(done) ==
    /\ at = "session"
    /\ at' = "commit" /\ ended' = ended \cup {session}
    /\ log' = [log EXCEPT ![session] = @ \/ done]
    /\ declared' = IF done THEN declared \cup {session} ELSE declared
    /\ UNCHANGED << session, hour, deadline, commits, launch >>

Commit ==
    /\ at = "commit"
    /\ commits' = Append(commits, << launch, session >>) /\ at' = "grep"
    /\ UNCHANGED << session, hour, deadline, log, launch, ended, declared >>

Grep ==
    /\ at = "grep"
    /\ IF log[session] THEN at' = "done" /\ session' = session ELSE at' = "check" /\ session' = session + 1
    /\ UNCHANGED << hour, deadline, log, commits, launch, ended, declared >>

\* The operator kills the loop, and starts it again on the same logs.
KillLoop ==
    /\ ~ Finished /\ at' = "killed"
    /\ UNCHANGED << session, hour, deadline, log, commits, launch, ended, declared >>

Launch ==
    /\ Finished /\ at # "done" /\ launch < MaxLaunches
    /\ session' = 1 /\ at' = "check" /\ deadline' = hour + Cap /\ launch' = launch + 1
    /\ ended' = {} /\ declared' = {}
    /\ UNCHANGED << hour, log, commits >>

Hour ==
    /\ ~ Finished /\ hour < MaxHour /\ hour' = hour + 1
    /\ UNCHANGED << session, at, deadline, log, commits, launch, ended, declared >>

LoopNext ==
    \/ Check \/ (\E done \in BOOLEAN : SessionEnds(done)) \/ Commit \/ Grep
    \/ KillLoop \/ Launch \/ Hour

LoopSpec == LoopInit /\ [][LoopNext]_loopVars
----------------------------------------------------------------------------
(*                               Properties                                *)

\* A loop that stops on <DONE> was told so by a session of its own, the last
\* one, never by the log of an earlier launch; and before a session starts,
\* every one that ended in this launch has its one snapshot.
LoopIsHonest ==
    /\ at = "done" => declared = {session}
    /\ at \in {"check", "session", "sessions", "cap", "done"} =>
           /\ {c[2] : c \in {commits[k] : k \in {j \in 1 .. Len(commits) : commits[j][1] = launch}}} = ended
           /\ \A j, k \in 1 .. Len(commits) : commits[j] = commits[k] => j = k
=============================================================================
