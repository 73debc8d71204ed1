---------------------------- MODULE IntervalSet ----------------------------
(***************************************************************************)
(* The two intervalset libraries; a behaviour runs one of them.  Each      *)
(* keeps a sorted list of closed intervals <<start, end>>, which add() and *)
(* remove() go through once, an interval at a step.  members is the set of *)
(* integers the calls describe.                                            *)
(***************************************************************************)
EXTENDS Integers, SequencesExt

CONSTANT Points               \* the integers calls may name

ASSUME PointsAssumption == Points \subseteq Int

VARIABLES library, list, members,
          call, start, end,          \* what runs, and its arguments
          pos, new,                  \* the loop over list, the interval add() grows
          skipped, merged, result    \* the lists the call builds

intervalVars == << library, list, members, call, start, end, pos, new, skipped, merged, result >>

IntervalInit ==
    /\ library \in {"A", "B"} /\ list = << >> /\ members = {}
    /\ call = "none" /\ start = 0 /\ end = 0 /\ pos = 1 /\ new = << 0, 0 >>
    /\ skipped = << >> /\ merged = << >> /\ result = << >>

\* A call with start > end returns at once and is no action.
Called(operation, s, e) ==
    /\ call = "none" /\ s <= e
    /\ call' = operation /\ start' = s /\ end' = e /\ new' = << s, e >>
    /\ UNCHANGED << library, list, members, pos, skipped, merged, result >>

AddRange(s, e) == Called("add", s, e)
RemoveRange(s, e) == Called("remove", s, e)

InLoop(operation) == call = operation /\ pos <= Len(list) /\ pos' = pos + 1
LoopDone(operation) == call = operation /\ pos = Len(list) + 1

\* The list is what the call built, and its variables are gone.
Returns(l, m) ==
    /\ list' = l /\ members' = m /\ library' = library
    /\ call' = "none" /\ start' = 0 /\ end' = 0 /\ pos' = 1 /\ new' = << 0, 0 >>
    /\ skipped' = << >> /\ merged' = << >> /\ result' = << >>

Apart(iv, s, e) == iv[2] < s \/ iv[1] > e
Hull(iv, jv) == << Min({iv[1], jv[1]}), Max({iv[2], jv[2]}) >>

----------------------------------------------------------------------------
(*                                 add()                                   *)

\* The slip of a mutation: neighbours that only touch are left apart.
ScanATouchingApart ==
    /\ library = "A" /\ InLoop("add")
    /\ LET iv == list[pos]
       IN IF Apart(iv, start, end)
          THEN result' = Append(result, iv) /\ new' = new
          ELSE new' = Hull(new, iv) /\ result' = result
    /\ UNCHANGED << library, list, members, call, start, end, skipped, merged >>

\* armA compares every interval with the call's own bounds, a step wider.
ScanA ==
    /\ library = "A" /\ InLoop("add")
    /\ LET iv == list[pos]
       IN IF Apart(iv, start - 1, end + 1)
          THEN result' = Append(result, iv) /\ new' = new
          ELSE new' = Hull(new, iv) /\ result' = result
    /\ UNCHANGED << library, list, members, call, start, end, skipped, merged >>

Inserted(l, at) == IF at = 0 THEN Append(l, new) ELSE InsertAt(l, at, new)

InsertA ==
    /\ library = "A" /\ LoopDone("add")
    /\ LET at == SelectInSeq(result, LAMBDA iv : new[1] < iv[1])
       IN Returns(Inserted(result, at), members \cup (start .. end))

\* armB's bounds grow on the way; it sets apart what it passed and what is beyond.
ScanB ==
    /\ library = "B" /\ InLoop("add")
    /\ LET iv == list[pos]
       IN \/ /\ iv[2] + 1 < new[1]
             /\ skipped' = Append(skipped, iv) /\ UNCHANGED << merged, new >>
          \/ /\ iv[2] + 1 >= new[1] /\ new[2] + 1 < iv[1]
             /\ merged' = Append(merged, iv) /\ UNCHANGED << skipped, new >>
          \/ /\ iv[2] + 1 >= new[1] /\ new[2] + 1 >= iv[1]
             /\ new' = Hull(new, iv) /\ UNCHANGED << skipped, merged >>
    /\ UNCHANGED << library, list, members, call, start, end, result >>

NotAfter(iv, jv) == iv[1] < jv[1] \/ (iv[1] = jv[1] /\ iv[2] <= jv[2])

\* It then takes the smaller head of the two lists, until both are empty.
OrderB ==
    /\ library = "B" /\ LoopDone("add")
    /\ skipped # << >> \/ merged # << >>
    /\ IF merged = << >> \/ (skipped # << >> /\ NotAfter(Head(skipped), Head(merged)))
       THEN /\ result' = Append(result, Head(skipped)) /\ skipped' = Tail(skipped)
            /\ merged' = merged
       ELSE /\ result' = Append(result, Head(merged)) /\ merged' = Tail(merged)
            /\ skipped' = skipped
    /\ UNCHANGED << library, list, members, call, start, end, pos, new >>

InsertB ==
    /\ library = "B" /\ LoopDone("add") /\ skipped = << >> /\ merged = << >>
    /\ LET at == SelectInSeq(result, LAMBDA iv : new[1] <= iv[2] + 1)
       IN Returns(Inserted(result, at), members \cup (start .. end))

----------------------------------------------------------------------------
(*                        remove() and contains()                          *)

PiecesA(iv) ==
    IF Apart(iv, start, end) THEN << iv >>
    ELSE (IF iv[1] < start THEN << << iv[1], start - 1 >> >> ELSE << >>)
         \o (IF iv[2] > end THEN << << end + 1, iv[2] >> >> ELSE << >>)

PiecesB(iv) ==
    CASE Apart(iv, start, end) -> << iv >>
      [] iv[1] >= start /\ iv[2] <= end -> << >>
      [] iv[1] < start /\ iv[2] \in start .. end -> << << iv[1], start - 1 >> >>
      [] iv[1] \in start .. end /\ iv[2] > end -> << << end + 1, iv[2] >> >>
      [] OTHER -> << << iv[1], start - 1 >>, << end + 1, iv[2] >> >>

Cut(pieces) ==
    /\ InLoop("remove") /\ result' = result \o pieces
    /\ UNCHANGED << library, list, members, call, start, end, new, skipped, merged >>
CutA == library = "A" /\ Cut(PiecesA(list[pos]))
CutB == library = "B" /\ Cut(PiecesB(list[pos]))

Removed == LoopDone("remove") /\ Returns(result, members \ (start .. end))

\* The scan stops at the first interval that ends at or after the point.
ContainsA(point) ==
    LET at == SelectInSeq(list, LAMBDA iv : (iv[1] <= point /\ point <= iv[2]) \/ iv[1] > point)
    IN at # 0 /\ list[at][1] <= point

ContainsB(point) ==
    LET at == SelectInSeq(list, LAMBDA iv : iv[1] > point \/ iv[2] >= point)
    IN at # 0 /\ ~ list[at][1] > point

----------------------------------------------------------------------------

IntervalNext ==
    \/ \E s, e \in Points : AddRange(s, e) \/ RemoveRange(s, e)
    \/ ScanA \/ InsertA \/ CutA
    \/ ScanB \/ OrderB \/ InsertB \/ CutB
    \/ Removed

IntervalSpec == IntervalInit /\ [][IntervalNext]_intervalVars

----------------------------------------------------------------------------
(*                               Properties                                *)

Covers(l, x) == \E i \in 1 .. Len(l) : l[i][1] <= x /\ x <= l[i][2]

\* Intervals in order, none empty, and none that could be joined with another.
AreRuns(l) ==
    /\ \A i \in 1 .. Len(l) : l[i][1] <= l[i][2]
    /\ \A i, j \in 1 .. Len(l) : i < j => l[i][2] + 1 < l[j][1]

\* After any sequence of add() and remove() calls the list is that of the
\* maximal runs of the members, so the minimum number of intervals, in order;
\* and contains() answers for the members.
ListsAreTheRuns ==
    /\ AreRuns(list)
    /\ members = UNION {list[i][1] .. list[i][2] : i \in 1 .. Len(list)}
    /\ \A point \in Points : IF library = "A" THEN ContainsA(point) <=> point \in members
                             ELSE ContainsB(point) <=> point \in members
=============================================================================
