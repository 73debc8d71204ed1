------------------------------- MODULE Subcut -------------------------------
(***************************************************************************)
(* The subcut library of both arms: merging and shifting of cues, the SRT  *)
(* reader on kinds of lines, and timestamps on their fields.  A cue's text *)
(* is the sequence of the texts that were joined.                          *)
(***************************************************************************)
EXTENDS Integers, SequencesExt

CONSTANTS
    CueLists,                 \* the cues a caller may begin with
    Stamps,                   \* texts of timestamps
    Deltas,                   \* shifts, in units of the cue times
    MaxTime,                  \* bound on the times shifts lead to
    MaxLines                  \* bound on the lines of a text

ASSUME CuesAssumption ==
    CueLists \subseteq Seq([index : Nat, start : Int, end : Int, text : Seq(Nat)])
ASSUME StampsAssumption ==
    Stamps \subseteq [h : Nat, m : Nat, s : Nat, ms : 0 .. 999, width : Nat, sep : {",", "."}]
ASSUME DeltasAssumption == Deltas \subseteq Int

VARIABLES
    cues,                     \* sequence of [index, start, end, text]
    merging,                  \* the arm whose merge_overlapping() runs, or "no"
    sorted, turn, joined,     \* its cues in order, the next one, and its list
    lines,                    \* how many lines of an SRT text are read
    reader,                   \* armA's loop over them
    blocks, block,            \* armB's blocks, and the one the text may go on with
    stamp                     \* a timestamp's text, as fields

mergeVars == << merging, sorted, turn, joined >>
readVars == << lines, reader, blocks, block >>
subcutVars == << cues, mergeVars, readVars, stamp >>

----------------------------------------------------------------------------
(*                        merge_overlapping()                              *)

\* Both arms sort by start, cues of equal start in the order given.
Earlier(cs) ==
    {p \in (1 .. Len(cs)) \X (1 .. Len(cs)) :
        \/ cs[p[1]].start < cs[p[2]].start
        \/ cs[p[1]].start = cs[p[2]].start /\ p[1] < p[2]}

InOrder(n, earlier) ==
    CHOOSE order \in [1 .. n -> 1 .. n] :
        \A i, j \in 1 .. n : i < j => << order[i], order[j] >> \in earlier

ByStart(cs) ==
    LET order == InOrder(Len(cs), Earlier(cs))
    IN [k \in 1 .. Len(cs) |-> cs[order[k]]]

MergeBegins(arm) ==
    /\ merging = "no" /\ merging' = arm
    /\ sorted' = ByStart(cues) /\ turn' = 1 /\ joined' = << >>
    /\ UNCHANGED << cues, readVars, stamp >>

InMerge(arm) ==
    /\ merging = arm /\ turn <= Len(sorted) /\ turn' = turn + 1
    /\ UNCHANGED << cues, merging, sorted, readVars, stamp >>

\* The slip of a mutation: the merged cue ends where the last cue does.
JoinALastEnd ==
    /\ InMerge("A")
    /\ LET c == sorted[turn]  prev == Last(joined)
       IN joined' = IF joined # << >> /\ prev.end > c.start
                    THEN Append(Front(joined), [prev EXCEPT !.end = c.end, !.text = @ \o c.text])
                    ELSE Append(joined, c)

JoinA ==
    /\ InMerge("A")
    /\ LET c == sorted[turn]  prev == Last(joined)
       IN joined' = IF joined # << >> /\ prev.end > c.start
                    THEN Append(Front(joined), [prev EXCEPT !.end = Max({@, c.end}), !.text = @ \o c.text])
                    ELSE Append(joined, c)

JoinB ==
    /\ InMerge("B")
    /\ LET c == sorted[turn]  prev == Last(joined)
       IN joined' = IF joined = << >> \/ prev.end <= c.start THEN Append(joined, c)
                    ELSE Append(Front(joined), [index |-> prev.index, start |-> Min({prev.start, c.start}),
                                                end |-> Max({prev.end, c.end}), text |-> prev.text \o c.text])

MergeEnds ==
    /\ merging # "no" /\ turn = Len(sorted) + 1 /\ cues' = joined
    /\ merging' = "no" /\ sorted' = << >> /\ turn' = 1 /\ joined' = << >>
    /\ UNCHANGED << readVars, stamp >>

----------------------------------------------------------------------------
(*                             shift_cues()                                *)

Clamp(t) == Max({0, t})

ShiftA(cs, d) ==
    [i \in 1 .. Len(cs) |-> [cs[i] EXCEPT !.start = Clamp(@ + d), !.end = Clamp(@ + d)]]

----------------------------------------------------------------------------
(*                              parse_srt()                                *)

\* "signed" is an index int() reads and isdigit() rejects, as "+1"; a
\* "padded" line is text between blanks.
LineKinds == {"blank", "index", "signed", "time", "padded"}

Accepted(read) == [ok |-> TRUE, cues |-> read]
Refused == [ok |-> FALSE, cues |-> << >>]

\* armA reads line by line; "wants" is what the next line must be.
Reading == [cues |-> << >>, wants |-> "index", ok |-> TRUE]

ReadLine(r, line) ==
    IF ~ r.ok THEN r ELSE
    CASE r.wants = "index" /\ line = "blank" -> r
      [] r.wants = "index" /\ line \in {"index", "signed"} ->
             [r EXCEPT !.wants = "time", !.cues = Append(@, [index |-> line, text |-> << >>])]
      [] r.wants = "time" /\ line = "time" -> [r EXCEPT !.wants = "text"]
      [] r.wants \in {"text", "more"} /\ line # "blank" ->
             [r EXCEPT !.wants = "more", !.cues[Len(r.cues)].text = Append(@, line)]
      [] r.wants = "more" /\ line = "blank" -> [r EXCEPT !.wants = "index"]
      [] OTHER -> [r EXCEPT !.ok = FALSE]

ParseA ==
    IF reader.ok /\ reader.wants \in {"index", "more"} THEN Accepted(reader.cues) ELSE Refused

\* armB splits the text at blank lines into blocks that are not empty.
Split(line) ==
    IF line # "blank" THEN block' = Append(block, line) /\ blocks' = blocks
    ELSE block' = << >> /\ blocks' = IF block = << >> THEN blocks ELSE Append(blocks, block)

Blocks == IF block = << >> THEN blocks ELSE Append(blocks, block)

Strip(line) == IF line = "padded" THEN "text" ELSE line

\* The slip of a mutation: a block without text is let through.
ValidNoText(b) == Len(b) >= 2 /\ b[1] = "index" /\ b[2] = "time"
Valid(b) == Len(b) >= 3 /\ b[1] = "index" /\ b[2] = "time"

CueOf(b) == [index |-> b[1], text |-> [i \in 1 .. Len(b) - 2 |-> Strip(b[i + 2])]]

ParseB ==
    IF \A k \in 1 .. Len(Blocks) : Valid(Blocks[k])
    THEN Accepted([k \in 1 .. Len(Blocks) |-> CueOf(Blocks[k])])
    ELSE Refused

----------------------------------------------------------------------------
(*                             Timestamps                                  *)

\* A text HH:MM:SS,mmm as its four numbers, the number of hour digits and
\* the separator.
Digits(n) == IF n < 10 THEN 1 ELSE IF n < 100 THEN 2 ELSE 3
Text(h, m, s, ms) ==
    [h |-> h, m |-> m, s |-> s, ms |-> ms, width |-> Max({2, Digits(h)}), sep |-> ","]

FormatA(ms) ==
    Text(ms \div 3600000, (ms % 3600000) \div 60000,
         ((ms % 3600000) % 60000) \div 1000, ((ms % 3600000) % 60000) % 1000)

FormatB(ms) ==
    LET seconds == ms \div 1000  minutes == seconds \div 60
    IN Text(minutes \div 60, minutes % 60, seconds % 60, ms % 1000)

ParseStampA(t) ==
    IF t.width >= 2 /\ t.m < 60 /\ t.s < 60
    THEN t.h * 3600000 + t.m * 60000 + t.s * 1000 + t.ms ELSE -1

ParseStampB(t) ==
    IF t.width < 2 \/ t.m >= 60 \/ t.s >= 60 THEN -1
    ELSE ((t.h * 3600 + t.m * 60) + t.s) * 1000 + t.ms

----------------------------------------------------------------------------
\* The callers: cues are joined and shifted again and again, a text grows
\* by a line at a time.
Shift(d) ==
    /\ merging = "no" /\ cues' = ShiftA(cues, d)
    /\ \A i \in 1 .. Len(cues) : cues[i].start + d <= MaxTime /\ cues[i].end + d <= MaxTime
    /\ UNCHANGED << mergeVars, readVars, stamp >>

Feed(line) ==
    /\ lines < MaxLines /\ lines' = lines + 1
    /\ reader' = ReadLine(reader, line) /\ Split(line)
    /\ UNCHANGED << cues, mergeVars, stamp >>

CueStep ==
    \/ MergeBegins("A") \/ MergeBegins("B") \/ JoinA \/ JoinB \/ MergeEnds
    \/ \E d \in Deltas : Shift(d)

SubcutNext == CueStep \/ \E line \in LineKinds : Feed(line)

\* Any cues and any timestamp of those given; a text of no line.
SubcutInit ==
    /\ cues \in CueLists /\ stamp \in Stamps
    /\ merging = "no" /\ sorted = << >> /\ turn = 1 /\ joined = << >>
    /\ lines = 0 /\ reader = Reading /\ blocks = << >> /\ block = << >>

SubcutSpec == SubcutInit /\ [][SubcutNext]_subcutVars

----------------------------------------------------------------------------
(*                               Properties                                *)

\* A cue opens a chain when no cue before it, in order of start, ends later
\* than it starts.
Openings(s) == {k \in 1 .. Len(s) : \A j \in 1 .. k - 1 : s[j].end <= s[k].start}

\* The texts of a chain joined, up to each of its cues.
Told(openings, texts) ==
    LET told[k \in 1 .. Len(texts)] ==
            IF k \in openings THEN texts[k] ELSE told[k - 1] \o texts[k]
    IN told

TextsOf(s) == [k \in 1 .. Len(s) |-> s[k].text]

\* m has one cue for every chain of the first n cues of s: with the chain's
\* span, the index of its first cue and all its texts in order.
IsChains(m, s, n) ==
    \E heads \in [1 .. Len(m) -> 1 .. n] :
        /\ \A i, j \in 1 .. Len(m) : i < j => heads[i] < heads[j]
        /\ {heads[i] : i \in 1 .. Len(m)} = Openings(s) \cap (1 .. n)
        /\ \A i \in 1 .. Len(m) :
               LET last == IF i = Len(m) THEN n ELSE heads[i + 1] - 1
               IN m[i] = [index |-> s[heads[i]].index, start |-> s[heads[i]].start,
                          end |-> Max({s[k].end : k \in heads[i] .. last}),
                          text |-> Told(Openings(s), TextsOf(s))[last]]

\* In order, and none overlaps a later one.
Settled(cs) ==
    \A i, j \in 1 .. Len(cs) : i < j => cs[i].start <= cs[j].start /\ cs[i].end <= cs[j].start

\* merge_overlapping() of both arms makes one cue of every chain of strictly
\* overlapping cues; merging once more changes nothing; and unless a time is
\* clamped to zero, shifting before merging and after it are the same.
MergeIsChains ==
    merging # "no" =>
        /\ IsChains(joined, sorted, turn - 1)
        /\ Settled(joined)
        /\ Settled(cues) => joined = SubSeq(cues, 1, turn - 1)
        /\ \A d \in Deltas :
              (\A i \in 1 .. Len(cues) : cues[i].start + d >= 0 /\ cues[i].end + d >= 0)
                  => IsChains(ShiftA(joined, d), ByStart(ShiftA(cues, d)), turn - 1)

\* A timestamp that parses is, formatted again, its canonical text, and both
\* arms agree on every text and every number of milliseconds.
StampsRoundTrip ==
    LET ms == ParseStampA(stamp)
    IN /\ ParseStampB(stamp) = ms
       /\ ms >= 0 => /\ FormatA(ms) = Text(stamp.h, stamp.m, stamp.s, stamp.ms)
                     /\ FormatB(ms) = FormatA(ms)

Stripped(c) == [c EXCEPT !.text = [i \in 1 .. Len(c.text) |-> Strip(c.text[i])]]

\* Both readers accept the same texts and read the same cues from them,
\* but for the blanks armB strips and for the indices only int() takes; and
\* they read and write the same timestamps.
ReadersAgree ==
    /\ StampsRoundTrip
    /\ LET a == ParseA
       IN IF a.ok /\ \A k \in 1 .. Len(a.cues) : a.cues[k].index = "index"
          THEN ParseB = Accepted([k \in 1 .. Len(a.cues) |-> Stripped(a.cues[k])])
          ELSE ParseB = Refused
=============================================================================
