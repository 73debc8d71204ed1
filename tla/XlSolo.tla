------------------------------- MODULE XlSolo -------------------------------
(***************************************************************************)
(* The armS workbook: the contents and the journal that XlContents has for *)
(* it, and an engine in which only set() looks for the results it makes    *)
(* stale: everything else drops the result of the cell it writes and no    *)
(* other.                                                                  *)
(*                                                                         *)
(* The handle of a sheet is the one of the sheet there is now; a handle    *)
(* kept from before an undo of its add_sheet() is not modelled.            *)
(***************************************************************************)
EXTENDS XlNaive

CONSTANT NoValue

VARIABLE mem     \* the result of a cell and the clock it was computed at

BlankMem == [id \in Cells |-> NoValue]

----------------------------------------------------------------------------
\* The reference closure, in contents c

Box(a, b) == {x \in Addrs : a[1] <= x[1] /\ x[1] <= b[1] /\ a[2] <= x[2] /\ x[2] <= b[2]}

\* A qualified name is taken to be one of the sheet itself if it is a range,
\* and to refer to nothing if it is a cell.
References(leaf, s) ==
    CASE leaf[1] = "ref" -> {<< On(leaf[2], s), leaf[3] >>}
      [] leaf[1] = "range" -> {On(leaf[2], s)} \X Box(leaf[3], leaf[5])
      [] leaf[1] = "name" /\ names[s][leaf[2]] # Unbound ->
            LET t == names[s][leaf[2]]
                span == TargetCells(t)
            IN IF QualifierOf(t) # NoSheet /\ span[1] = span[2] THEN {}
               ELSE {s} \X Box(span[1], span[2])
      [] OTHER -> {}

RECURSIVE Closed(_, _)
Closed(c, S) ==
    LET formulas == {x \in S : x[2] \in Addrs /\ IsFormula(c[x[1]][x[2]])}
        mentioned(x) == UNION {References(l, x[1]) : l \in ToSet(Leaves(c[x[1]][x[2]][2]))}
        T == S \cup {y \in UNION {mentioned(x) : x \in formulas} : y[1] \in present}
    IN IF T = S THEN S ELSE Closed(c, T)

----------------------------------------------------------------------------
\* get()

Got(v, m) == [v |-> v, m |-> m]
SaysNow(id) == MentionsNow(Raw(id)[2])

\* The order of two strings of the characters of a number.
Rank(ch) == IF ch = "-" THEN 0 ELSE CHOOSE i \in DOMAIN Digit : Digit[i] = ch
Before(v, w) ==
    \E n \in 0 .. Len(v) :
        /\ n <= Len(w) /\ SubSeq(v, 1, n) = SubSeq(w, 1, n)
        /\ n < Len(w) /\ (n = Len(v) \/ Rank(v[n + 1]) < Rank(w[n + 1]))

Less(v, w) == IF v[1] = "int" THEN v[2] < w[2] ELSE Before(v[2], w[2])

Compared(f, v, w) ==
    LET holds == CASE f = "=" -> v = w [] f = "<>" -> v # w
                   [] f = "<" -> Less(v, w) [] f = "<=" -> ~ Less(w, v)
                   [] f = ">" -> Less(w, v) [] f = ">=" -> ~ Less(v, w)
    IN IF v[1] # w[1] THEN ErrV("#TYPE!") ELSE IntV(IF holds THEN 1 ELSE 0)

\* A number of a term that is too large, and a text that is too long, is an error of type.
Limited(v) ==
    IF (v[1] = "int" /\ Beyond(v[2])) \/ (v[1] = "str" /\ Len(v[2]) > MaxLen)
    THEN ErrV("#TYPE!") ELSE v

Arithmetic == {"+", "-", "*", "/"}
Aggregates == {"SUM", "MIN", "MAX"}

\* f of arguments none of which is an error.
Applied(f, x) ==
    LET strings == \E i \in DOMAIN x : x[i][1] = "str"
        ns == {v[2] : v \in ToSet(x)}
    IN CASE f \in Arithmetic \cup {"neg"} \cup Aggregates /\ strings -> ErrV("#TYPE!")
         [] f = "+" /\ ~ strings -> Limited(IntV(x[1][2] + x[2][2]))
         [] f = "-" /\ ~ strings -> Limited(IntV(x[1][2] - x[2][2]))
         [] f = "*" /\ ~ strings -> Limited(IntV(x[1][2] * x[2][2]))
         [] f = "/" /\ ~ strings -> IF x[2][2] = 0 THEN ErrV("#DIV!")
                                    ELSE Limited(IntV(Truncated(x[1][2], x[2][2])))
         [] f = "neg" /\ ~ strings -> IntV(- x[1][2])
         [] f \in {"=", "<>", "<", "<=", ">", ">="} -> Compared(f, x[1], x[2])
         [] f = "SUM" /\ ~ strings -> IntV(FoldLeft(LAMBDA t, v : t + v[2], 0, x))
         [] f = "MIN" /\ ~ strings -> IntV(Min(ns))
         [] f = "MAX" /\ ~ strings -> IntV(Max(ns))
         [] f = "CONCAT" ->
               Limited(<<"str", FlattenSeq([i \in DOMAIN x |-> Render(x[i])])>>)
         [] f = "LEN" -> IntV(Len(Render(x[1])))

\* Members of a range are looked at one by one, operands all before any.
Stops(f, v) == v[1] = "err" \/ (v[1] = "str" /\ f \in Aggregates \cup {"if"})
Stopped(v) == IF v[1] = "err" THEN v ELSE ErrV("#TYPE!")

\* The cells of an argument or a name on sheet s.
Argument(arg, s) ==
    LET t == names[s][arg[2]]
    IN CASE arg[1] = "error" -> [err |-> arg[2]]
         [] arg[1] = "name" ->
               IF t = Unbound THEN [err |-> "#NAME!"]
               ELSE IF QualifierOf(t) # NoSheet \/ ~ IsRange(TargetCells(t)[1], TargetCells(t)[2])
               THEN [err |-> "#REF!"]
               ELSE [sheet |-> s, addrs |-> RangeCells(TargetCells(t)[1], TargetCells(t)[2])]
         [] arg[1] = "range" ->
               IF IsRange(arg[3], arg[5])
               THEN [sheet |-> On(arg[2], s), addrs |-> RangeCells(arg[3], arg[5])]
               ELSE [err |-> "#REF!"]

RECURSIVE Cell(_, _, _), Formula(_, _, _), Value(_, _, _, _), Args(_, _, _, _, _, _)

\* An empty cell is 0, in a range too.
Cell(id, evaluating, m) ==
    IF id[1] \notin present \/ id[2] \notin Addrs THEN Got(ErrV("#REF!"), m)
    ELSE IF Raw(id) = Empty THEN Got(IntV(0), m)
    ELSE IF ~ IsFormula(Raw(id)) THEN Got(Raw(id), m)
    ELSE Formula(id, evaluating, m)

\* A cycle is found after the cell is counted once more.
Formula(id, evaluating, m) ==
    IF m.cache[id] # NoValue /\ (m.cache[id].at = clock \/ ~ SaysNow(id))
    THEN Got(m.cache[id].v, m)
    ELSE IF id \in evaluating THEN Got(ErrV("#CYCLE!"), [m EXCEPT !.starts[id] = @ + 1])
    ELSE LET r == Value(Raw(id)[2], id[1], evaluating \cup {id}, [m EXCEPT !.starts[id] = @ + 1])
         IN Got(r.v, [r.m EXCEPT !.cache[id] = [at |-> clock, v |-> r.v]])

Value(node, s, evaluating, m) ==
    CASE node[1] \in {"int", "str"} -> Got(node, m)
      [] node[1] = "now" -> Got(IntV(clock), m)
      [] node[1] = "bad" -> Got(ErrV("#PARSE!"), m)
      [] node[1] = "error" -> Got(ErrV(node[2]), m)
      [] node[1] = "cell" -> Cell(node[2], evaluating, m)
      [] node[1] = "ref" -> Cell(<< On(node[2], s), node[3] >>, evaluating, m)
      [] node[1] = "name" ->
            LET arg == Argument(node, s)
            IN IF "err" \in DOMAIN arg THEN Got(ErrV(arg.err), m)
               ELSE IF Len(arg.addrs) > 1 THEN Got(ErrV("#REF!"), m)
               ELSE Cell(<< s, arg.addrs[1] >>, evaluating, m)
      [] node[1] = "agg" ->
            LET arg == Argument(node[3], s)
            IN IF "err" \in DOMAIN arg
               THEN Got(IF arg.err # "#NAME!" THEN ErrV(arg.err)
                        ELSE IF node[2] = "COUNT" THEN IntV(0) ELSE ErrV("#TYPE!"), m)
               ELSE IF node[2] = "COUNT"
               THEN Got(IF arg.sheet \in present THEN Stored(arg) ELSE IntV(0), m)
               ELSE Args(node[2], [i \in DOMAIN arg.addrs |->
                                      <<"cell", << arg.sheet, arg.addrs[i] >> >>],
                         << >>, s, evaluating, m)
      [] node[1] = "op" /\ node[2] = "if" ->
            LET c == Value(node[3][1], s, evaluating, m)
            IN IF Stops("if", c.v) THEN Got(Stopped(c.v), c.m)
               ELSE Value(node[3][IF c.v[2] # 0 THEN 2 ELSE 3], s, evaluating, c.m)
      [] node[1] = "op" /\ node[2] # "if" -> Args(node[2], node[3], << >>, s, evaluating, m)

Args(f, args, done, s, evaluating, m) ==
    IF args = << >> THEN Got(Applied(f, done), m)
    ELSE LET r == Value(Head(args), s, evaluating, m)
         IN IF Stops(f, r.v) THEN Got(Stopped(r.v), r.m)
            ELSE Args(f, Tail(args), Append(done, r.v), s, evaluating, r.m)

Evaluate(id) ==
    LET m == [cache |-> mem, starts |-> [x \in Cells |-> 0]]
    IN IF Raw(id) = Empty THEN Got(Blank, m) ELSE Cell(id, {}, m)

Get(s, a) ==
    /\ s \in present
    /\ mem' = Evaluate(<< s, a >>).m.cache
    /\ UNCHANGED vars

----------------------------------------------------------------------------
\* The operations

Drop(id) == [mem EXCEPT ![id] = NoValue]
Blanked(s) == [id \in Cells |-> IF id[1] = s THEN NoValue ELSE mem[id]]

\* Formulas whose closure has the cell, in the contents with the new one.
SSet(s, a, v) ==
    /\ SetCell(s, a, v)
    /\ mem' = [id \in Cells |->
                  IF \/ id = << s, a >>
                     \/ /\ id[1] \in present /\ IsFormula(cells'[id[1]][id[2]])
                        /\ << s, a >> \in Closed(cells', {id})
                  THEN NoValue ELSE mem[id]]

SCopy(s, a, t, b) == CopyS(s, a, t, b) /\ mem' = Drop(<< t, b >>)

\* Not followed.
SDefineName(s, n, t) == DefineNameS(s, n, t) /\ UNCHANGED mem

SAddSheet(s) == AddSheet(s) /\ mem' = Blanked(s)
SAdvanceClock == AdvanceClock /\ UNCHANGED mem

SUndoCell == UndoCell /\ mem' = Drop(<< Last(journal).sheet, Last(journal).key >>)
SUndoClock == UndoClock /\ UNCHANGED mem
SUndoAddSheet == UndoAddSheetS /\ mem' = Blanked(Last(journal).sheet)
SUndo == SUndoCell \/ SUndoClock \/ SUndoAddSheet

SRedoSet == RedoSetS /\ mem' = Drop(<< Last(redo).sheet, Last(redo).key >>)
SRedoCopy ==
    /\ RedoCopyS
    /\ LET e == Last(redo) IN mem' = IF SourceLost(e) THEN mem ELSE Drop(<< e.sheet, e.key >>)
SRedoAddSheet == RedoAddSheetS /\ mem' = Blanked(Last(redo).sheet)
SRedoClock == RedoClockS /\ UNCHANGED mem
SRedo == SRedoSet \/ SRedoCopy \/ SRedoAddSheet \/ SRedoClock

SReload == ReloadS /\ mem' = BlankMem

SEdit ==
    \/ \E s \in Sheets : SAddSheet(s)
    \/ \E s \in Sheets, a \in Addrs, v \in Raws : SSet(s, a, v)
    \/ \E s, t \in Sheets, a, b \in Addrs : SCopy(s, a, t, b)
    \/ SAdvanceClock
=============================================================================
