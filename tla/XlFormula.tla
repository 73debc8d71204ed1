----------------------------- MODULE XlFormula -----------------------------
(***************************************************************************)
(* The formulas of the armK workbook as syntax trees: what they mention,   *)
(* how copy() shifts them, and what an operator or function makes of the   *)
(* values of its arguments.                                                *)
(*                                                                         *)
(* A stored text is <<"int", n>>, <<"str", characters>>, <<"=", node>> or  *)
(* <<"long", node>>, a formula beyond the length or nesting limit.         *)
(* Addresses are pairs << column, row >>.  A node is                       *)
(*   <<"int", n>>  <<"str", characters>>  <<"now">>  <<"bad">>             *)
(*   <<"error", code>>  <<"name", n>>  <<"ref", qualifier, addr, fixed>>   *)
(*   <<"op", f, arguments>>                                                *)
(*   <<"agg", f, arg>>, arg a name, an error, or                           *)
(*                      <<"range", qualifier, addr, fixed, addr, fixed>>   *)
(* where fixed says which of column and row are marked with a dollar, and  *)
(* <<"bad">> stands for a text that does not parse.                        *)
(***************************************************************************)
EXTENDS XlContents, Integers, FiniteSets

CONSTANTS
    TargetCells(_),   \* the corners << addr, addr >> of what a target covers
    MaxInt, MaxLen    \* magnitude of a number and length of a string, beyond which is #OV!

IsFormula(raw) == raw # Empty /\ raw[1] \in {"=", "long"}
InBounds(raw) == raw # Empty /\ raw[1] = "="

On(qualifier, host) == IF qualifier = NoSheet THEN host ELSE qualifier

----------------------------------------------------------------------------
\* What a formula mentions

\* References, ranges, names and NOW() of a node, in the order of the text.
RECURSIVE Leaves(_)
Leaves(node) ==
    CASE node[1] = "op" -> FlattenSeq([i \in DOMAIN node[3] |-> Leaves(node[3][i])])
      [] node[1] = "agg" -> << node[3] >>
      [] OTHER -> << node >>

MentionsName(node, n) == <<"name", n>> \in ToSet(Leaves(node))
MentionsSheet(node, s) ==
    \E l \in ToSet(Leaves(node)) : l[1] \in {"ref", "range"} /\ l[2] = s
MentionsNow(node) == <<"now">> \in ToSet(Leaves(node))

\* Row by row, from corner a to corner b.
RangeCells(a, b) ==
    LET w == b[1] - a[1] + 1
        h == b[2] - a[2] + 1
    IN [k \in 1 .. w * h |-> << a[1] + ((k - 1) % w), a[2] + ((k - 1) \div w) >>]

IsRange(a, b) == a \in Addrs /\ b \in Addrs /\ a[1] <= b[1] /\ a[2] <= b[2]

\* The cells a leaf of a formula on sheet s refers to, in the present workbook.
LeafCells(leaf, s) ==
    LET span == CASE leaf[1] = "ref" -> << On(leaf[2], s), leaf[3], leaf[3] >>
                  [] leaf[1] = "range" -> << On(leaf[2], s), leaf[3], leaf[5] >>
                  [] leaf[1] = "name" /\ names[s][leaf[2]] # Unbound ->
                        LET t == names[s][leaf[2]]
                        IN << On(QualifierOf(t), s), TargetCells(t)[1], TargetCells(t)[2] >>
                  [] OTHER -> << NoSheet >>
    IN IF span[1] \in present /\ IsRange(span[2], span[3])
       THEN [k \in DOMAIN RangeCells(span[2], span[3]) |->
                << span[1], RangeCells(span[2], span[3])[k] >>]
       ELSE << >>

DirectReferences(node, s) ==
    FlattenSeq([i \in DOMAIN Leaves(node) |-> LeafCells(Leaves(node)[i], s)])

----------------------------------------------------------------------------
\* copy(): relative columns and rows move, what leaves the grid is an error

RefError == <<"error", "#REF!">>

ShiftCell(a, fixed, d) ==
    << IF fixed[1] THEN a[1] ELSE a[1] + d[1], IF fixed[2] THEN a[2] ELSE a[2] + d[2] >>

\* An address that was no address before is left as it is.
Stays(a, fixed, d) == a \in Addrs => ShiftCell(a, fixed, d) \in Addrs
Moved(a, fixed, d) == IF a \in Addrs THEN ShiftCell(a, fixed, d) ELSE a

ShiftLeaf(l, d) ==
    CASE l[1] = "ref" ->
            IF Stays(l[3], l[4], d) THEN [l EXCEPT ![3] = Moved(@, l[4], d)] ELSE RefError
      [] l[1] = "range" ->
            IF Stays(l[3], l[4], d) /\ Stays(l[5], l[6], d)
            THEN [l EXCEPT ![3] = Moved(@, l[4], d), ![5] = Moved(@, l[6], d)]
            ELSE RefError
      [] OTHER -> l

RECURSIVE Shift(_, _)
Shift(node, d) ==
    CASE node[1] = "op" ->
            [node EXCEPT ![3] = [i \in DOMAIN node[3] |-> Shift(node[3][i], d)]]
      [] node[1] = "agg" -> [node EXCEPT ![3] = ShiftLeaf(@, d)]
      [] OTHER -> ShiftLeaf(node, d)

\* The text copy() stores at b for a cell at a that holds raw.
ShiftedText(raw, a, b) ==
    IF InBounds(raw) THEN <<"=", Shift(raw[2], << b[1] - a[1], b[2] - a[2] >>)>> ELSE raw

----------------------------------------------------------------------------
\* Values: <<"int", n>>, <<"str", characters>>, <<"err", code>>, <<"empty">>

IntV(n) == <<"int", n>>
ErrV(code) == <<"err", code>>
Blank == <<"empty">>

Digit == <<"0", "1", "2", "3", "4", "5", "6", "7", "8", "9">>

RECURSIVE Decimal(_)
Decimal(n) ==
    CASE n < 0 -> <<"-">> \o Decimal(- n)
      [] n \in 0 .. 9 -> << Digit[n + 1] >>
      [] n > 9 -> Append(Decimal(n \div 10), Digit[(n % 10) + 1])

Render(v) == IF v[1] = "int" THEN Decimal(v[2]) ELSE v[2]

IntOnly == {"+", "-", "*", "/", "neg", "<", "<=", ">", ">=", "SUM", "MIN", "MAX"}

Magnitude(n) == IF n < 0 THEN - n ELSE n
Beyond(n) == Magnitude(n) > MaxInt
Within(v) == IF (v[1] = "int" /\ Beyond(v[2])) \/ (v[1] = "str" /\ Len(v[2]) > MaxLen)
             THEN ErrV("#OV!") ELSE v

Ints(x) == SelectSeq(x, LAMBDA v : v[1] = "int")
Total(x) == FoldLeft(LAMBDA t, v : t + v[2], 0, Ints(x))

\* An argument v after the arguments done that ends the evaluation of f, and
\* what f then yields.
Offends(f, done, v) ==
    CASE v[1] = "err" -> f # "COUNT"
      [] v[1] = "str" -> f \in IntOnly
      [] v[1] = "int" -> \/ f = "SUM" /\ Beyond(Total(Append(done, v)))
                         \/ f \in {"MIN", "MAX"} /\ Beyond(v[2])
      [] OTHER -> FALSE

Offence(v) ==
    CASE v[1] = "err" -> v [] v[1] = "str" -> ErrV("#TYPE!") [] OTHER -> ErrV("#OV!")

Truncated(x, y) ==
    LET q == Magnitude(x) \div Magnitude(y) IN IF (x < 0) = (y < 0) THEN q ELSE - q

Compare(f, v, w) ==
    LET holds == CASE f = "=" -> v = w [] f = "<>" -> v # w
                   [] f = "<" -> v[2] < w[2] [] f = "<=" -> v[2] <= w[2]
                   [] f = ">" -> v[2] > w[2] [] f = ">=" -> v[2] >= w[2]
    IN IF v[1] # w[1] THEN ErrV("#TYPE!")
       ELSE IF v[1] = "int" /\ (Beyond(v[2]) \/ Beyond(w[2])) THEN ErrV("#OV!")
       ELSE IntV(IF holds THEN 1 ELSE 0)

\* f of arguments none of which offends.
Apply(f, x) ==
    LET n(i) == x[i][2]
    IN CASE f = "+" -> Within(IntV(n(1) + n(2)))
         [] f = "-" -> Within(IntV(n(1) - n(2)))
         [] f = "*" -> Within(IntV(n(1) * n(2)))
         [] f = "/" -> IF n(2) = 0 THEN ErrV("#DIV!")
                       ELSE IF Beyond(n(1)) \/ Beyond(n(2)) THEN ErrV("#OV!")
                       ELSE IntV(Truncated(n(1), n(2)))
         [] f = "neg" -> Within(IntV(- n(1)))
         [] f \in {"=", "<>", "<", "<=", ">", ">="} -> Compare(f, x[1], x[2])
         [] f = "CONCAT" -> Within(<<"str", FlattenSeq([i \in DOMAIN x |-> Render(x[i])])>>)
         [] f = "LEN" -> IntV(Len(Render(x[1])))
         [] f = "COUNT" -> IntV(Len(SelectSeq(x, LAMBDA v : v # Blank)))
         [] f = "SUM" -> IntV(Total(x))
         [] f \in {"MIN", "MAX"} /\ Ints(x) = << >> -> ErrV("#TYPE!")
         [] f = "MIN" /\ Ints(x) # << >> -> IntV(Min({v[2] : v \in ToSet(Ints(x))}))
         [] f = "MAX" /\ Ints(x) # << >> -> IntV(Max({v[2] : v \in ToSet(Ints(x))}))
=============================================================================
