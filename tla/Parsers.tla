------------------------------ MODULE Parsers ------------------------------
(***************************************************************************)
(* The formula parsers of all engines, from tokens to trees, against the   *)
(* grammar R3 of the SPEC.md files.  Tokens are set apart by blanks and    *)
(* stand for their kind: "1" an INT, "str" a string literal and "close"    *)
(* one that holds a parenthesis, "A1", "$A1", "A$1" a REF with its marks,  *)
(* "AB" a NAME, "ab", "Ab" and "F" identifiers that are none, "SUM" any    *)
(* aggregate, "<" any CMP, "+" and "*" also "-" and "/", "bad" a word no   *)
(* v1 grammar has.  A tree is a node's kind and the sequence of its parts. *)
(***************************************************************************)
EXTENDS Integers, SequencesExt, FiniteSetsExt

CONSTANTS
    MAX_PAREN_DEPTH,          \* of the hybrid engine
    MaxPlain,                 \* bound on the pieces of a text of PlainTokens,
    MaxV1,                    \* of a text of the one-sheet language
    MaxXl                     \* and of any other

VARIABLE text                 \* sequence of pieces, each a sequence of tokens

Node(op, parts) == [op |-> op, parts |-> parts]
Leaf(kind) == Node(kind, << >>)
NoTree == Leaf("#PARSE!")

Functions == {"SUM", "CONCAT", "LEN", "IF", "NOW"}
Identifiers == Functions \cup {"AB", "ab", "Ab", "A1", "F"}
Refs == {"A1", "$A1", "A$1"}
LeafOf == [k \in {"1", "str", "close", "#REF!", "AB"} \cup Refs |->
              CASE k \in Refs -> "ref" [] k = "AB" -> "name" [] k = "close" -> "str" [] OTHER -> k]

\* The binary operators, from the loosest binding to the tightest.
Operators == << {"<"}, {"+", "-"}, {"*"} >>
Binary == UNION ToSet(Operators)

Peek(t) == IF t = << >> THEN "EOF" ELSE Head(t)
After(n, t) == SubSeq(t, n + 1, Len(t))

----------------------------------------------------------------------------
(*                          The grammar, R3                                *)

RangeAt(n, t) == Len(t) >= n + 3 /\ t[n + 1] \in Refs /\ t[n + 2] = ":" /\ t[n + 3] \in Refs
SheetFirst(t) == Len(t) > 1 /\ t[1] \in Identifiers /\ t[2] = "!"

RangeArgs(t) ==
    CASE t \in {<< "#REF!" >>, << "AB" >>} -> {Leaf(LeafOf[t[1]])}
      [] Len(t) = 3 /\ RangeAt(0, t) -> {Leaf("range")}
      [] Len(t) = 5 /\ SheetFirst(t) /\ RangeAt(2, t) -> {Leaf("qrange")}
      [] OTHER -> {}

\* The trees a text derives as an expr (1), additive (2), term (3) or
\* factor (4), and the sequences of trees of a list of arguments.
RECURSIVE Derived(_, _), DerivedArgs(_)

DerivedArgs(t) ==
    {<< x >> : x \in Derived(1, t)} \cup
    UNION {{<< x >> \o rest : x \in Derived(1, SubSeq(t, 1, k - 1)), rest \in DerivedArgs(After(k, t))}
           : k \in {i \in 2 .. Len(t) - 1 : t[i] = ","}}

CallParts(name, args) ==
    CASE name = "NOW" -> IF args = << >> THEN {<< >>} ELSE {}
      [] name = "SUM" -> {<< x >> : x \in RangeArgs(args)}
      [] OTHER -> {parts \in DerivedArgs(args) :
                      /\ name = "LEN" => Len(parts) = 1
                      /\ name = "IF" => Len(parts) = 3}

Derived(level, t) ==
    IF level = 4
    THEN CASE Len(t) = 1 -> IF t[1] \in DOMAIN LeafOf THEN {Leaf(LeafOf[t[1]])} ELSE {}
           [] Peek(t) = "-" -> {Node("neg", << x >>) : x \in Derived(4, Tail(t))}
           [] Len(t) > 2 /\ t[1] = "(" /\ Last(t) = ")" -> Derived(1, Front(Tail(t)))
           [] Len(t) > 2 /\ t[1] \in Functions /\ t[2] = "(" /\ Last(t) = ")" ->
                  {Node(t[1], parts) : parts \in CallParts(t[1], Front(After(2, t)))}
           [] Len(t) = 3 /\ SheetFirst(t) /\ t[3] \in Refs -> {Leaf("qref")}
           [] OTHER -> {}
    ELSE Derived(level + 1, t) \cup
         UNION {{Node(t[k], << l, r >>) : l \in Derived(level, SubSeq(t, 1, k - 1)),
                                          r \in Derived(level + 1, After(k, t))}
                : k \in {i \in 2 .. Len(t) - 1 : t[i] \in Operators[level]}}

Grammar(t) == IF Derived(1, t) = {} THEN NoTree ELSE CHOOSE x \in Derived(1, t) : TRUE

----------------------------------------------------------------------------
(*                        Recursive descent                                *)

\* A read tree and the tokens after it.
Read(tree, rest) == [ok |-> TRUE, tree |-> tree, rest |-> rest]
Failed == [ok |-> FALSE, tree |-> NoTree, rest |-> << >>]

\* armS: [$] letter [$] digits, in as many tokens; the tokens left, or "no".
RefBody(t) ==
    CASE Peek(t) = "A1" -> Tail(t)
      [] Len(t) > 1 /\ t[1] = "F" /\ t[2] = "1" -> After(2, t)
      [] Len(t) > 2 /\ t[1] = "F" /\ t[2] = "$" /\ t[3] = "1" -> After(3, t)
      [] OTHER -> << "no" >>

ReadBody(kind, t) == IF RefBody(t) = << "no" >> THEN Failed ELSE Read(Leaf(kind), RefBody(t))

\* What stands after a ":" that armS takes to make any reference a range.
MaybeRange(one, range, r) ==
    IF ~ r.ok THEN r
    ELSE IF Peek(r.rest) = ":" THEN ReadBody(range, Tail(r.rest))
    ELSE Read(Leaf(one), r.rest)

\* A reference, a name or a qualified reference.
NamedStrict(t) ==
    IF SheetFirst(t)
    THEN IF Len(t) > 2 /\ t[3] \in Refs THEN Read(Leaf("qref"), After(3, t)) ELSE Failed
    ELSE IF Peek(t) \in Refs \cup {"AB"} THEN Read(Leaf(LeafOf[t[1]]), Tail(t)) ELSE Failed

\* armK: any identifier of two letters is a NAME, a qualifier takes a second
\* "!", and a qualified range is a primary.
NamedK(t) ==
    IF SheetFirst(t)
    THEN LET twice == Peek(After(2, t)) = "!"
             ref == After(IF twice THEN 3 ELSE 2, t)
             kind == IF twice THEN "second !" ELSE "qref"
         IN IF Peek(ref) \notin Refs THEN Failed
            ELSE IF Peek(After(1, ref)) # ":" THEN Read(Leaf(kind), Tail(ref))
            ELSE IF Peek(After(2, ref)) \in Refs THEN Read(Leaf("bare range"), After(3, ref)) ELSE Failed
    ELSE CASE Peek(t) = "$A1" /\ Peek(After(1, t)) = "!" ->
                  IF Peek(After(2, t)) \in Refs THEN Read(Leaf("lost qualifier"), After(3, t)) ELSE Failed
           [] Peek(t) \in Refs /\ Peek(After(1, t)) # "!" -> Read(Leaf("ref"), Tail(t))
           [] Peek(t) = "AB" -> Read(Leaf("name"), Tail(t))
           [] Peek(t) \in Functions \cup {"Ab"} -> Read(Leaf("loose name"), Tail(t))
           [] OTHER -> Failed

\* armS: marks are tokens of their own, any word of two letters is a NAME.
NamedS(t) ==
    IF SheetFirst(t) THEN MaybeRange("qref", "bare range", ReadBody("qref", After(2, t)))
    ELSE
    CASE Peek(t) = "$" -> ReadBody("ref", Tail(t))
      [] Peek(t) = "A1" ->
             LET rest == IF Peek(After(1, t)) = "$" THEN After(2, t) ELSE Tail(t)
             IN MaybeRange(IF rest = Tail(t) THEN "ref" ELSE "stray mark", "bare range", Read(NoTree, rest))
      [] Peek(t) = "AB" -> Read(Leaf("name"), Tail(t))
      [] Peek(t) \in {"Ab", "ab"} -> Read(Leaf("loose name"), Tail(t))
      [] OTHER -> Failed

Named(arm, t) == CASE arm = "armK" -> NamedK(t) [] arm = "armS" -> NamedS(t) [] OTHER -> NamedStrict(t)

\* The argument of an aggregate.
RangeArgStrict(t) ==
    CASE Peek(t) \in {"#REF!", "AB"} /\ ~ SheetFirst(t) -> Read(Leaf(LeafOf[t[1]]), Tail(t))
      [] RangeAt(0, t) -> Read(Leaf("range"), After(3, t))
      [] SheetFirst(t) /\ RangeAt(2, t) -> Read(Leaf("qrange"), After(5, t))
      [] OTHER -> Failed

\* armT: the ends are tokens of any kind, the second unqualified.
RangeArgT(t) ==
    LET first == NamedStrict(t)  second == NamedStrict(Tail(first.rest))
        ends == {first.tree.op, second.tree.op}
    IN IF Peek(t) = "#REF!" THEN Read(Leaf("#REF!"), Tail(t))
       ELSE IF ~ first.ok THEN Failed
       ELSE IF Peek(first.rest) # ":" THEN IF first.tree.op = "name" THEN first ELSE Failed
       ELSE IF ~ second.ok \/ second.tree.op = "qref" THEN Failed
       ELSE Read(Leaf(IF "name" \in ends THEN "name as end"
                      ELSE IF "qref" \in ends THEN "qrange" ELSE "range"), second.rest)

RangeArgK(t) ==
    LET End(x) == Peek(x) \in Refs \cup {"#REF!"}
    IN CASE SheetFirst(t) ->
              LET r == NamedK(t) IN IF r.tree # Leaf("bare range") THEN Failed ELSE
                  Read(Leaf(IF t[3] = "!" THEN "second !" ELSE "qrange"), r.rest)
         [] ~ SheetFirst(t) /\ Peek(t) \in Functions \cup {"AB", "Ab"} ->
              Read(Leaf(IF t[1] = "AB" THEN "name" ELSE "loose name"), Tail(t))
         [] RangeAt(0, t) -> Read(Leaf("range"), After(3, t))
         [] Peek(t) = "#REF!" /\ Peek(After(1, t)) # ":" -> Read(Leaf("#REF!"), Tail(t))
         [] Len(t) > 2 /\ End(t) /\ t[2] = ":" /\ End(After(2, t)) /\ ~ RangeAt(0, t) ->
              Read(Leaf("error as end"), After(3, t))
         [] OTHER -> Failed

RangeArgS(t) ==
    IF SheetFirst(t)
    THEN LET r == NamedS(t) IN IF r.tree = Leaf("bare range") THEN Read(Leaf("qrange"), r.rest) ELSE Failed
    ELSE CASE Peek(t) = "#REF!" -> Read(Leaf("#REF!"), Tail(t))
           [] Peek(t) = "A1" -> MaybeRange("lone ref", "range", Read(NoTree, Tail(t)))
           [] Peek(t) \in {"AB", "Ab", "ab"} -> NamedS(t)
           [] OTHER -> Failed

RangeArg(arm, t) ==
    CASE arm = "armK" -> RangeArgK(t) [] arm = "armS" -> RangeArgS(t)
      [] arm = "armT" -> RangeArgT(t) [] OTHER -> RangeArgStrict(t)

\* Reads ")" and makes the node of the parts read before it.
Close(op, parts, r) ==
    IF r.ok /\ Peek(r.rest) = ")" THEN Read(Node(op, parts), Tail(r.rest)) ELSE Failed

\* "depth" counts the parentheses the hybrid parser has open.
RECURSIVE Chain(_, _, _, _), Operand(_, _, _, _), Factor(_, _, _), Arguments(_, _, _, _)

\* The slip of a mutation: the right operand takes the rest of its level.
ChainRight(level, arm, depth, left) ==
    IF ~ left.ok \/ Peek(left.rest) \notin Operators[level] THEN left
    ELSE LET right == Operand(level, arm, depth, Tail(left.rest))
         IN IF right.ok THEN Read(Node(Head(left.rest), << left.tree, right.tree >>), right.rest) ELSE Failed

\* One level of binary operators; left is what the loop holds.
Chain(level, arm, depth, left) ==
    IF ~ left.ok \/ Peek(left.rest) \notin Operators[level] THEN left
    ELSE LET first == Tail(left.rest)
             right == IF level = 3 THEN Factor(arm, depth, first)
                      ELSE Operand(level + 1, arm, depth, first)
         IN IF ~ right.ok THEN Failed
            ELSE Chain(level, arm, depth, Read(Node(Head(left.rest), << left.tree, right.tree >>), right.rest))

Operand(level, arm, depth, t) ==
    Chain(level, arm, depth,
          IF level = 3 THEN Factor(arm, depth, t) ELSE Operand(level + 1, arm, depth, t))

\* Expressions apart by commas, read after those in "parts".
Arguments(arm, depth, parts, t) ==
    LET x == Operand(1, arm, depth, t)
    IN IF ~ x.ok THEN [parts |-> parts, last |-> x]
       ELSE IF Peek(x.rest) = "," THEN Arguments(arm, depth, Append(parts, x.tree), Tail(x.rest))
       ELSE [parts |-> Append(parts, x.tree), last |-> x]

\* The slip of a mutation: an IF may go without its third argument.
CallArgsShort(arm, depth, name, t) ==
    LET list == Arguments(arm, depth, << >>, t)
    IN IF Len(list.parts) <= 3 THEN Close(name, list.parts, list.last) ELSE Failed

\* The list of a call; armK leaves its length to the evaluator but for IF.
CallArgs(arm, depth, name, t) ==
    LET list == Arguments(arm, depth, << >>, t)  n == Len(list.parts)
        fits == IF name = "IF" THEN n = 3 ELSE name = "CONCAT" \/ n = 1 \/ arm = "armK"
    IN IF arm = "armK" /\ name # "IF" /\ Peek(t) = ")" THEN Read(Leaf(name), Tail(t))
       ELSE IF fits THEN Close(name, list.parts, list.last) ELSE Failed

CallOf(arm, depth, name, t) ==
    CASE name = "NOW" -> Close("NOW", << >>, Read(NoTree, t))
      [] name = "SUM" -> LET arg == RangeArg(arm, t) IN Close("SUM", << arg.tree >>, arg)
      [] OTHER -> CallArgs(arm, depth, name, t)

Grouped(arm, depth, t) ==
    LET inner == Operand(1, arm, depth + 1, t)
    IN IF ~ inner.ok \/ Peek(inner.rest) # ")" \/ (arm = "hybrid" /\ depth + 1 > MAX_PAREN_DEPTH)
       THEN Failed ELSE Read(inner.tree, Tail(inner.rest))

Factor(arm, depth, t) ==
    CASE Peek(t) = "-" -> LET x == Factor(arm, depth, Tail(t))
                          IN IF x.ok THEN Read(Node("neg", << x.tree >>), x.rest) ELSE Failed
      [] Peek(t) \in {"1", "str", "close", "#REF!"} -> Read(Leaf(LeafOf[t[1]]), Tail(t))
      [] Peek(t) = "(" -> Grouped(arm, depth, Tail(t))
      [] Peek(t) \in Functions /\ Peek(After(1, t)) = "(" -> CallOf(arm, depth, t[1], After(2, t))
      [] OTHER -> Named(arm, t)

----------------------------------------------------------------------------
(*                        One text, every parser                           *)

\* Every parser reads to the end of the text; armA makes a malformed word a
\* token T_ERROR, which ends the text.
AtEnd(arm, rest) == Peek(rest) = "EOF" \/ (arm = "armA" /\ Peek(rest) = "bad")

Whole(arm, t) ==
    LET r == Operand(1, arm, 0, t) IN IF r.ok /\ AtEnd(arm, r.rest) THEN r.tree ELSE NoTree

\* armK counts parentheses over the characters of the text, strings
\* included, and refuses the text when more are closed than open.
BoundsK(t) ==
    LET Count(K, i) == Cardinality({k \in 1 .. i : t[k] \in K})
    IN \A i \in 1 .. Len(t) : Count({")", "close"}, i) <= Count({"("}, i)

\* The lexer of armS takes the marks of a reference apart.
LexedS(t) ==
    LET Lexed == [i \in 1 .. Len(t) |-> CASE t[i] = "$A1" -> << "$", "A1" >> [] t[i] = "A$1" -> << "F", "$", "1" >>
                                          [] OTHER -> << t[i] >>]
    IN FlattenSeq(Lexed)

\* armSN, armA, rerun and hybrid read only texts of the one-sheet language.
Tree(arm, t) ==
    IF arm = "armK" /\ ~ BoundsK(t) THEN NoTree
    ELSE Whole(arm, IF arm = "armS" THEN LexedS(t) ELSE t)

----------------------------------------------------------------------------
(*                     Operator precedence: armB                           *)

\* Function calls become one token first.
Call == << "SUM", "(", "A1", ":", "A1", ")" >>

RECURSIVE CallsParsed(_)
CallsParsed(t) ==
    IF t = << >> THEN << >>
    ELSE IF Head(t) # "SUM" THEN << Head(t) >> \o CallsParsed(Tail(t))
    ELSE IF IsPrefix(Call, t) THEN << "call" >> \o CallsParsed(After(6, t))
    ELSE << "bad" >>

OP_PREC(op) ==
    CASE op \in {"+", "-"} -> 1 [] op = "*" -> 2 [] op = "<" -> 3 [] OTHER -> 0

Balanced(t) ==
    LET depth(i) == Cardinality({k \in 1 .. i : t[k] = "("}) - Cardinality({k \in 1 .. i : t[k] = ")"})
    IN (\A i \in 1 .. Len(t) : depth(i) >= 0) /\ depth(Len(t)) = 0

\* A minus after one of these, or at the start, is unary.
IsUnary(prev) == prev \in Binary \cup {"(", "call", "start"}

\* The pairs of tokens the check before the main loop lets stand.
MayFollow(prev, curr) ==
    \/ curr = "-" /\ IsUnary(prev)
    \/ /\ ~ (prev \in Binary /\ curr \in Binary)
       /\ ~ (prev \in {"1", "A1", ")"} /\ curr \in {"1", "A1"})
       /\ curr = "call" => IsUnary(prev)

\* The top operator takes its operands from the output.
Pop(s) ==
    LET top == Last(s.ops)  n == IF top = "neg" THEN 1 ELSE 2  size == Len(s.out)
    IN IF ~ s.ok \/ size < n THEN [s EXCEPT !.ok = FALSE]
       ELSE [s EXCEPT !.ops = Front(@),
                      !.out = Append(SubSeq(@, 1, size - n),
                                     Node(top, SubSeq(@, size - n + 1, size)))]

\* Pop the operators that bind at least as tightly as "prec".  A unary
\* minus is no entry of OP_PREC and binds as 0.
RECURSIVE PopDownTo(_, _)
PopDownTo(prec, s) ==
    IF s.ok /\ s.ops # << >> /\ Last(s.ops) # "(" /\ OP_PREC(Last(s.ops)) >= prec
    THEN PopDownTo(prec, Pop(s)) ELSE s

OperandNode(tok) == IF tok = "call" THEN Node("SUM", << Leaf("range") >>) ELSE Leaf(LeafOf[tok])

PushOperator(s, op) == [s EXCEPT !.ops = Append(@, op)]

Take(s, prev, tok) ==
    CASE tok \in {"1", "A1", "call"} -> [s EXCEPT !.out = Append(@, OperandNode(tok))]
      [] tok = "-" /\ IsUnary(prev) -> PushOperator(s, "neg")
      [] tok \in Binary /\ ~ (tok = "-" /\ IsUnary(prev)) -> PushOperator(PopDownTo(OP_PREC(tok), s), tok)
      [] tok = "(" -> PushOperator(s, "(")
      [] tok = ")" -> LET inner == PopDownTo(0, s) IN [inner EXCEPT !.ops = Front(@)]
      [] OTHER -> [s EXCEPT !.ok = FALSE]

TreeB(t) ==
    LET ts == CallsParsed(t)
        Step(s, i) == IF s.ok THEN Take(s, IF i = 1 THEN "start" ELSE ts[i - 1], ts[i]) ELSE s
        start == [out |-> << >>, ops |-> << >>, ok |-> TRUE]
        end == PopDownTo(0, FoldLeftDomain(Step, start, ts))
    IN IF /\ "bad" \notin ToSet(ts) /\ Balanced(ts)
          /\ \A i \in 2 .. Len(ts) : MayFollow(ts[i - 1], ts[i])
          /\ end.ok /\ Len(end.out) = 1
       THEN end.out[1] ELSE NoTree

----------------------------------------------------------------------------
\* Whoever writes a formula: a text is one of Beginnings and grows by pieces.

PlainTokens == {"1", "+", "*", "-", "<", "(", ")"}
V1Tokens == PlainTokens \cup {"A1", ":", "SUM", "bad"}
Beginnings == {<< >>, << "SUM", "(" >>, << "LEN", "(" >>, << "IF", "(", "1", "," >>}
Pieces ==
    {<< k >> : k \in (V1Tokens \ {"*"}) \cup Functions \cup Identifiers \cup Refs \cup
                     {"str", "close", "#REF!", "!", ","}}
    \cup {Call, << "*" >>, << "A1", ":" >>, << "ab", "!" >>}

Tokens == FlattenSeq(text)
V1(t) == ToSet(t) \subseteq V1Tokens

Extend(piece) ==
    LET t == Tokens \o piece
    IN /\ Len(text) <= (CASE ToSet(t) \subseteq PlainTokens -> MaxPlain
                          [] V1(t) /\ ~ ToSet(t) \subseteq PlainTokens -> MaxV1
                          [] OTHER -> MaxXl)
       /\ text' = Append(text, piece)

----------------------------------------------------------------------------
(*                               Properties                                *)

\* Operands that stand side by side, for armB also a call and a minus.
Adjacent(t) ==
    LET ts == CallsParsed(t)
    IN \E i \in 1 .. Len(ts) - 1 :
          \/ ts[i] \in {"1", "A1", "call", ")"} /\ ts[i + 1] \in {"1", "A1", "call", "("}
          \/ ts[i] = "call" /\ ts[i + 1] = "-"

\* How deep the parentheses other than a call's are nested.
Nesting(t) ==
    LET p == SelectSeq(CallsParsed(t), LAMBDA k : k \in {"(", ")"})
        depth(i) == 2 * Cardinality({k \in 1 .. i : p[k] = "("}) - i
    IN Max({0} \cup {depth(i) : i \in 1 .. Len(p)})

UpToBad(t) ==
    IF "bad" \in ToSet(t) THEN SubSeq(t, 1, Min({i \in 1 .. Len(t) : t[i] = "bad"}) - 1) ELSE t

\* Where the precedences of armB and of R3 cannot differ: a comparison is
\* the only operator, and no operator follows a unary minus.
PrecedenceFree(t) ==
    LET ts == CallsParsed(t)
        unary == {i \in 1 .. Len(ts) : ts[i] = "-" /\ (i = 1 \/ IsUnary(ts[i - 1]))}
    IN /\ "<" \in ToSet(ts) => Binary \cap ToSet(ts) = {"<"}
       /\ \A i \in unary : \A k \in i + 1 .. Len(ts) : ts[k] \notin Binary

\* Of the one-sheet engines armSN and rerun derive every text as R3 does;
\* hybrid too, up to its depth of parentheses; armA reads a text as if it
\* ended at its first malformed word; armB refuses what R3 refuses and reads
\* as R3 does what it derives where its precedences do not matter, but for
\* operands side by side.
ParsersReadTheGrammar ==
    LET t == Tokens  tree == Grammar(t)
        Due(arm) == CASE arm = "hybrid" /\ Nesting(t) > MAX_PAREN_DEPTH -> NoTree
                      [] arm = "armA" /\ UpToBad(t) # t -> Grammar(UpToBad(t))
                      [] OTHER -> tree
        Fits(read) == CASE tree = NoTree -> read = NoTree \/ Adjacent(t)
                        [] PrecedenceFree(t) /\ ~ Adjacent(t) -> read = tree
                        [] OTHER -> TRUE
    IN V1(t) =>
       /\ \A arm \in {"armSN", "rerun", "hybrid", "armA"} : Tree(arm, t) = Due(arm)
       /\ Fits(TreeB(t))

\* Nodes no derivation of R3 has.
RECURSIVE Foreign(_)
Foreign(tree) ==
    \/ tree.op \in {"loose name", "bare range", "second !", "lost qualifier", "stray mark",
                    "lone ref", "name as end", "error as end"}
    \/ tree.op = "LEN" /\ Len(tree.parts) # 1
    \/ tree.op = "CONCAT" /\ tree.parts = << >>
    \/ \E x \in ToSet(tree.parts) : Foreign(x)

\* The graders' evaluator derives every text of the workbook language as R3
\* does.  What the other engines derive too is theirs alone by a node R3
\* does not have; what they refuse holds, for armK, a string with a
\* parenthesis, for armS, a mark before a row, in a range or after a qualifier.
XlParsersReadTheGrammar ==
    LET t == Tokens  tree == Grammar(t)
        SplitRef == \E i \in 1 .. Len(t) - 1 : t[i] = "F" /\ t[i + 1] = "1"
        Marked == \E i \in 1 .. Len(t) - 1 :
                      /\ t[i + 1] = "$A1"
                      /\ t[i] \in {"!", ":"} \/ (t[i] = "(" /\ i > 1 /\ t[i - 1] = "SUM")
        Excused(arm) == CASE arm = "armK" -> "close" \in ToSet(t)
                          [] arm = "armS" -> "A$1" \in ToSet(t) \/ Marked
                          [] OTHER -> FALSE
        Agrees(arm, read) ==
            IF tree = NoTree THEN read = NoTree \/ (arm # "reference" /\ Foreign(read))
                             ELSE read = tree \/ Excused(arm)
    IN \A arm \in {"reference", "armT", "armK", "armS"} :
           (arm = "armS" /\ SplitRef) \/ Agrees(arm, Tree(arm, t))
=============================================================================
