----------------------------- MODULE MCXlTexts ------------------------------
(***************************************************************************)
(* Columns of cells, formulas and workbooks to make instances from: one or *)
(* two sheets, one name.  Rows are marked with a dollar in all references  *)
(* but those of RelRef.                                                    *)
(***************************************************************************)
EXTENDS XlFormula

CONSTANTS s1, s2, nm, one, both, onS2   \* two sheets, a name and its targets

Column(n) == {1} \X (1 .. n)
Column1 == Column(1)
Column2 == Column(2)
Column3 == Column(3)
Column4 == Column(4)
Column5 == Column(5)

Fixed == << TRUE, TRUE >>
Free == << FALSE, FALSE >>

Lit(n) == <<"int", n>>
Ref(r) == <<"ref", NoSheet, << 1, r >>, Fixed>>
RelRef(r) == <<"ref", NoSheet, << 1, r >>, Free>>
QRef(s, r) == <<"ref", s, << 1, r >>, Fixed>>
Rng(q, a, b) == <<"range", q, << 1, a >>, Fixed, << 1, b >>, Fixed>>
Name == <<"name", nm>>
Op(f, args) == <<"op", f, args>>
Agg(f, arg) == <<"agg", f, arg>>
Text(node) == <<"=", node>>

MCQualifierOf(t) == IF t = onS2 THEN s2 ELSE NoSheet
MCTargetCells(t) == IF t = both THEN << << 1, 1 >>, << 1, 2 >> >> ELSE << << 1, 1 >>, << 1, 1 >> >>

NoNames == [s \in Sheets |-> BlankNames]
Book(there, sheets, contents) ==
    [present |-> there, order |-> sheets, clock |-> 0, names |-> NoNames, cells |-> contents]

\* One sheet s1 with the given contents.
OnS1(contents) ==
    {Book({s1}, << s1 >>, [s \in Sheets |-> IF s = s1 THEN c ELSE BlankCells]) : c \in contents}
=============================================================================
