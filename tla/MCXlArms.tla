------------------------------ MODULE MCXlArms ------------------------------
(***************************************************************************)
(* Instances of XlArms.  "sheets": two sheets, one of which comes and      *)
(* goes, that refer to each other.  "column": a column of three cells on   *)
(* one sheet with a name, the clock, a branch and relative references.     *)
(* Confined keeps each cell to the texts of its own.                       *)
(***************************************************************************)
EXTENDS XlArms, MCXlTexts

VARIABLE about

SheetTexts(id) ==
    CASE id[1] = s1 /\ id[2][2] = 1 -> {Text(QRef(s2, 1)), Text(Agg("COUNT", Rng(s2, 1, 2)))}
      [] id[1] = s1 /\ id[2][2] = 2 -> {Lit(1), Text(QRef(s2, 1))}
      [] id[1] = s2 /\ id[2][2] < 3 -> {Lit(1), Text(QRef(s1, 2))}
      [] OTHER -> {}

Clocked == Text(Op("-", << Agg("SUM", Name), <<"now">> >>))
Branching == Text(Op("if", << Ref(3), Op("+", << Ref(2), Ref(2) >>), Ref(1) >>))
ColumnTexts(id) ==
    CASE id[1] = s1 /\ id[2][2] = 1 ->
            {Text(RelRef(2)), Branching}
      [] id[1] = s1 /\ id[2][2] = 2 -> {Text(RelRef(3)), Clocked}
      [] id[1] = s1 /\ id[2][2] = 3 -> {Lit(0), Lit(1), Text(RefError)}
      [] OTHER -> {}

ArmRaws == UNION {SheetTexts(id) \cup ColumnTexts(id) : id \in Cells}
           \cup {Text(RelRef(r)) : r \in 1 .. 3}
ArmWorkbooks ==
    OnS1({<< 1, 1 >> :> v @@ << 1, 2 >> :> Lit(1) @@ << 1, 3 >> :> Empty :
              v \in SheetTexts(<< s1, << 1, 1 >> >>)}) \cup
    OnS1({<< 1, 1 >> :> Branching @@ << 1, 2 >> :> Clocked @@ << 1, 3 >> :> Lit(0)})

\* A formula over a number.
StaleRaws == {Lit(1), Lit(2), Text(Ref(2))}
StaleWorkbooks == OnS1({<< 1, 1 >> :> Text(Ref(2)) @@ << 1, 2 >> :> Lit(1)})

Confined ==
    past <= 1 /\
    CASE about = "sheets" ->
            /\ clock = 0 /\ names = NoNames
            /\ \A id \in Cells : Raw(id) \in SheetTexts(id) \cup {Empty}
      [] about = "column" ->
            /\ present = {s1}
            /\ \A id \in Cells : Raw(id) \in ColumnTexts(id) \cup {Empty}

PInit == about \in {"sheets", "column"} /\ AInit /\ Confined

\* undo() and redo() go wherever the engine takes them.
Walked ==
    /\ Len(journal') + Len(redo') = Len(journal) + Len(redo)
    /\ \/ Len(journal') < Len(journal)
       \/ \E e \in ToSet(redo) : journal' = Append(journal, e)

PSpec == PInit /\ [][ANext /\ UNCHANGED about /\ (Walked \/ Confined')]_<< avars, about >>

AnySpec == /\ about = "anything" /\ AInit
           /\ [][ANext /\ UNCHANGED about]_<< avars, about >>
=============================================================================
