----------------------------- MODULE MCXlEngine -----------------------------
(***************************************************************************)
(* Instances of XlEngine: a column of cells on one or two sheets, and a    *)
(* pool of texts for each question.  Rows are marked with a dollar where   *)
(* copy() is not what a run is about.                                      *)
(***************************************************************************)
EXTENDS XlEngine, MCXlTexts

\* Cycles, both branches of IF, errors and ranges, on three cells.
CycleRaws == {Lit(1), Text(Ref(2)), Text(Op("if", << Ref(1), Ref(2), Ref(3) >>)),
              Text(Agg("SUM", Rng(NoSheet, 2, 3))),
              Text(Op("/", << Lit(1), Ref(1) >>))}
CycleWorkbooks == OnS1({c \in [Addrs -> CycleRaws] : c[<< 1, 3 >>] \in {Lit(1), Text(Ref(2))}})

\* References, a name and a range across two sheets, one of which comes and goes,
\* on two cells each.
SheetRaws == {Lit(1), Text(QRef(s2, 1)), Text(Agg("SUM", Name))}
TwoRows(c) == [a \in Addrs |-> IF a \in Column2 THEN c[a] ELSE Empty]
RefersAndSums == TwoRows(<< 1, 1 >> :> Text(QRef(s2, 1)) @@ << 1, 2 >> :> Text(Agg("SUM", Name)))
SheetWorkbooks ==
    OnS1({RefersAndSums}) \cup
    {Book({s1, s2}, << s1, s2 >>,
          s1 :> RefersAndSums @@ s2 :> TwoRows(<< 1, 1 >> :> Lit(1) @@ << 1, 2 >> :> Empty))}

\* Formulas that read the clock, directly or through cells and a name, and
\* relative references, which copy() moves; also from a new workbook.
EditRaws == {Text(<<"now">>), Text(Agg("MAX", Name)), <<"long", Ref(1)>>, Text(RefError)}
            \cup {Text(RelRef(r)) : r \in 1 .. 3}
EditWorkbooks ==
    OnS1({<< 1, 1 >> :> Text(RelRef(2)) @@ << 1, 2 >> :> Text(RelRef(3)) @@ << 1, 3 >> :> Text(<<"now">>)})
    \cup {Book({}, << >>, [s \in Sheets |-> BlankCells])}

\* COUNT() within CONCAT() of the cell that reads it.
CountRaws == {Text(Ref(2)),
              Text(Op("CONCAT", << Agg("COUNT", Rng(NoSheet, 1, 1)) >>))}
CountWorkbooks == OnS1({BlankCells})

\* A chain longer than the limit of 2.
ChainWorkbooks == OnS1({[a \in Addrs |-> IF a[2] < 4 THEN Text(Ref(a[2] + 1)) ELSE Lit(1)]})
ChainRaws == {Lit(1)} \cup {Text(Ref(r)) : r \in 2 .. 4}

\* A branch of an IF whose cells are found after as many as the limit of 3.
Branches == << Text(Op("if", << Ref(2), Ref(3), Ref(4) >>)), Lit(1), Text(Ref(5)),
               Text(Lit(1)), Text(Lit(2)) >>
BranchWorkbooks == OnS1({[a \in Addrs |-> Branches[a[2]]]})
BranchRaws == ToSet(Branches)

----------------------------------------------------------------------------
\* One run over two of them, cells of one sheet in a cycle and two sheets that
\* refer to each other: which of the two a behaviour is about is chosen at the
\* start, and Confined keeps it to it.
VARIABLE about
BothRaws == CycleRaws \cup SheetRaws
BothWorkbooks == CycleWorkbooks \cup SheetWorkbooks

Confined ==
    CASE about = "cycles" ->
            /\ present = {s1} /\ clock = 0 /\ past + Len(journal) <= 1
            /\ \A a \in Addrs : cells[s1][a] \in CycleRaws
      [] about = "sheets" ->
            /\ clock = 0
            /\ \A s \in Sheets : \A a \in Addrs :
                  cells[s][a] \in CASE a \notin Column2 -> {Empty}
                                    [] s = s2 /\ a[2] = 2 -> {Lit(1), Empty}
                                    [] s = s2 /\ a[2] = 1 -> {Lit(1), Text(Agg("SUM", Name)), Empty}
                                    [] OTHER -> SheetRaws \cup {Empty}

PInit == about \in {"cycles", "sheets"} /\ EInit /\ Confined
PSpec == PInit /\ [][ENext /\ UNCHANGED about /\ Confined']_<< evars, about >>

AnySpec == /\ about = "anything" /\ EInit
           /\ [][ENext /\ UNCHANGED about]_<< evars, about >>
=============================================================================
