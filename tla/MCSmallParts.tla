---------------------------- MODULE MCSmallParts ----------------------------
(***************************************************************************)
(* Instances of the small parts: interval sets, subcut, the division of    *)
(* the engines, their parsers, the mutation drivers and the session loop.  *)
(* A behaviour is about one of them and leaves the others as they begin.   *)
(***************************************************************************)
EXTENDS IntervalSet, Subcut, FloatDivision, Parsers, MutationSweep, SessionLoop

VARIABLE about

MCPoints == 0 .. 5
MCDeltas == {-1, 1}

\* Two mutations of one file and two of another; 1, 2 and 4 keep the size.
MCSpecPath == <<"sheet", "sheet", "evaluator", "evaluator">>

Times == 0 .. 2
MCCueLists ==
    {[i \in 1 .. n |-> [index |-> i, start |-> span[i][1], end |-> span[i][2], text |-> << i >>]]
        : n \in {3}, span \in [1 .. 3 -> Times \X Times]}

FirstCues == [i \in 1 .. 3 |-> [index |-> i, start |-> 0, end |-> 0, text |-> << i >>]]
FirstStamp == Text(0, 0, 0, 0)

\* Texts of every field at its limits, and the canonical ones of milliseconds
\* on both sides of every carry.
MCStamps ==
    {t \in [h : {0, 1, 99, 100}, m : {0, 59, 60}, s : {0, 59, 60}, ms : {0, 1, 999},
            width : 1 .. 3, sep : {",", "."}] : t.width >= Digits(t.h)}

Operands == -70 .. 70
DivisionInit ==
    IF about = "division" THEN dividend \in Operands /\ divisor \in Operands \ {0}
                          ELSE dividend = 0 /\ divisor = 1

Init ==
    /\ about \in {"intervals", "cues", "lines", "stamps", "division", "formula", "sweep", "loop"}
    /\ IntervalInit /\ (about # "intervals" => library = "A")
    /\ SubcutInit /\ (about # "cues" => cues = FirstCues) /\ (about # "stamps" => stamp = FirstStamp)
    /\ DivisionInit /\ SweepInit /\ LoopInit
    /\ text \in {<< b >> : b \in IF about = "formula" THEN Beginnings ELSE {<< >>}}
    /\ about # "sweep" => driver = "xl"

vars == << about, intervalVars, subcutVars, divisionVars, text, sweepVars, loopVars >>

Next ==
    /\ UNCHANGED << about, divisionVars >>
    /\ \/ /\ about = "intervals" /\ IntervalNext
          /\ UNCHANGED << subcutVars, text, sweepVars, loopVars >>
       \/ /\ \/ about = "cues" /\ CueStep
             \/ about = "lines" /\ \E line \in LineKinds : Feed(line)
          /\ UNCHANGED << intervalVars, text, sweepVars, loopVars >>
       \/ /\ about = "formula" /\ \E piece \in Pieces : Extend(piece)
          /\ UNCHANGED << intervalVars, subcutVars, sweepVars, loopVars >>
       \/ /\ about = "sweep" /\ SweepNext
          /\ UNCHANGED << intervalVars, subcutVars, text, loopVars >>
       \/ /\ about = "loop" /\ LoopNext
          /\ UNCHANGED << intervalVars, subcutVars, text, sweepVars >>

\* The driver's own steps are taken; nothing else needs to happen.
DriverGoesOn ==
    /\ about = "sweep" /\ DriverStep
    /\ UNCHANGED << about, intervalVars, subcutVars, divisionVars, text, loopVars >>

Spec == Init /\ [][Next]_vars /\ WF_vars(DriverGoesOn)

\* Liveness of the parts that have a driver.
SweepComesToItsEnd == about = "sweep" => SweepEnds
=============================================================================
