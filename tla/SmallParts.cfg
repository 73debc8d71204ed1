SPECIFICATION Spec
CONSTANTS
    Points <- MCPoints
    CueLists <- MCCueLists
    Stamps <- MCStamps
    Deltas <- MCDeltas
    MaxTime = 3
    MaxLines = 7
    Precision = 5
    MAX_PAREN_DEPTH = 1
    MaxPlain = 5
    MaxV1 = 4
    MaxXl = 3
    Paths = {"sheet", "evaluator"}
    SpecCount = 4
    SpecPath <- MCSpecPath
    Killed = {1, 3}
    Hangs = {4}
    Resized = {3}
    MaxSecond = 1
    MAX_SESSIONS = 3
    Cap = 2
    MaxHour = 3
    MaxLaunches = 2
INVARIANT ListsAreTheRuns
INVARIANT MergeIsChains
INVARIANT ReadersAgree
INVARIANT DivisionExactness
INVARIANT ParsersReadTheGrammar
INVARIANT XlParsersReadTheGrammar
INVARIANT VerdictsAreTrue
INVARIANT SourceRestored
INVARIANT LoopIsHonest
PROPERTY SweepComesToItsEnd
CHECK_DEADLOCK FALSE
