CONSTANTS
    Grid <- Column
    Texts <- MCTexts
    Arms = {"A", "B", "SN", "hybrid", "rerun"}
    Empty = Empty
    NoValue = NoValue
    NoDeps = NoDeps
    NoClosure = NoClosure
    MaxChain = 256
    MaxInt = 1000
SPECIFICATION Spec
INVARIANTS LinksAreCurrent AnswersAreNaive StartsOnlyNeeded
PROPERTY EditBounds
