CONSTANTS
    Grid <- Column
    Texts <- ChainTexts
    Arms = {"hybrid"}
    Empty = Empty
    NoValue = NoValue
    NoDeps = NoDeps
    NoClosure = NoClosure
    MaxChain = 256
    MaxInt = 1000
SPECIFICATION Spec
INVARIANT EveryAnswerNaive
