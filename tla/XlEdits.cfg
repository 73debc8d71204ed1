CONSTANTS
    s1 = s1  s2 = s2  nm = nm  one = one  both = both  onS2 = onS2
    Sheets = {s1}
    Addrs <- Column3
    NameIds = {nm}
    Raws <- EditRaws
    Targets = {both}
    Empty = Empty
    Unbound = Unbound
    NoSheet = NoSheet
    NoValue = NoValue
    NoClosure = NoClosure
    QualifierOf <- MCQualifierOf
    TargetCells <- MCTargetCells
    CopyText <- ShiftedText
    Workbooks <- EditWorkbooks
    MaxInt = 9
    MaxLen = 3
    MaxReach = 100
    MaxOps = 2
SPECIFICATION AnySpec
INVARIANT AnswersAreNaive
PROPERTY ExactInvalidation
