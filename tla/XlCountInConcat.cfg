CONSTANTS
    s1 = s1  s2 = s2  nm = nm  one = one  both = both  onS2 = onS2
    Sheets = {s1}
    Addrs <- Column2
    NameIds = {}
    Raws <- CountRaws
    Targets = {}
    Empty = Empty
    Unbound = Unbound
    NoSheet = NoSheet
    NoValue = NoValue
    NoClosure = NoClosure
    QualifierOf <- MCQualifierOf
    TargetCells <- MCTargetCells
    CopyText <- ShiftedText
    Workbooks <- CountWorkbooks
    MaxInt = 9
    MaxLen = 3
    MaxReach = 100
    MaxOps = 2
SPECIFICATION AnySpec
INVARIANT AnswersAreNaive
