CONSTANTS
    s1 = s1  s2 = s2  nm = nm  one = one  both = both  onS2 = onS2
    Arms = {"solo"}
    Sheets = {s1}
    Addrs <- Column2
    NameIds = {}
    Raws <- StaleRaws
    Targets = {}
    Empty = Empty
    Unbound = Unbound
    NoSheet = NoSheet
    NoValue = NoValue
    QualifierOf <- MCQualifierOf
    TargetCells <- MCTargetCells
    CopyText <- ShiftedText
    Workbooks <- StaleWorkbooks
    MaxInt = 1000
    MaxLen = 100
    MaxOps = 2
SPECIFICATION AnySpec
INVARIANT EveryAnswerNaive
