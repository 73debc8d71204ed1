CONSTANTS
    s1 = s1  s2 = s2  nm = nm  one = one  both = both  onS2 = onS2
    Sheets = {s1}
    Addrs <- Column5
    NameIds = {}
    Raws <- BranchRaws
    Targets = {}
    Empty = Empty
    Unbound = Unbound
    NoSheet = NoSheet
    NoValue = NoValue
    NoClosure = NoClosure
    QualifierOf <- MCQualifierOf
    TargetCells <- MCTargetCells
    CopyText <- ShiftedText
    Workbooks <- BranchWorkbooks
    MaxInt = 9
    MaxLen = 3
    MaxReach = 3
    MaxOps = 1
SPECIFICATION AnySpec
PROPERTY ConfinedStaleness
