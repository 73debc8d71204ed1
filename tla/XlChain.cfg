CONSTANTS
    s1 = s1  s2 = s2  nm = nm  one = one  both = both  onS2 = onS2
    Sheets = {s1}
    Addrs <- Column4
    NameIds = {}
    Raws <- ChainRaws
    Targets = {}
    Empty = Empty
    Unbound = Unbound
    NoSheet = NoSheet
    NoValue = NoValue
    NoClosure = NoClosure
    QualifierOf <- MCQualifierOf
    TargetCells <- MCTargetCells
    CopyText <- ShiftedText
    Workbooks <- ChainWorkbooks
    MaxInt = 9
    MaxLen = 3
    MaxReach = 2
    MaxOps = 1
SPECIFICATION AnySpec
INVARIANT ConfinedDamage
