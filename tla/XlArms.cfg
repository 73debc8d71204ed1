CONSTANTS
    s1 = s1  s2 = s2  nm = nm  one = one  both = both  onS2 = onS2
    Arms = {"thin", "solo"}
    Sheets = {s1, s2}
    Addrs <- Column3
    NameIds = {nm}
    Raws <- ArmRaws
    Targets = {both}
    Empty = Empty
    Unbound = Unbound
    NoSheet = NoSheet
    NoValue = NoValue
    QualifierOf <- MCQualifierOf
    TargetCells <- MCTargetCells
    CopyText <- ShiftedText
    Workbooks <- ArmWorkbooks
    MaxInt = 1000
    MaxLen = 100
    MaxOps = 2
SPECIFICATION PSpec
INVARIANTS AnswersAreNaive WalksTheLine LinksAreCurrent StartsOnlyNeeded
PROPERTY EditBounds
