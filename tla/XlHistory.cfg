CONSTANTS
    s1 = s1  s2 = s2  a1 = a1  a2 = a2
    lit = lit  refUp = refUp  refDown = refDown
    here = here  onS1 = onS1  onS2 = onS2
    Sheets = {s1, s2}
    Addrs = {a1, a2}
    NameIds = {nm}
    Raws = {lit, refUp, refDown}
    Targets = {here, onS2}
    Empty = Empty
    Unbound = Unbound
    NoSheet = NoSheet
    QualifierOf <- MCQualifierOf
    CopyText <- MCCopyText
    MaxOps = 4
    MaxEvals = 1
SPECIFICATION WSpec
INVARIANTS TypeOK HistoryInv AlwaysWellFormed SavedIsLast ReferenceAgrees
PROPERTIES ImplementsTimeLine CountsNeverDrop
