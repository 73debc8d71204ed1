CONSTANTS
    Keys = {k1, k2}
    Values = {v1, v2}
    None = None
    Deleted = Deleted
    Absent = Absent
    MaxNest = 3
SPECIFICATION KSpec
INVARIANTS CountIsExact GhostInv ReadsTop ITypeOK IndexIsExact
PROPERTIES ImplementsSnapshots CommitKeepsView CommitTerminates
