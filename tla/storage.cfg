CONSTANTS
    Request = {r1, r2}
    Other = Other
    None = None
    MaxIndex = 2
    MaxTerm = 2
    Terms = {2}
    OwnTerms = {2}
    Ends = {0, 2}
    MaxPads = 1
    Joins = {1}
    Commits = {2}
    MaxEvents = 2
SPECIFICATION Spec
SYMMETRY Symmetry
CHECK_DEADLOCK FALSE
INVARIANTS TypeOK LastIsNewest LastWasWritten IndexReservedOnce AckedIsStored NextWithinCommit
PROPERTY CutIsComplete
