CONSTANTS
    Server = {a, b, c}
    Nobody = Nobody
    Index <- MCIndex
    InitDisks <- FreshDisks
    Campaigners = {a, b, c}
    MaxTerm = 1
    MaxElections = 2
    MaxBeats = 0
    MaxLosses = 0
    MaxCrashes = 0
    MaxPreempted = 0
SPECIFICATION Spec
CHECK_DEADLOCK FALSE
SYMMETRY Symmetry
INVARIANT ElectionSafety
