CONSTANTS
    Server = {a, b, c}
    Nobody = Nobody
    Index <- MCIndex
    InitDisks <- RebootedDisks
    Campaigners = {a, b}
    MaxTerm = 3
    MaxElections = 2
    MaxBeats = 1
    MaxLosses = 0
    MaxCrashes = 0
    MaxPreempted = 1
SPECIFICATION Spec
CHECK_DEADLOCK FALSE
SYMMETRY Symmetry
INVARIANTS TypeOK TermsAreWon HungOnlyByRefusal LeadershipIsAnswered
PROPERTIES TermFallsOnlyMidway TermsSpec RolesSpec
