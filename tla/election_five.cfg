CONSTANTS
    Server = {a, b, c, d, e}
    Nobody = Nobody
    Index <- MCIndex
    InitDisks <- FreshDisks
    Campaigners = {a}
    MaxTerm = 1
    MaxElections = 1
    MaxBeats = 0
    MaxLosses = 2
    MaxCrashes = 1
    MaxPreempted = 0
SPECIFICATION VoteFairSpec
CHECK_DEADLOCK FALSE
INVARIANTS HungOnlyByRefusal LeadershipIsAnswered
PROPERTIES RolesSpec ElectionEnds
