CONSTANTS
    Leader = a
    Peer = {b, c, d, e}
    Set = {r1}
    Get = {}
    OldSet = r0
    Past <- MCPast
    Key = {k1}
    KeyOf <- SameKey
    Term = 2
    None = None
    MaxIndex = 1
    InitNext = {1}
    InitNodes <- FreshNodes
    Flaky = {b, c, d, e}
    MaxBeats = 0
SPECIFICATION FairSpec
CHECK_DEADLOCK FALSE
INVARIANTS HungOnlyByLateSuccess
PROPERTY RequestAnswered
