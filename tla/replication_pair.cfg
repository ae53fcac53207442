CONSTANTS
    Leader = a
    Peer = {b}
    Set = {r1, r2}
    Get = {}
    OldSet = r0
    Past <- MCPast
    Key = {k1}
    KeyOf <- SameKey
    Term = 2
    None = None
    MaxIndex = 2
    InitNext = {1, 2}
    InitNodes <- AnyNodes
    Flaky = {b}
    MaxBeats = 1
SPECIFICATION FairSpec
CHECK_DEADLOCK FALSE
INVARIANT EntryIdentity
PROPERTIES FollowersBehind LeaderKeepsAcked RequestAnswered
