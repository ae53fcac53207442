CONSTANTS
    Leader = a
    Peer = {b, c}
    Set = {r1, r2}
    Get = {g}
    OldSet = r0
    Past <- MCPast
    Key = {k1}
    KeyOf <- SameKey
    Term = 2
    None = None
    MaxIndex = 2
    InitNext = {1}
    InitNodes <- FreshNodes
    Flaky = {b, c}
    MaxBeats = 0
SPECIFICATION Spec
SYMMETRY Symmetry
CHECK_DEADLOCK FALSE
INVARIANTS TypeOK EntryIdentity
PROPERTIES FollowersBehind LeaderKeepsAcked AtomicStoreSpec
