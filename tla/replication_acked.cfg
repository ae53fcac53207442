CONSTANTS
    Leader = a
    Peer = {b, c}
    Set = {r1, r2}
    Get = {}
    OldSet = r0
    Past <- MCPast
    Key = {k1}
    KeyOf <- SameKey
    Term = 2
    None = None
    MaxIndex = 2
    InitNext = {1}
    InitNodes <- DeposedNodes
    Flaky = {b, c}
    MaxBeats = 0
SPECIFICATION Spec
SYMMETRY Symmetry
CHECK_DEADLOCK FALSE
PROPERTY AckedIsReplicated
