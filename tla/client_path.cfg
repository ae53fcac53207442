CONSTANTS
    a = a
    b = b
    c = c
    Server = {a, b, c}
    Nobody = Nobody
    Client = {x}
    Addrs <- MCAddrs
    MaxHops = 4
    MaxTurns = 4
    MaxStops = 2
SPECIFICATION FairSpec
CHECK_DEADLOCK FALSE
INVARIANTS TypeOK AppliedOnce SuccessIsApplied RefusedOnlyAtPeers
PROPERTY RedirectsEnd
