CONSTANTS
    a = a
    b = b
    c = c
    Server = {a, b, c}
    Nobody = Nobody
    Client = {x}
    Addrs <- MCAddrs
    MaxHops = 4
    MaxTurns = 4
    MaxStops = 2
SPECIFICATION Spec
CHECK_DEADLOCK FALSE
INVARIANT RedirectReturnsResult
