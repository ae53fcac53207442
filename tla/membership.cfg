CONSTANTS
    a = a
    b = b
    c = c
    d = d
    e = e
    Original = {a, b, c}
    Joiner = {d, e}
    Configured <- MCConfigured
    MaxBoots = 2
    MaxStops = 1
SPECIFICATION FairSpec
CHECK_DEADLOCK FALSE
INVARIANTS TypeOK ChangesAgree FlagIsHeld
PROPERTIES JoinedIsKnown JoinEnds
