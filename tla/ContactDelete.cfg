SPECIFICATION FairSpec
CONSTANTS
    a = a
    b = b
    s1 = s1
    s2 = s2
    Linked = {a, b}
    Slots <- MCSlots
    Skew <- MCSkew
    Grace = 1
    MaxClock = 2
    MaxDeletes = 1
    MaxPairings = 1
    MaxFaults = 1
    MaxEntries = 1
    Mixed = FALSE
INVARIANTS BackOnlyIfDisturbed
PROPERTIES LaterPairingStays DeleteEnds RePairReaches
CHECK_DEADLOCK FALSE
