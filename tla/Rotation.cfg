SPECIFICATION Spec
CONSTANTS
    Ends = {a, b}
    Rots = {r1, r2}
    None = None
    MaxFaults = 1
    MaxCrashes = 1
    MaxReconnects = 1
    TroubledRots = 1
SYMMETRY Symmetry
CHECK_DEADLOCK FALSE
INVARIANTS PerPeerExact OwnOnionServed NoOrphanOnion StaysConnected
PROPERTY FailedIsFinal
