SPECIFICATION Spec
CONSTANTS
    e1 = e1
    e2 = e2
    Envelopes <- MCTwo
    IsFile = TRUE
    ScanLimit = 2
    MaxSends = 2
    MaxConnects = 2
    MaxRestarts = 1
    Faults <- MCAllFaults
SYMMETRY MCSymTwo
INVARIANTS FailedMeansAllFailed WatermarkCovers
PROPERTY MarkRises
CHECK_DEADLOCK FALSE
