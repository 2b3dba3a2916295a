SPECIFICATION ReceiptsSpec
CONSTANTS
    d1 = d1
    d2 = d2
    open = open
    arrival = arrival
    Devices <- MCDevices
    Handlers <- MCTwo
    MaxEnvelopes = 2
    MaxTime = 2
    MaxMishaps = 1
    MaxToggles = 1
SYMMETRY MCSym
INVARIANTS ReceiptNotLost
PROPERTY SuppressedStays
CHECK_DEADLOCK FALSE
