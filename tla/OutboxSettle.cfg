SPECIFICATION LiveSpec
CONSTANTS
    e1 = e1
    e2 = e2
    d1 = d1
    d2 = d2
    Envs = {e1}
    Dests = {d1}
    DestOf <- OneEnv
    Kickers = {k1}
    Legacy = {}
    MaxTime = 3
    BackoffBase = 1
    BackoffCap = 2
    MaxAttempts = 2
    DeadLetterAge = 3
    AckVerifyMaxTries = 2
    GcSentAge = 1
    GcFailedAge = 2
    SeedLimit = 2
    MaxFaults = 1
    MaxStops = 1
    MaxKicks = 0
    AttemptCap = 6
    MonotoneClock = FALSE
    SeedFaults = FALSE
    GateFlaps = TRUE
    Holds = FALSE
INVARIANT NoStrandedDest
PROPERTY Settles
CHECK_DEADLOCK FALSE
