SPECIFICATION Spec
CONSTANTS
    e1 = e1
    e2 = e2
    d1 = d1
    d2 = d2
    Envs = {e1, e2}
    Dests = {d1}
    DestOf <- SameDest
    Kickers = {k1}
    Legacy = {e2}
    MaxTime = 2
    BackoffBase = 1
    BackoffCap = 2
    MaxAttempts = 2
    DeadLetterAge = 2
    AckVerifyMaxTries = 2
    GcSentAge = 1
    GcFailedAge = 2
    SeedLimit = 2
    MaxFaults = 1
    MaxStops = 1
    MaxKicks = 1
    AttemptCap = 2
    MonotoneClock = TRUE
    SeedFaults = TRUE
    GateFlaps = FALSE
    Holds = TRUE
INVARIANTS TypeOK IndexesExact NoSettledResend OneOutcome NoLostMessage
CHECK_DEADLOCK FALSE
