SPECIFICATION Spec
CONSTANTS
    Retriers = {r1}
    RetryAttemptCap = 2
    KickCap = 1
    EventCap = 2
    MaxRetries = 2
    MaxBreaks = 2
    MaxTrouble = 1
INVARIANTS AtRest BytesKept
PROPERTY ReadyIsFinal
CHECK_DEADLOCK FALSE
