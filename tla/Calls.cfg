SPECIFICATION Spec
CONSTANTS
    d1 = d1
    d2 = d2
    None = None
    Devices = {d1, d2}
    Rearms = 1
    MaxTrouble = 1
SYMMETRY Symmetric
INVARIANTS AnswerAgrees MediaFollowsRow RingingWatched
PROPERTY AnswerFinal
CHECK_DEADLOCK FALSE
