SPECIFICATION Spec
CONSTANTS
    m1 = m1
    m2 = m2
    Msgs = {m1, m2}
    Strange = {m2}
    Live = {m1}
    BatchRows = 1
    MaxStamp = 1
    MaxSeq = 2
    MaxTrouble = 1
    Fulls = {TRUE, FALSE}
    ThirdAck = 9
INVARIANTS JournalSafe SweepDelivers
PROPERTIES NoResurrection
CHECK_DEADLOCK FALSE
