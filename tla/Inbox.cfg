SPECIFICATION FairSpec
CONSTANTS
    e1 = e1
    e2 = e2
    m1 = m1
    m2 = m2
    None = None
    Env = {e1, e2}
    Msg = {m1}
    MsgOf <- SameMsg
    Bad = {e2}
    InboxLimit = 1
    StreamBuf = 1
    MaxHandlers = 1
    MaxGarbled = 2
    FrontendStops = TRUE
    StoreFaults = TRUE
INVARIANT ExactlyOnce
PROPERTIES KeepsPromise Drains
