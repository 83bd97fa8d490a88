SPECIFICATION FairSpec
CONSTANTS
    Conns = {c1, c2}
    Codes <- KnownCodes
    NoConn = NoConn
    NoCode = NoCode
    RetryMax = 2
    QueueSize = 1
    SemMax = 2
    InboxSize = 1
    MaxFaults = 0
    MaxSignals = 1
CHECK_DEADLOCK FALSE
PROPERTY InterruptEnds
