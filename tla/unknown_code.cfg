SPECIFICATION Spec
CONSTANTS
    Conns = {c1, c2}
    Codes <- McCodes
    NoConn = NoConn
    NoCode = NoCode
    RetryMax = 2
    QueueSize = 1
    SemMax = 2
    InboxSize = 1
    MaxFaults = 2
    MaxSignals = 1
CHECK_DEADLOCK FALSE
INVARIANT UdpSurvives
