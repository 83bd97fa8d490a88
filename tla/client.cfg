SPECIFICATION FairSpec
CONSTANTS
    Clients = {c1, c2}
    Users = {100001, 99}
    Passwords = {p1, p2}
    None = None
    Menu <- SessionMenu
    MaxTurns = 4
    TriesMax = 2
    UintWidth = 8
    ValueSize = 2
    c1 = c1
    c2 = c2
    p1 = p1
    p2 = p2
CHECK_DEADLOCK FALSE
INVARIANTS TypeOK AnswersCorrespond StrayAnswers AtMostOnce SessionTrue MeaningKept ChecksDiffer SocketsClosed
PROPERTIES CommandsEnd
