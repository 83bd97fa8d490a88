SPECIFICATION Spec
CONSTANTS
    u1 = u1
    u2 = u2
    u3 = u3
    p1 = p1
    p2 = p2
    Users = {u1, u2, u3}
    Passwords = {p1, p2}
    Values = {1, 2, 3}
    MaxAid = 2
    MaxTime = 2
    Requests = {r1, r2, r3}
    Menu <- MarketMenu
    MaxFaults = 0
    MaxCrashes = 0
    InitPassword <- McPassword
    InitLogin <- McLogin
    InitStart <- OneAuction
    NoFile = NoFile
    Empty = Empty
SYMMETRY Symmetry
CHECK_DEADLOCK FALSE
INVARIANT NoLeak
