SPECIFICATION Spec
CONSTANTS
    u1 = u1
    u2 = u2
    u3 = u3
    p1 = p1
    p2 = p2
    Users = {u1, u2, u3}
    Passwords = {p1, p2}
    Values = {1, 2, 3}
    MaxAid = 2
    MaxTime = 1
    Requests = {r1, r2, r3}
    Menu <- FailureMenu
    MaxFaults = 1
    MaxCrashes = 1
    InitPassword <- McPassword
    InitLogin <- McLogin
    InitStart <- OneAuction
    NoFile = NoFile
    Empty = Empty
SYMMETRY Symmetry
CHECK_DEADLOCK FALSE
INVARIANTS TypeOK LoggedInHasPassword BiddersListed OpenedOnce LossesBounded
PROPERTIES BooksSurvive
