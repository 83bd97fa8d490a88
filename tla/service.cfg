SPECIFICATION FairSpec
CONSTANTS
    u1 = u1
    u2 = u2
    u3 = u3
    p1 = p1
    p2 = p2
    Users = {u1, u2, u3}
    Passwords = {p1, p2}
    Values = {1, 2, 3}
    MaxAid = 3
    MaxTime = 1
    Requests = {r1, r2, r3}
    Menu <- ServiceMenu
    MaxFaults = 0
    MaxCrashes = 0
    InitPassword <- McPassword
    InitLogin <- McLogin
    InitStart <- TwoAuctions
    NoFile = NoFile
    Empty = Empty
INVARIANTS NoLeak ListingsTrue NothingTorn AuctionsWhole
PROPERTIES AllServed HouseSpec
