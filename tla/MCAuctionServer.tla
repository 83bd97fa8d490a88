--------------------------- MODULE MCAuctionServer ---------------------------
(* Values for the constants of AuctionServer.                              *)
EXTENDS AuctionServer, TLC

CONSTANTS u1, u2, u3, p1, p2

M(op, u, p, a, v, t) ==
    [op |-> op, uid |-> u, pw |-> p, aid |-> a, value |-> v, time |-> t]

\* The database at the start: u1 and u2 are logged in, u3 is unknown.
McPassword == u1 :> p1 @@ u2 :> p2 @@ u3 :> NoFile
McLogin    == {u1, u2}
\* Auctions of u1 with start value 1: auction 1 is active for one second,
\* auction 2, where there is one, for longer than the clock runs.
Lasting(t) == [host |-> u1, value |-> 1, timeactive |-> t, at |-> 0]
OneAuction  == [a \in Aids |-> IF a = 1 THEN Lasting(1) ELSE NoFile]
TwoAuctions == [a \in Aids |-> IF a = 1 THEN Lasting(1)
                               ELSE IF a = 2 THEN Lasting(MaxTime + 1) ELSE NoFile]

\* Bids and closes of auction 1, as its host and as others, while it ends, and
\* bids on an auction that Open is making or has not lived to give a host.
MarketMenu ==
    {M("BID", u2, p2, 1, v, 0) : v \in {1, 2, 3}}
    \cup {M("BID", u1, p1, 1, 2, 0), M("BID", u1, p1, 2, 2, 0),
          M("BID", u2, p2, 2, 1, 0), M("CLS", u1, p1, 1, 1, 0),
          M("CLS", u2, p2, 1, 1, 0), M("OPA", u1, p1, 1, 1, 1),
          M("LMA", u1, p1, 1, 1, 0), M("LOU", u2, p2, 1, 1, 0)}

\* Requests none of which leaves the semaphore taken: accounts, bids on an
\* auction that does not end, and listings of one that ends by itself.
ServiceMenu ==
    {M(op, u2, p2, 1, 1, 0) : op \in {"LIN", "LOU", "UNR"}}
    \cup {M("OPA", u2, p2, 1, 1, 1), M("BID", u2, p2, 2, 2, 0),
          M("LMA", u1, p1, 1, 1, 0), M("LMB", u2, p2, 1, 1, 0),
          M("SRC", u1, p1, 1, 1, 0), M("SRC", u1, p1, 2, 1, 0),
          M("SAS", u2, p2, 3, 1, 0)}

\* Requests that create files, and List, which runs without the semaphore.
FailureMenu ==
    {M("LIN", u3, p1, 1, 1, 0), M("UNR", u2, p2, 1, 1, 0),
     M("OPA", u1, p1, 1, 1, 1), M("OPA", u3, p1, 1, 1, 1),
     M("CLS", u1, p1, 1, 1, 0),
     M("BID", u2, p2, 1, 2, 0), M("BID", u2, p2, 1, 3, 0),
     M("LST", u1, p1, 1, 1, 0)}

Symmetry == Permutations(Requests)
=============================================================================
