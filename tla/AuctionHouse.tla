---------------------------- MODULE AuctionHouse ----------------------------
(***************************************************************************)
(* What the database promises, without files, processes and semaphore:     *)
(* accounts, auctions and bids that change in one step each.  Module       *)
(* AuctionServer implements it as long as no LST runs (property HouseSpec).*)
(***************************************************************************)
EXTENDS Integers

CONSTANTS Users, Passwords, Values, Aids, None,
          InitAccount, InitPresent, InitLot

VARIABLES
    account,   \* the password of a registered user, None otherwise
    present,   \* the users who are logged in
    lot,       \* the auctions: host, start value, duration and time of start
    book,      \* the bidder of every bid, by auction and value
    closed,    \* how long a closed auction was active, None for the others
    clock

house == <<account, present, lot, book, closed, clock>>

Exists(a) == lot[a] # None
Open(a)   == Exists(a) /\ closed[a] = None
Bids(a)   == {v \in Values : book[a][v] # None}
Active(a) == clock - lot[a].at

Init == /\ account = InitAccount
        /\ present = InitPresent
        /\ lot = InitLot
        /\ book = [a \in Aids |-> [v \in Values |-> None]]
        /\ closed = [a \in Aids |-> None]
        /\ clock = 0

Register(u, p) == /\ account[u] = None
                  /\ account' = [account EXCEPT ![u] = p]
                  /\ UNCHANGED <<present, lot, book, closed, clock>>

LogIn(u) == /\ account[u] # None
            /\ present' = present \cup {u}
            /\ UNCHANGED <<account, lot, book, closed, clock>>

LogOut(u) == /\ present' = present \ {u}
             /\ UNCHANGED <<account, lot, book, closed, clock>>

\* Nobody is unregistered while logged in.
Unregister(u) == /\ u \notin present
                 /\ account' = [account EXCEPT ![u] = None]
                 /\ UNCHANGED <<present, lot, book, closed, clock>>

\* Ids are given in increasing order and never again.
OpenAuction(u, a) ==
    /\ u \in present
    /\ \A b \in Aids : Exists(b) => b < a
    /\ lot'[a] \in [host : {u}, value : Values, timeactive : Nat \ {0},
                   at : 0 .. clock]
    /\ lot' = [lot EXCEPT ![a] = lot'[a]]
    /\ UNCHANGED <<account, present, book, closed, clock>>

\* A bid beats the start value and every other bid, on an open auction of
\* somebody else.
PlaceBid(u, a, v) ==
    /\ u \in present
    /\ Open(a) /\ lot[a].host # u
    /\ v > lot[a].value /\ \A w \in Bids(a) : w < v
    /\ book' = [book EXCEPT ![a][v] = u]
    /\ UNCHANGED <<account, present, lot, closed, clock>>

\* The host may close an open auction at any time, the server once its time
\* is over; it never counts as active for longer than it was to be.
Close(a) ==
    /\ Open(a)
    /\ \E t \in 0 .. lot[a].timeactive :
          /\ t <= Active(a)
          /\ lot[a].host \in present \/ t = lot[a].timeactive
          /\ closed' = [closed EXCEPT ![a] = t]
    /\ UNCHANGED <<account, present, lot, book, clock>>

Tick == /\ clock' = clock + 1
        /\ UNCHANGED <<account, present, lot, book, closed>>

Next == \/ \E u \in Users :
              \/ \E p \in Passwords : Register(u, p)
              \/ LogIn(u) \/ LogOut(u) \/ Unregister(u)
              \/ \E a \in Aids : OpenAuction(u, a)
              \/ \E a \in Aids, v \in Values : PlaceBid(u, a, v)
        \/ \E a \in Aids : Close(a)
        \/ Tick

Spec == Init /\ [][Next]_house
=============================================================================
