--------------------------- MODULE DatabaseFiles ---------------------------
(***************************************************************************)
(* The state the processes of the auction server share: the directory tree *)
(* ASDIR that src/src/server/database.cpp uses as its database, the named  *)
(* semaphore that is meant to protect it, the clock, and for every request *)
(* the local state of the process that serves it.                          *)
(*                                                                         *)
(* A request is served in steps.  pc[r] names the database function (or    *)
(* the part of one) that request r executes next.  A file that is opened   *)
(* with fopen(.., "w") or ofstream::trunc exists and is Empty until the    *)
(* data is flushed by the close: creation and writing are two steps.       *)
(***************************************************************************)
EXTENDS Integers, FiniteSets

CONSTANTS
    Users,        \* user ids
    Passwords,
    Values,       \* start values and bids
    MaxAid,       \* largest auction id (999 in the code, see Open)
    MaxTime,      \* bound of the clock
    Requests,     \* the requests of a behaviour
    Menu,         \* the contents a request can have
    MaxFaults,    \* bound on the file creations that fail
    MaxCrashes,   \* bound on the processes that die and on the restarts
    InitPassword, \* the database an earlier session left: passwords,
    InitLogin,    \* users that did not log out,
    InitStart,    \* auctions, by their START file
    NoFile,       \* the file does not exist
    Empty         \* the file exists and holds nothing yet

UdpOps == {"LIN", "LOU", "UNR", "LMA", "LMB", "LST", "SRC"}
TcpOps == {"OPA", "CLS", "SAS", "BID"}
Aids   == 1 .. MaxAid
Times  == 0 .. MaxTime

\* The fields of all request messages; an operation reads those it has.
Message == [op : UdpOps \cup TcpOps, uid : Users, pw : Passwords,
            aid : Aids, value : Values, time : Nat]

\* START, BIDS/value and END files, without the fields nothing depends on.
StartInfo == [host : Users, value : Values, timeactive : Nat, at : Times]
BidInfo   == [user : Users, at : Int]
Absent    == {NoFile, Empty}

ASSUME BoundsAssumption == /\ MaxAid \in Nat /\ MaxTime \in Nat
                           /\ MaxFaults \in Nat /\ MaxCrashes \in Nat
ASSUME ValuesAssumption == Values \subseteq Nat \ {0}   \* verify_value
ASSUME MenuAssumption   == Menu \subseteq Message /\ Menu # {}
ASSUME AbsentAssumption == /\ NoFile # Empty
                           /\ Absent \cap (Passwords \cup StartInfo) = {}
                           /\ Absent \cap (BidInfo \cup Int) = {}
ASSUME InitAssumption   ==
    /\ InitPassword \in [Users -> Passwords \cup {NoFile}]
    /\ InitLogin \subseteq {u \in Users : InitPassword[u] # NoFile}
    /\ InitStart \in [Aids -> StartInfo \cup {NoFile}]
    /\ \A a \in Aids : InitStart[a] # NoFile =>
          /\ InitPassword[InitStart[a].host] # NoFile
          /\ InitStart[a].at = 0 /\ InitStart[a].timeactive > 0

VARIABLES
    \* ASDIR/USERS
    userDir,    \* how many of uid/, uid/HOSTED/, uid/BIDDED/ were made
    pass,       \* uid_pass.txt
    login,      \* the users whose uid_login.txt exists
    hosted,     \* the files of uid/HOSTED
    bidded,     \* the files of uid/BIDDED
    \* ASDIR/AUCTIONS
    auctionDir, \* how many of aid/, aid/BIDS/, aid/ASSET/ were made
    start,      \* START_aid.txt
    asset,      \* the file in aid/ASSET
    bids,       \* the files of aid/BIDS, named by their value
    end,        \* END_aid.txt
    \* the rest of what the processes share
    sem,        \* value of the named semaphore
    now,        \* time(), in seconds since the server started
    faults,     \* file creations that have failed so far
    crashes,    \* deaths and restarts so far
    \* one entry per request
    req,        \* its contents
    pc,         \* the function its process is in
    cont,       \* the critical section to enter after the next sem_wait
    res,        \* what the database function returned or threw
    reply,      \* the status of the answer
    target,     \* the auction that Open creates or Close ends
    stamp,      \* the time read for the file that is being created
    todo,       \* the directory entries a listing has still to visit
    out         \* the listing: pairs of an auction and its active flag

userFiles    == <<userDir, pass, login, hosted, bidded>>
auctionFiles == <<auctionDir, start, asset, bids, end>>
locals       == <<target, stamp, todo, out>>
vars == <<userFiles, auctionFiles, locals, sem, now, faults, crashes, req, pc,
          cont, res, reply>>

Uid(r)    == req[r].uid
Aid(r)    == req[r].aid
Op(r)     == req[r].op

-----------------------------------------------------------------------------
(* What the functions of database.cpp read.                                *)

CheckUserExisted(u)    == userDir[u] > 0
CheckUserRegistered(u) == pass[u] # NoFile
CheckUserLoggedIn(u)   == u \in login
CorrectPassword(r)     == pass[Uid(r)] = req[r].pw
CheckAuctionExists(a)  == auctionDir[a] > 0

\* Mutant: the END file is looked for under a name that no file has.
EndMisspelt(a)    == FALSE
CheckEndExists(a) == end[a] # NoFile

\* GetStart fails on a missing file and on one that is still empty.
GetStart(a)  == start[a] \notin Absent
Elapsed(a)   == now - start[a].at
Expired(a)   == Elapsed(a) >= start[a].timeactive

\* Auctions whose directory exists, as Open and List read ASDIR/AUCTIONS.
AuctionDirs == {a \in Aids : CheckAuctionExists(a)}

\* The id Open computes: one more than the largest in use, which may be one
\* too many.
IsNextAid(a) == /\ \A b \in AuctionDirs : b < a
                /\ a = 1 \/ a - 1 \in AuctionDirs

\* Mutant: the limit on the ids is off by one.
OneTooMany(a) == a > MaxAid + 1
TooMany(a)    == a > MaxAid

BidValues(a) == {v \in DOMAIN bids[a] : bids[a][v] # NoFile}

-----------------------------------------------------------------------------
(* Control flow of the process that serves a request.                      *)

Goto(r, l) == /\ pc' = [pc EXCEPT ![r] = l]
              /\ UNCHANGED <<cont, res, reply>>

\* sem_post and return v (or throw it, where the code posts first).
Return(r, v) == /\ pc' = [pc EXCEPT ![r] = "post"]
                /\ res' = [res EXCEPT ![r] = v]
                /\ UNCHANGED <<cont, reply>>

\* An exception leaves the database function without a sem_post.
Escape(r, e) == /\ pc' = [pc EXCEPT ![r] = "reply"]
                /\ res' = [res EXCEPT ![r] = e]
                /\ UNCHANGED <<cont, reply>>

\* Mutant: the sem_post before the second sem_wait is missing.
ReenterHolding(r, l) == /\ pc' = [pc EXCEPT ![r] = "wait"]
                        /\ cont' = [cont EXCEPT ![r] = l]
                        /\ UNCHANGED <<res, reply>>

\* sem_post, then sem_wait again to enter critical section l.
Reenter(r, l) == /\ pc' = [pc EXCEPT ![r] = "post"]
                 /\ cont' = [cont EXCEPT ![r] = l]
                 /\ UNCHANGED <<res, reply>>

Succeed == UNCHANGED faults
Fail    == faults < MaxFaults /\ faults' = faults + 1

\* Mutant: an interrupted sem_wait is taken for a successful one.
WaitInterrupted(r) ==
    /\ pc[r] = "wait"
    /\ pc' = [pc EXCEPT ![r] = cont[r]]
    /\ cont' = [cont EXCEPT ![r] = "none"]
    /\ UNCHANGED <<userFiles, auctionFiles, sem, now, faults, crashes, req,
                   res, reply, locals>>

SemaphoreWait(r) ==
    /\ pc[r] = "wait"
    /\ sem > 0
    /\ sem' = sem - 1
    /\ pc' = [pc EXCEPT ![r] = cont[r]]
    /\ cont' = [cont EXCEPT ![r] = "none"]
    /\ UNCHANGED <<userFiles, auctionFiles, now, faults, crashes, req, res,
                   reply, locals>>

SemaphorePost(r) ==
    /\ pc[r] = "post"
    /\ sem' = sem + 1
    /\ pc' = [pc EXCEPT ![r] = IF cont[r] = "none" THEN "reply" ELSE "wait"]
    /\ UNCHANGED <<userFiles, auctionFiles, now, faults, crashes, req, cont,
                   res, reply, locals>>
=============================================================================
