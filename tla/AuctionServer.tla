---------------------------- MODULE AuctionServer ----------------------------
(***************************************************************************)
(* The auction server: one process that serves the UDP requests in turn,   *)
(* one process for every TCP request, and the database they share.         *)
(***************************************************************************)
EXTENDS Handlers

-----------------------------------------------------------------------------
Known(u) == InitPassword[u] # NoFile

Init ==
    /\ userDir = [u \in Users |-> IF Known(u) THEN 3 ELSE 0]
    /\ pass = InitPassword
    /\ login = InitLogin
    /\ hosted = [u \in Users |-> {a \in Aids : /\ InitStart[a] # NoFile
                                               /\ InitStart[a].host = u}]
    /\ bidded = [u \in Users |-> {}]
    /\ auctionDir = [a \in Aids |-> IF InitStart[a] = NoFile THEN 0 ELSE 3]
    /\ start = InitStart
    /\ asset = [a \in Aids |-> IF InitStart[a] = NoFile THEN "none" ELSE "whole"]
    /\ bids = [a \in Aids |-> [v \in Values |-> NoFile]]
    /\ end = [a \in Aids |-> NoFile]
    /\ sem = 1                                   \* semaphore_init
    /\ now = 0 /\ faults = 0 /\ crashes = 0
    /\ req = [r \in Requests |-> CHOOSE m \in Menu : TRUE]   \* until it arrives
    /\ pc = [r \in Requests |-> "idle"]
    /\ cont = [r \in Requests |-> "none"]
    /\ res = [r \in Requests |-> "none"]
    /\ reply = [r \in Requests |-> "none"]
    /\ target = [r \in Requests |-> 0]
    /\ stamp = [r \in Requests |-> 0]
    /\ todo = [r \in Requests |-> {}]
    /\ out = [r \in Requests |-> {}]

Tick == /\ now < MaxTime
        /\ now' = now + 1
        /\ UNCHANGED <<userFiles, auctionFiles, locals, sem, faults, req, pc,
                       cont, res, reply, crashes>>

\* What the process that serves request r does next.
Serve(r) == \/ SemaphoreWait(r) \/ SemaphorePost(r)
            \/ AccountStep(r) \/ AuctionStep(r) \/ ListingStep(r)
            \/ Reply(r)

\* The process of r dies.  Nothing gives back the semaphore it may hold.  If
\* it is the UDP process, its requests are not served until a restart: r
\* stays served and keeps UdpBusy true.
Crash(r) ==
    /\ crashes < MaxCrashes
    /\ Served(r) /\ pc[r] # "dead"
    /\ crashes' = crashes + 1
    /\ pc' = [pc EXCEPT ![r] = IF Op(r) \in UdpOps THEN "dead" ELSE "lost"]
    /\ UNCHANGED <<userFiles, auctionFiles, locals, sem, now, faults, req,
                   cont, res, reply>>

\* All processes end and the server is started again: CreateBaseDir makes a
\* new semaphore and finds the directories as they were left.
Restart ==
    /\ crashes < MaxCrashes
    /\ crashes' = crashes + 1
    /\ sem' = 1
    /\ pc' = [r \in Requests |-> IF Served(r) THEN "lost" ELSE pc[r]]
    /\ UNCHANGED <<userFiles, auctionFiles, locals, now, faults, req, cont,
                   res, reply>>

\* Every request has been answered: the only way to stop that is no deadlock.
Terminated == /\ \A r \in Requests : pc[r] \in Finished
              /\ UNCHANGED vars

Next == \/ \E r \in Requests : Arrive(r) \/ Serve(r) \/ Crash(r)
        \/ Tick \/ Restart \/ Terminated

Spec == Init /\ [][Next]_vars

\* The scheduler runs every process that can go on.  Clients need not send
\* requests, time need not pass, and nobody has to restart the server.
Fairness == \A r \in Requests : WF_vars(Serve(r))
FairSpec == Spec /\ Fairness

-----------------------------------------------------------------------------
(* Types                                                                   *)

\* The parts of the functions that run between a sem_wait and a sem_post,
\* the post included.  List runs through some of them without the lock.
CriticalLabels ==
    {"LoginUser", "CreateUserDir", "CreatePassword", "WritePassword",
     "CreateLogin", "Logout", "Unregister", "ErasePassword", "Open",
     "CreateAuctionDir", "CreateSubDirs", "CreateStartFile", "WriteStart",
     "CreateAssetFile", "WriteAsset", "RegisterHost", "CreateEndFile",
     "OpenEnd", "WriteEnd", "CloseAuction", "Bid", "RegisterBid",
     "CreateBidFile", "WriteBid", "MyAuctions", "MyBids", "Visit",
     "ShowRecord", "ReadRecord", "NoAsset", "ShowAsset", "post"}
Labels == CriticalLabels \cup
          {"idle", "wait", "List", "GetAssetDir", "reply", "done", "dead", "lost"}
Sections == {"none", "LoginUser", "Logout", "Unregister", "ErasePassword",
             "MyAuctions", "MyBids", "ShowRecord", "Open", "CloseAuction",
             "Bid", "NoAsset", "ShowAsset"}
Results  == {"none", "OK", "NOK", "REGISTER", "UNREGISTERED", "UNKNOWN",
             "CREATE_FAIL", "CLOSE_NOK", "ACCEPT", "REFUSE", "LIST", "ACTIVE",
             "ENDED", "TORN", "UserNotLoggedIn", "UserDoesNotExist",
             "IncorrectPassword", "AuctionNotFound", "AuctionNotOwnedByUser",
             "AuctionAlreadyClosed", "LargerBidAlreadyExists", "BidOnSelf",
             "AssetDoesNotExist", "filesystem_error", "invalid_argument"}

FilesTypeOK ==
    /\ userDir \in [Users -> 0 .. 3]
    /\ pass \in [Users -> Passwords \cup Absent]
    /\ login \subseteq Users
    /\ hosted \in [Users -> SUBSET Aids]
    /\ bidded \in [Users -> SUBSET Aids]
    /\ auctionDir \in [Aids -> 0 .. 3]
    /\ start \in [Aids -> StartInfo \cup Absent]
    /\ asset \in [Aids -> {"none", "partial", "whole"}]
    /\ bids \in [Aids -> [Values -> BidInfo \cup Absent]]
    /\ end \in [Aids -> Int \cup Absent]

ProcessTypeOK ==
    /\ sem \in Nat /\ now \in Times
    /\ faults \in 0 .. MaxFaults /\ crashes \in 0 .. MaxCrashes
    /\ req \in [Requests -> Menu]
    /\ pc \in [Requests -> Labels]
    /\ cont \in [Requests -> Sections]
    /\ res \in [Requests -> Results]
    /\ reply \in [Requests -> Statuses \cup {"none"}]
    /\ target \in [Requests -> Aids \cup {0}]
    /\ stamp \in [Requests -> Int]
    /\ todo \in [Requests -> SUBSET Aids]
    /\ out \in [Requests -> SUBSET (Aids \X BOOLEAN)]

\* The directory tree and the processes have the types the code gives them.
TypeOK == FilesTypeOK /\ ProcessTypeOK

-----------------------------------------------------------------------------
(* Mutual exclusion (semaphore_wait, semaphore_post)                       *)

InCS(r)  == pc[r] \in CriticalLabels /\ Op(r) # "LST"
LockFree == \A r \in Requests : ~InCS(r)

\* At most one process works on the database between sem_wait and sem_post.
MutualExclusion == \A r, s \in Requests : InCS(r) /\ InCS(s) => r = s

\* Every way out of a critical section gives the semaphore back, and gives
\* it back once: it is 1 whenever nobody is inside.
NoLeak == LockFree => sem = 1

-----------------------------------------------------------------------------
(* Users                                                                   *)

\* A user who is logged in has an account with a password, whatever LIN, LOU
\* and UNR were doing when their process died: LoginUser writes the password
\* before the login file and Unregister removes them in the opposite order.
LoggedInHasPassword == \A u \in login : userDir[u] > 0 /\ pass[u] \in Passwords

-----------------------------------------------------------------------------
(* Auctions                                                                *)

Written(a, v) == bids[a][v] \notin Absent

\* A bid that is recorded is higher than the start value and than every bid
\* recorded before it, and stays recorded as it is: Bid's comparison and the
\* write of the file, several steps later, act on the same set of bids.
BidsIncrease ==
    [][\A a \in Aids, v \in Values :
          /\ Written(a, v) => bids'[a][v] = bids[a][v]
          /\ ~Written(a, v) /\ Written(a, v)' =>
                /\ v > start[a].value
                /\ \A w \in Values : Written(a, w) => w < v]_vars

\* Once a bid is answered ACC it is in the auction under its bidder's name.
AcceptedBidsStand ==
    \A r \in Requests : reply[r] = "ACC" =>
        /\ Written(Aid(r), req[r].value)
        /\ bids[Aid(r)][req[r].value].user = Uid(r)

\* Who has a bid in an auction finds that auction in the list of his bids:
\* Bid registers the bidder before it creates the bid.
BiddersListed == \A a \in Aids, v \in Values :
    Written(a, v) => a \in bidded[bids[a][v].user]

\* No bid file is made or changed once an auction has an END file.
NoBidAfterEnd == [][\A a \in Aids : end[a] # NoFile => bids'[a] = bids[a]]_vars

\* The time an auction ended at, once written, never changes: CreateEndFile
\* tests for the file two steps before it writes it.
EndIsFinal == [][\A a \in Aids : end[a] \notin Absent => end'[a] = end[a]]_vars

\* Once a close is answered OK the auction has its END file.
ClosedAuctionsEnded ==
    \A r \in Requests : Op(r) = "CLS" /\ reply[r] = "OK" => end[Aid(r)] \notin Absent

\* An auction is shown once Open has registered its host.  One whose Open died
\* or failed before that is not: nobody has it among his own.
Shown(a) == start[a] \notin Absent /\ a \in hosted[start[a].host]

\* An auction that was opened and not yet hidden by a running request is
\* complete: START and asset are written and its host has it among his own.
Whole(a) == /\ start[a] \notin Absent /\ asset[a] = "whole"
            /\ a \in hosted[start[a].host]
AuctionsWhole == LockFree => \A a \in AuctionDirs : Whole(a)

\* What Open answers OK for is a complete auction of the user who asked, and
\* no other request was given the same id.
OpenedOnce ==
    \A r \in Requests : Op(r) = "OPA" /\ reply[r] = "OK" =>
        /\ Whole(target[r]) /\ start[target[r]].host = Uid(r)
        /\ \A s \in Requests : Op(s) = "OPA" /\ reply[s] = "OK"
                              /\ target[s] = target[r] => s = r

-----------------------------------------------------------------------------
(* What failures and deaths leave behind                                   *)

\* No request has gone around the lock so far.
LockKept == \A r \in Requests : Op(r) = "LST" => pc[r] = "idle"

HalfWritten == Cardinality({u \in Users : pass[u] = Empty})
               + Cardinality({a \in Aids : start[a] = Empty})
               + Cardinality({a \in Aids : asset[a] = "partial"})
               + Cardinality({a \in Aids : end[a] = Empty})
               + Cardinality({b \in Aids \X Values : bids[b[1]][b[2]] = Empty})

Writers == {r \in Requests : pc[r] \in {"WritePassword", "WriteStart",
                                        "WriteAsset", "WriteEnd", "WriteBid"}}

\* A death or a restart costs at most one file, that of the process that holds
\* the lock; a creation that fails costs none, and no later request that meets
\* what they left makes it worse.  An account without a password, an auction
\* nobody can read or close and a bid without a bidder come from nothing else.
LossesBounded == LockKept => HalfWritten <= crashes + Cardinality(Writers)

\* What was recorded outlives failures, deaths and restarts: bids rise and stay
\* over the empty files of others, an end that was written is final, and none
\* that was begun lets another bid in.
BooksSurvive ==
    [][LockKept => \A a \in Aids :
          /\ end[a] # NoFile => bids'[a] = bids[a]
          /\ end[a] \notin Absent => end'[a] = end[a]
          /\ \A v \in Values :
                /\ Written(a, v) => bids'[a][v] = bids[a][v]
                /\ ~Written(a, v) /\ Written(a, v)' =>
                      \A w \in Values : Written(a, w) => w < v]_vars

\* Nobody has a bid in an auction that he is listed as the host of, although
\* Bid looks for the bidder in the list that Open fills in last.
HostsNeverBid == \A a \in Aids, v \in Values :
    Written(a, v) /\ Shown(a) => bids[a][v].user # start[a].host

\* An auction was active for no longer than it was to be and than time has
\* passed: CreateEndFile reads the clock two steps before it writes the file,
\* and whoever ends an auction may die or fail in between.
EndsInTime == \A a \in Aids : end[a] \notin Absent =>
    /\ start[a] \notin Absent
    /\ end[a] \in 0 .. start[a].timeactive /\ end[a] <= Elapsed(a)

-----------------------------------------------------------------------------
(* Listings                                                                *)

\* When MyAuctions or MyBids returns, it has listed every auction of the
\* user once; those it calls active have not ended, the others have.
ListingsTrue ==
    \A r \in Requests :
        pc[r] = "post" /\ res[r] = "LIST" /\ Op(r) \in {"LMA", "LMB"} =>
            out[r] = {<<a, end[a] = NoFile>> :
                      a \in IF Op(r) = "LMA" THEN hosted[Uid(r)] ELSE bidded[Uid(r)]}

\* ShowRecord and ShowAsset never show a file that another process is still
\* writing, although ShowAsset finds the file before it takes the lock.
NothingTorn == \A r \in Requests : res[r] # "TORN"

-----------------------------------------------------------------------------
(* Refinement                                                              *)

\* What the files mean to AuctionHouse.  An account exists once its password
\* is written, an auction once it is shown, a bid and the end of a shown
\* auction once their file is written.
House == INSTANCE AuctionHouse WITH
    None        <- NoFile,
    InitAccount <- InitPassword,
    InitPresent <- InitLogin,
    InitLot     <- InitStart,
    account     <- [u \in Users |-> IF pass[u] = Empty THEN NoFile ELSE pass[u]],
    present     <- login,
    lot         <- [a \in Aids |-> IF Shown(a) THEN start[a] ELSE NoFile],
    book        <- [a \in Aids |-> [v \in Values |->
                      IF Shown(a) /\ Written(a, v) THEN bids[a][v].user ELSE NoFile]],
    closed      <- [a \in Aids |->
                      IF Shown(a) /\ end[a] # Empty THEN end[a] ELSE NoFile],
    clock       <- now

\* Every step of a process changes at most what one step of AuctionHouse may
\* change: requests look atomic although each of them takes many steps.
HouseSpec == House!Spec

-----------------------------------------------------------------------------
(* Progress                                                                *)

\* The process of every request that arrives gets through to the end of its
\* handler: nobody waits for the semaphore for ever.
AllServed == \A r \in Requests : Served(r) ~> pc[r] = "done"
=============================================================================
