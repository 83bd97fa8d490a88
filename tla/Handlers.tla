------------------------------ MODULE Handlers ------------------------------
(***************************************************************************)
(* The request handlers of src/src/server/handlers.cpp: which database     *)
(* function a message enters, and which status answers what that function  *)
(* returned or threw.  A result with no entry in a handler's table is      *)
(* logged and not answered at all: the reply is "silent".                  *)
(***************************************************************************)
EXTENDS Accounts, Listings

LoginReply      == [NOK |-> "NOK", OK |-> "OK", REGISTER |-> "REG"]
LogoutReply     == [UNREGISTERED |-> "UNR", OK |-> "OK", NOK |-> "NOK"]
UnregisterReply == [UNKNOWN |-> "UNR", OK |-> "OK", NOK |-> "NOK"]
ListReply       == [LIST |-> "OK"]
RecordReply     == [ACTIVE |-> "OK", ENDED |-> "OK", TORN |-> "OK",
                    AuctionNotFound |-> "NOK"]
OpenReply       == [OK |-> "OK", CREATE_FAIL |-> "NOK"]
CloseReply      == [OK |-> "OK", UserDoesNotExist |-> "NOK",
                    IncorrectPassword |-> "NOK", UserNotLoggedIn |-> "NLG",
                    AuctionNotFound |-> "EAU", AuctionNotOwnedByUser |-> "EOW",
                    AuctionAlreadyClosed |-> "END"]
AssetReply      == [OK |-> "OK", TORN |-> "OK", AssetDoesNotExist |-> "NOK"]
\* Mutant: a bid that is too low is answered like any other.
AlwaysAccept    == [NOK |-> "NOK", ACCEPT |-> "ACC", REFUSE |-> "ACC",
                    AuctionAlreadyClosed |-> "NOK", UserNotLoggedIn |-> "NLG",
                    AuctionNotFound |-> "NOK", LargerBidAlreadyExists |-> "ACC",
                    BidOnSelf |-> "ILG"]
BidReply        == [NOK |-> "NOK", ACCEPT |-> "ACC", REFUSE |-> "ACC",
                    AuctionAlreadyClosed |-> "NOK", UserNotLoggedIn |-> "NLG",
                    AuctionNotFound |-> "NOK", LargerBidAlreadyExists |-> "REF",
                    BidOnSelf |-> "ILG"]

ReplyTable == [LIN |-> LoginReply, LOU |-> LogoutReply, UNR |-> UnregisterReply,
               LMA |-> ListReply, LMB |-> ListReply, LST |-> ListReply,
               SRC |-> RecordReply, OPA |-> OpenReply, CLS |-> CloseReply,
               SAS |-> AssetReply, BID |-> BidReply]

Statuses == {"OK", "REG", "UNR", "NOK", "NLG", "EAU", "EOW", "END", "ACC",
             "REF", "ILG", "ERR", "silent"}

\* CloseAuctionRequest leaves the status uninitialised for DB_CLOSE_NOK: it
\* sends whatever status the memory holds, or fails to build a message.
UninitialisedClose == {"OK", "NLG", "EAU", "EOW", "END", "NOK", "ERR", "silent"}

\* The handlers of LMA and LMB look whether the user is logged in after the
\* database call, without the lock.
ListingStatus(r) ==
    IF Op(r) # "LST" /\ ~CheckUserLoggedIn(Uid(r)) THEN "NLG"
    ELSE IF out[r] = {} THEN "NOK" ELSE "OK"

\* The statuses that can answer r.  A record with an END file that was not
\* written has uninitialised dates, one with such a bid makes stoi throw.
PossibleReplies(r) ==
    LET table == ReplyTable[Op(r)] IN
    IF Op(r) = "CLS" /\ res[r] = "CLOSE_NOK" THEN UninitialisedClose
    ELSE IF Op(r) = "SRC" /\ res[r] = "TORN" THEN {"OK", "silent"}
    ELSE IF res[r] = "LIST" THEN {ListingStatus(r)}
    ELSE IF res[r] \in DOMAIN table THEN {table[res[r]]}
    ELSE {"silent"}

Reply(r) ==
    /\ pc[r] = "reply"
    /\ \E s \in PossibleReplies(r) : reply' = [reply EXCEPT ![r] = s]
    /\ pc' = [pc EXCEPT ![r] = "done"]
    /\ UNCHANGED <<userFiles, auctionFiles, sem, now, faults, crashes, req, cont,
                   res, locals>>

-----------------------------------------------------------------------------
(* The database function a request enters: all but List and ShowAsset      *)
(* start with a sem_wait.                                                  *)

CriticalSection ==
    [LIN |-> "LoginUser", LOU |-> "Logout", UNR |-> "Unregister",
     LMA |-> "MyAuctions", LMB |-> "MyBids", LST |-> "none",
     SRC |-> "ShowRecord", OPA |-> "Open", CLS |-> "CloseAuction",
     SAS |-> "none", BID |-> "Bid"]

\* Mutant: ShowRecord, like List, starts without a sem_wait.
RecordUnlocked(op) == IF op = "LST" THEN "List"
                      ELSE IF op = "SRC" THEN "ShowRecord"
                      ELSE IF op = "SAS" THEN "GetAssetDir" ELSE "wait"

Entry(op) == IF op = "LST" THEN "List"
             ELSE IF op = "SAS" THEN "GetAssetDir" ELSE "wait"

\* A request is being served until it is answered or its process is gone.
Finished == {"done", "lost"}
Served(r) == pc[r] \notin Finished \cup {"idle"}

\* One process serves the UDP requests, one after the other; every TCP
\* request has a process of its own.
UdpBusy == \E r \in Requests : Served(r) /\ Op(r) \in UdpOps

Arrive(r) ==
    /\ pc[r] = "idle"
    /\ \E m \in Menu :
          /\ m.op \in UdpOps => ~UdpBusy
          /\ req' = [req EXCEPT ![r] = m]
          /\ pc' = [pc EXCEPT ![r] = Entry(m.op)]
          /\ cont' = [cont EXCEPT ![r] = CriticalSection[m.op]]
    /\ UNCHANGED <<userFiles, auctionFiles, sem, now, faults, crashes, res,
                   reply, locals>>
=============================================================================
