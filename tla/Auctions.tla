------------------------------ MODULE Auctions ------------------------------
(***************************************************************************)
(* Database::Open, CloseAuction and Bid: the requests OPA, CLS and BID,    *)
(* and Close/CreateEndFile, the subroutine that ends an auction and that   *)
(* Bid, the listings and ShowRecord call as well.                          *)
(***************************************************************************)
EXTENDS DatabaseFiles

\* What no step of these functions changes.
sharedRest == <<userDir, pass, login, sem, now, crashes, req, todo>>

-----------------------------------------------------------------------------
(* OPA                                                                     *)

Open(r) ==
    /\ pc[r] = "Open"
    /\ \/ /\ ~CheckUserLoggedIn(Uid(r))
          /\ Return(r, "UserNotLoggedIn")
          /\ UNCHANGED target
       \/ /\ CheckUserLoggedIn(Uid(r))
          /\ \/ ~CorrectPassword(r)
             \/ \E a \in 1 .. MaxAid + 1 : IsNextAid(a) /\ TooMany(a)
          /\ Return(r, "CREATE_FAIL")
          /\ UNCHANGED target
       \/ /\ CheckUserLoggedIn(Uid(r)) /\ CorrectPassword(r)
          /\ \E a \in 1 .. MaxAid + 1 :
                /\ IsNextAid(a) /\ ~TooMany(a)
                /\ target' = [target EXCEPT ![r] = a]
          /\ Goto(r, "CreateAuctionDir")
    /\ UNCHANGED <<sharedRest, auctionFiles, hosted, bidded, faults, stamp, out>>

\* Mutant: the failure is not noticed.
OpenIgnoresFailure(r) == Fail /\ Return(r, "OK")

\* A file or directory of Open cannot be made: Open posts and fails.  Its
\* rmdir does not remove an auction directory, which holds BIDS and ASSET.
OpenFails(r) == Fail /\ Return(r, "CREATE_FAIL")

\* The first mkdir of CreateAuctionDir, which fails if the directory exists.
CreateAuctionDir(r) ==
    /\ pc[r] = "CreateAuctionDir"
    /\ \/ /\ auctionDir[target[r]] = 0
          /\ auctionDir' = [auctionDir EXCEPT ![target[r]] = 1]
          /\ Goto(r, "CreateSubDirs")
          /\ Succeed
       \/ /\ auctionDir[target[r]] > 0
          /\ Return(r, "CREATE_FAIL")
          /\ UNCHANGED <<auctionDir, faults>>
       \/ /\ OpenFails(r)
          /\ UNCHANGED auctionDir
    /\ UNCHANGED <<sharedRest, hosted, bidded, start, asset, bids, end, locals>>

\* The mkdir of BIDS and that of ASSET, one step each.
CreateSubDirs(r) ==
    /\ pc[r] = "CreateSubDirs"
    /\ \/ /\ auctionDir[target[r]] < 3
          /\ auctionDir' = [auctionDir EXCEPT ![target[r]] = @ + 1]
          /\ Goto(r, IF auctionDir[target[r]] = 2 THEN "CreateStartFile"
                                                  ELSE "CreateSubDirs")
          /\ Succeed
       \/ /\ OpenFails(r)
          /\ UNCHANGED auctionDir
    /\ UNCHANGED <<sharedRest, hosted, bidded, start, asset, bids, end, locals>>

\* verify_timeactive refuses "0", after the directory has been made.
CreateStartFile(r) ==
    /\ pc[r] = "CreateStartFile"
    /\ \/ /\ req[r].time = 0
          /\ Return(r, "CREATE_FAIL")
          /\ UNCHANGED <<start, stamp, faults>>
       \/ /\ req[r].time # 0
          /\ start' = [start EXCEPT ![target[r]] = Empty]
          /\ stamp' = [stamp EXCEPT ![r] = now]
          /\ Goto(r, "WriteStart")
          /\ Succeed
       \/ /\ req[r].time # 0
          /\ OpenFails(r)
          /\ UNCHANGED <<start, stamp>>
    /\ UNCHANGED <<sharedRest, hosted, bidded, auctionDir, asset, bids, end,
                   target, out>>

WriteStart(r) ==
    /\ pc[r] = "WriteStart"
    /\ start' = [start EXCEPT ![target[r]] =
                    [host |-> Uid(r), value |-> req[r].value,
                     timeactive |-> req[r].time, at |-> stamp[r]]]
    /\ Goto(r, "CreateAssetFile")
    /\ UNCHANGED <<sharedRest, hosted, bidded, auctionDir, asset, bids, end,
                   faults, locals>>

CreateAssetFile(r) ==
    /\ pc[r] = "CreateAssetFile"
    /\ \/ /\ asset' = [asset EXCEPT ![target[r]] = "partial"]
          /\ Goto(r, "WriteAsset")
          /\ Succeed
       \/ /\ OpenFails(r)
          /\ UNCHANGED asset
    /\ UNCHANGED <<sharedRest, hosted, bidded, auctionDir, start, bids, end,
                   locals>>

\* Mutant: Open returns without RegisterHost.
WriteAssetReturns(r) ==
    /\ pc[r] = "WriteAsset"
    /\ asset' = [asset EXCEPT ![target[r]] = "whole"]
    /\ Return(r, "OK")
    /\ UNCHANGED <<sharedRest, hosted, bidded, auctionDir, start, bids, end,
                   faults, locals>>

WriteAsset(r) ==
    /\ pc[r] = "WriteAsset"
    /\ asset' = [asset EXCEPT ![target[r]] = "whole"]
    /\ Goto(r, "RegisterHost")
    /\ UNCHANGED <<sharedRest, hosted, bidded, auctionDir, start, bids, end,
                   faults, locals>>

\* fopen fails too if uid/HOSTED was never made.
RegisterHost(r) ==
    /\ pc[r] = "RegisterHost"
    /\ \/ /\ userDir[Uid(r)] >= 2
          /\ hosted' = [hosted EXCEPT ![Uid(r)] = @ \cup {target[r]}]
          /\ Return(r, "OK")
          /\ Succeed
       \/ /\ userDir[Uid(r)] < 2
          /\ Return(r, "CREATE_FAIL")
          /\ UNCHANGED <<hosted, faults>>
       \/ /\ OpenFails(r)
          /\ UNCHANGED hosted
    /\ UNCHANGED <<sharedRest, bidded, auctionFiles, locals>>

-----------------------------------------------------------------------------
(* Close: CreateEndFile and what its callers do next.                      *)

\* Where the caller of Close(target[r]) goes on when the call returns.  Bid
\* throws AuctionAlreadyClosed without a sem_post.
AfterClose(r, made) ==
    \/ /\ Op(r) = "CLS"
       /\ Return(r, IF made \/ res[r] = "AuctionAlreadyClosed" THEN res[r]
                                                               ELSE "CLOSE_NOK")
       /\ UNCHANGED out
    \/ /\ Op(r) = "BID"
       /\ Escape(r, "AuctionAlreadyClosed")
       /\ UNCHANGED out
    \/ /\ Op(r) = "SRC"
       /\ Goto(r, "ReadRecord")
       /\ UNCHANGED out
    \/ /\ Op(r) \in {"LMA", "LMB", "LST"}
       /\ Goto(r, "Visit")
       /\ out' = [out EXCEPT ![r] = @ \cup {<<target[r], FALSE>>}]

\* Mutant: an auction that is ended early is said to have lasted to its end.
EndForWholeDuration(r) ==
    /\ pc[r] = "CreateEndFile"
    /\ GetStart(target[r]) /\ ~CheckEndExists(target[r])
    /\ stamp' = [stamp EXCEPT ![r] = start[target[r]].timeactive]
    /\ Goto(r, "OpenEnd")
    /\ UNCHANGED <<sharedRest, hosted, bidded, auctionFiles, faults, target, out>>

\* The reads of CreateEndFile.  Its exception AuctionNotFound, and Close's
\* AuctionAlreadyClosed for its result 2, pass through every caller, none of
\* which posts.  The END time is the elapsed time, capped by the duration.
CreateEndFile(r) ==
    /\ pc[r] = "CreateEndFile"
    /\ LET a == target[r] IN
       \/ /\ ~GetStart(a)
          /\ Escape(r, "AuctionNotFound")
          /\ UNCHANGED stamp
       \/ /\ GetStart(a) /\ CheckEndExists(a)
          /\ Escape(r, "AuctionAlreadyClosed")
          /\ UNCHANGED stamp
       \/ /\ GetStart(a) /\ ~CheckEndExists(a)
          /\ stamp' = [stamp EXCEPT ![r] =
                          IF Elapsed(a) > start[a].timeactive
                          THEN start[a].timeactive ELSE Elapsed(a)]
          /\ Goto(r, "OpenEnd")
    /\ UNCHANGED <<sharedRest, hosted, bidded, auctionFiles, faults, target, out>>

\* Mutant: the END file is made and never written.
OpenEndReturns(r) ==
    /\ pc[r] = "OpenEnd"
    /\ end' = [end EXCEPT ![target[r]] = Empty]
    /\ AfterClose(r, TRUE)
    /\ Succeed
    /\ UNCHANGED <<sharedRest, hosted, bidded, auctionDir, start, asset, bids,
                   target, stamp>>

\* fopen(END, "w"), which truncates a file another process made meanwhile.
OpenEnd(r) ==
    /\ pc[r] = "OpenEnd"
    /\ \/ /\ end' = [end EXCEPT ![target[r]] = Empty]
          /\ Goto(r, "WriteEnd")
          /\ Succeed
          /\ UNCHANGED out
       \/ /\ Fail
          /\ AfterClose(r, FALSE)
          /\ UNCHANGED end
    /\ UNCHANGED <<sharedRest, hosted, bidded, auctionDir, start, asset, bids,
                   target, stamp>>

WriteEnd(r) ==
    /\ pc[r] = "WriteEnd"
    /\ end' = [end EXCEPT ![target[r]] = stamp[r]]
    /\ AfterClose(r, TRUE)
    /\ UNCHANGED <<sharedRest, hosted, bidded, auctionDir, start, asset, bids,
                   faults, target, stamp>>

-----------------------------------------------------------------------------
(* CLS                                                                     *)

\* CheckAuctionBelongs throws if uid/HOSTED was never made.
HostedUnreadable(u) == userDir[u] < 2

\* The checks of CloseAuction in their order.  Its own test for an END file
\* looks for "ENDaid.txt", a name no file has, and never succeeds.
CloseAuction(r) ==
    /\ pc[r] = "CloseAuction"
    /\ LET u == Uid(r)
           a == Aid(r)
           known == CheckUserExisted(u) /\ CheckUserLoggedIn(u)
                    /\ CorrectPassword(r) /\ CheckAuctionExists(a) IN
       \/ /\ ~known \/ (~HostedUnreadable(u) /\ a \notin hosted[u])
          /\ Return(r, IF ~CheckUserExisted(u)    THEN "UserDoesNotExist"
                  ELSE IF ~CheckUserLoggedIn(u)   THEN "UserNotLoggedIn"
                  ELSE IF ~CorrectPassword(r)     THEN "IncorrectPassword"
                  ELSE IF ~CheckAuctionExists(a)  THEN "AuctionNotFound"
                                                  ELSE "AuctionNotOwnedByUser")
          /\ UNCHANGED target
       \/ /\ known /\ HostedUnreadable(u)
          /\ Escape(r, "filesystem_error")
          /\ UNCHANGED target
       \/ /\ known /\ ~HostedUnreadable(u) /\ a \in hosted[u]
          /\ ~GetStart(a)
          /\ Return(r, "AuctionNotFound")
          /\ UNCHANGED target
       \/ /\ known /\ ~HostedUnreadable(u) /\ a \in hosted[u]
          /\ GetStart(a)
          /\ target' = [target EXCEPT ![r] = a]
          /\ pc' = [pc EXCEPT ![r] = "CreateEndFile"]
          /\ res' = [res EXCEPT ![r] = IF Expired(a) THEN "AuctionAlreadyClosed"
                                                     ELSE "OK"]
          /\ UNCHANGED <<cont, reply>>
    /\ UNCHANGED <<sharedRest, hosted, bidded, auctionFiles, faults, stamp, out>>

-----------------------------------------------------------------------------
(* BID                                                                     *)

\* Mutant: a bid as high as the highest one is accepted.
OutbidByMore(r) ==
    LET a == Aid(r) IN
    IF BidValues(a) = {} THEN start[a].value >= req[r].value
    ELSE \E v \in BidValues(a) : bids[a][v] # Empty /\ v > req[r].value

\* The loop over aid/BIDS, in the order of the directory: an Empty file met
\* first makes stol throw, one met later repeats the value before it.
Outbid(r) ==
    LET a == Aid(r) IN
    IF BidValues(a) = {} THEN start[a].value >= req[r].value
    ELSE \E v \in BidValues(a) : bids[a][v] # Empty /\ v >= req[r].value
BidUnreadable(a) == \E v \in BidValues(a) : bids[a][v] = Empty
BidAcceptable(r) ==
    /\ ~Outbid(r)
    /\ BidValues(Aid(r)) = {} \/ \E v \in BidValues(Aid(r)) :
                                     bids[Aid(r)][v] # Empty

\* Mutant: the host is not kept from bidding.
SelfBidAllowed(r) ==
    LET u == Uid(r)
        a == Aid(r) IN
    IF ~CheckUserLoggedIn(u)       THEN "UserNotLoggedIn"
    ELSE IF ~CorrectPassword(r)    THEN "NOK"
    ELSE IF ~CheckAuctionExists(a) THEN "AuctionNotFound"
    ELSE IF CheckEndExists(a)      THEN "AuctionAlreadyClosed"
    ELSE IF ~GetStart(a)           THEN "AuctionNotFound"
    ELSE "none"

\* The checks of Bid before it looks at the other bids, in their order.
BidRefusal(r) ==
    LET u == Uid(r)
        a == Aid(r) IN
    IF ~CheckUserLoggedIn(u)       THEN "UserNotLoggedIn"
    ELSE IF ~CorrectPassword(r)    THEN "NOK"
    ELSE IF ~CheckAuctionExists(a) THEN "AuctionNotFound"
    ELSE IF HostedUnreadable(u)    THEN "filesystem_error"
    ELSE IF a \in hosted[u]        THEN "BidOnSelf"
    ELSE IF CheckEndExists(a)      THEN "AuctionAlreadyClosed"
    ELSE IF ~GetStart(a)           THEN "AuctionNotFound"
    ELSE "none"

Bid(r) ==
    /\ pc[r] = "Bid"
    /\ LET a == Aid(r)
           refusal == BidRefusal(r) IN
       \/ /\ refusal \notin {"none", "filesystem_error"}
          /\ Return(r, refusal)
          /\ UNCHANGED target
       \/ /\ refusal = "filesystem_error"
          /\ Escape(r, refusal)
          /\ UNCHANGED target
       \/ /\ refusal = "none" /\ Expired(a)
          /\ target' = [target EXCEPT ![r] = a]
          /\ Goto(r, "CreateEndFile")
       \/ /\ refusal = "none" /\ ~Expired(a) /\ Outbid(r)
          /\ Return(r, "LargerBidAlreadyExists")
          /\ UNCHANGED target
       \/ /\ refusal = "none" /\ ~Expired(a) /\ BidUnreadable(a)
          /\ Escape(r, "invalid_argument")
          /\ UNCHANGED target
       \/ /\ refusal = "none" /\ ~Expired(a) /\ BidAcceptable(r)
          /\ Goto(r, "RegisterBid")
          /\ UNCHANGED target
    /\ UNCHANGED <<sharedRest, hosted, bidded, auctionFiles, faults, stamp, out>>

\* Mutant: Bid goes on if the bidder could not be registered.
BidUnregistered(r) ==
    /\ pc[r] = "RegisterBid"
    /\ Goto(r, "CreateBidFile")
    /\ \/ /\ bidded' = [bidded EXCEPT ![Uid(r)] = @ \cup {Aid(r)}]
          /\ Succeed
       \/ /\ Fail
          /\ UNCHANGED bidded
    /\ UNCHANGED <<sharedRest, hosted, auctionFiles, locals>>

\* fopen fails too if uid/BIDDED was never made.
RegisterBid(r) ==
    /\ pc[r] = "RegisterBid"
    /\ \/ /\ userDir[Uid(r)] = 3
          /\ bidded' = [bidded EXCEPT ![Uid(r)] = @ \cup {Aid(r)}]
          /\ Goto(r, "CreateBidFile")
          /\ Succeed
       \/ /\ userDir[Uid(r)] < 3
          /\ Return(r, "REFUSE")
          /\ UNCHANGED <<bidded, faults>>
       \/ /\ Fail
          /\ Return(r, "REFUSE")
          /\ UNCHANGED bidded
    /\ UNCHANGED <<sharedRest, hosted, auctionFiles, locals>>

\* The clock is read a second time; the file of an equal bid is truncated.
CreateBidFile(r) ==
    /\ pc[r] = "CreateBidFile"
    /\ \/ /\ GetStart(Aid(r))
          /\ bids' = [bids EXCEPT ![Aid(r)][req[r].value] = Empty]
          /\ stamp' = [stamp EXCEPT ![r] = Elapsed(Aid(r))]
          /\ Goto(r, "WriteBid")
          /\ Succeed
       \/ /\ ~GetStart(Aid(r))
          /\ Escape(r, "AuctionNotFound")
          /\ UNCHANGED <<bids, stamp, faults>>
       \/ /\ GetStart(Aid(r))
          /\ Fail
          /\ Return(r, "REFUSE")
          /\ UNCHANGED <<bids, stamp>>
    /\ UNCHANGED <<sharedRest, hosted, bidded, auctionDir, start, asset, end,
                   target, out>>

WriteBid(r) ==
    /\ pc[r] = "WriteBid"
    /\ bids' = [bids EXCEPT ![Aid(r)][req[r].value] =
                   [user |-> Uid(r), at |-> stamp[r]]]
    /\ Return(r, "ACCEPT")
    /\ UNCHANGED <<sharedRest, hosted, bidded, auctionDir, start, asset, end,
                   faults, locals>>

AuctionStep(r) ==
    \/ Open(r) \/ CreateAuctionDir(r) \/ CreateSubDirs(r)
    \/ CreateStartFile(r) \/ WriteStart(r) \/ CreateAssetFile(r)
    \/ WriteAsset(r) \/ RegisterHost(r)
    \/ CreateEndFile(r) \/ OpenEnd(r) \/ WriteEnd(r)
    \/ CloseAuction(r)
    \/ Bid(r) \/ RegisterBid(r) \/ CreateBidFile(r) \/ WriteBid(r)
=============================================================================
