------------------------------ MODULE Listings ------------------------------
(***************************************************************************)
(* Database::MyAuctions, MyBids, List, ShowRecord and ShowAsset: the       *)
(* requests LMA, LMB, LST, SRC and SAS.  The listings end the auctions     *)
(* whose time is over as they meet them (Close, in module Auctions).       *)
(***************************************************************************)
EXTENDS Auctions

\* What no step of these functions changes.
listingRest == <<userFiles, auctionFiles, sem, now, faults, crashes, req,
                 stamp>>

-----------------------------------------------------------------------------
(* LMA, LMB and LST                                                        *)

\* A listing of the directory entries es.  If the directory was never made
\* is_empty throws, after the sem_wait and before any sem_post.
ListEntries(r, made, es) ==
    \/ /\ ~made
       /\ Escape(r, "filesystem_error")
       /\ UNCHANGED todo
    \/ /\ made /\ es = {}
       /\ Return(r, "LIST")
       /\ UNCHANGED todo
    \/ /\ made /\ es # {}
       /\ todo' = [todo EXCEPT ![r] = es]
       /\ Goto(r, "Visit")

MyAuctions(r) ==
    /\ pc[r] = "MyAuctions"
    /\ ListEntries(r, userDir[Uid(r)] >= 2, hosted[Uid(r)])
    /\ UNCHANGED <<listingRest, target, out>>

MyBids(r) ==
    /\ pc[r] = "MyBids"
    /\ ListEntries(r, userDir[Uid(r)] = 3, bidded[Uid(r)])
    /\ UNCHANGED <<listingRest, target, out>>

\* List is entered without a sem_wait but leaves through a sem_post.
List(r) ==
    /\ pc[r] = "List"
    /\ ListEntries(r, TRUE, AuctionDirs)
    /\ UNCHANGED <<listingRest, target, out>>

\* One round of the loop over the directory, in whatever order it has.
Visit(r) ==
    /\ pc[r] = "Visit"
    /\ \/ /\ todo[r] = {}
          /\ Return(r, "LIST")
          /\ UNCHANGED <<todo, target, out>>
       \/ \E a \in todo[r] :
             /\ todo' = [todo EXCEPT ![r] = @ \ {a}]
             /\ \/ /\ CheckEndExists(a)
                   /\ out' = [out EXCEPT ![r] = @ \cup {<<a, FALSE>>}]
                   /\ Goto(r, "Visit")
                   /\ UNCHANGED target
                \/ /\ ~CheckEndExists(a) /\ ~GetStart(a)
                   /\ Return(r, "AuctionNotFound")
                   /\ UNCHANGED <<target, out>>
                \/ /\ ~CheckEndExists(a) /\ GetStart(a) /\ Expired(a)
                   /\ target' = [target EXCEPT ![r] = a]
                   /\ Goto(r, "CreateEndFile")
                   /\ UNCHANGED out
                \/ /\ ~CheckEndExists(a) /\ GetStart(a) /\ ~Expired(a)
                   /\ out' = [out EXCEPT ![r] = @ \cup {<<a, TRUE>>}]
                   /\ Goto(r, "Visit")
                   /\ UNCHANGED target
    /\ UNCHANGED listingRest

-----------------------------------------------------------------------------
(* SRC                                                                     *)

\* The record is torn if it shows a file that was opened and not written.
BidsTorn(a) == \E v \in BidValues(a) : bids[a][v] = Empty

ShowRecord(r) ==
    /\ pc[r] = "ShowRecord"
    /\ LET a == Aid(r) IN
       \/ /\ ~GetStart(a)
          /\ Return(r, "AuctionNotFound")
          /\ UNCHANGED target
       \/ /\ GetStart(a) /\ CheckEndExists(a)
          /\ target' = [target EXCEPT ![r] = a]
          /\ Goto(r, "ReadRecord")
       \/ /\ GetStart(a) /\ ~CheckEndExists(a) /\ Expired(a)
          /\ target' = [target EXCEPT ![r] = a]
          /\ Goto(r, "CreateEndFile")
       \/ /\ GetStart(a) /\ ~CheckEndExists(a) /\ ~Expired(a)
          /\ Return(r, IF BidsTorn(a) THEN "TORN" ELSE "ACTIVE")
          /\ UNCHANGED target
    /\ UNCHANGED <<listingRest, todo, out>>

\* GetEnd on a file that is missing or empty leaves end_time uninitialised.
ReadRecord(r) ==
    /\ pc[r] = "ReadRecord"
    /\ Return(r, IF end[target[r]] \in Absent \/ BidsTorn(target[r])
                 THEN "TORN" ELSE "ENDED")
    /\ UNCHANGED <<listingRest, target, todo, out>>

-----------------------------------------------------------------------------
(* SAS                                                                     *)

\* GetAssetDir looks for the file before the lock is taken: is_empty throws
\* without a directory to read, and what it found is used after the wait.
GetAssetDir(r) ==
    /\ pc[r] = "GetAssetDir"
    /\ \/ /\ auctionDir[Aid(r)] < 3
          /\ Escape(r, "filesystem_error")
       \/ /\ auctionDir[Aid(r)] = 3
          /\ pc' = [pc EXCEPT ![r] = "wait"]
          /\ cont' = [cont EXCEPT ![r] = IF asset[Aid(r)] = "none"
                                         THEN "NoAsset" ELSE "ShowAsset"]
          /\ UNCHANGED <<res, reply>>
    /\ UNCHANGED <<listingRest, target, todo, out>>

ShowAsset(r) ==
    /\ pc[r] \in {"NoAsset", "ShowAsset"}
    /\ Return(r, IF pc[r] = "NoAsset" THEN "AssetDoesNotExist"
                 ELSE IF asset[Aid(r)] = "whole" THEN "OK" ELSE "TORN")
    /\ UNCHANGED <<listingRest, target, todo, out>>

ListingStep(r) ==
    \/ MyAuctions(r) \/ MyBids(r) \/ List(r) \/ Visit(r)
    \/ ShowRecord(r) \/ ReadRecord(r)
    \/ GetAssetDir(r) \/ ShowAsset(r)
=============================================================================
