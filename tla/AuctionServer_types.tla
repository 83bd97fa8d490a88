------------------------ MODULE AuctionServer_types ------------------------
(***************************************************************************)
(* The type invariant of AuctionServer and its lock, for every value of    *)
(* its constants: any number of users, auctions, requests, crashes and     *)
(* failures, and any menu of requests.                                     *)
(***************************************************************************)
EXTENDS AuctionServer, TLAPS

\* The labels at which a process uses the auction in target[r].
TargetLabels == {"CreateAuctionDir", "CreateSubDirs", "CreateStartFile",
                 "WriteStart", "CreateAssetFile", "WriteAsset", "RegisterHost",
                 "CreateEndFile", "OpenEnd", "WriteEnd", "ReadRecord"}

\* What TypeOK does not say of the locals of a process and a later step
\* relies on: a section to enter, an auction, a time.
LocalsOK ==
    \A r \in Requests :
        /\ pc[r] = "wait" => cont[r] # "none"
        /\ pc[r] \in TargetLabels => target[r] \in Aids
        /\ pc[r] = "WriteStart" => stamp[r] \in Times

TypeInv == TypeOK /\ LocalsOK

\* The server starts in a state of these types.
LEMMA InitTypeInv == Init => TypeInv
  <1> SUFFICES ASSUME Init PROVE TypeInv
    OBVIOUS
  <1>1. FilesTypeOK
    BY InitAssumption DEF Init, FilesTypeOK, Known, Absent
  <1>2. ProcessTypeOK
    BY BoundsAssumption, MenuAssumption
       DEF Init, ProcessTypeOK, Labels, CriticalLabels, Sections, Results, Times
  <1>3. LocalsOK
    BY DEF Init, LocalsOK, TargetLabels
  <1> QED
    BY <1>1, <1>2, <1>3 DEF TypeInv, TypeOK

\* The fields of a request have the types of Message.
LEMMA RequestType ==
    ASSUME TypeInv, NEW r \in Requests
    PROVE  /\ Uid(r) \in Users /\ Aid(r) \in Aids
           /\ req[r].pw \in Passwords /\ req[r].value \in Values
           /\ req[r].time \in Nat /\ Op(r) \in UdpOps \cup TcpOps
  BY MenuAssumption DEF TypeInv, TypeOK, ProcessTypeOK, Message, Uid, Aid, Op

-----------------------------------------------------------------------------
\* No step of LoginUser, Logout and Unregister leaves the types.
LEMMA AccountStepType ==
    ASSUME TypeInv, NEW r \in Requests, AccountStep(r) PROVE TypeInv'
  <1>0. /\ Uid(r) \in Users /\ Aid(r) \in Aids
        /\ req[r].pw \in Passwords /\ req[r].value \in Values
        /\ req[r].time \in Nat /\ Op(r) \in UdpOps \cup TcpOps
    BY RequestType
  <1> USE <1>0, BoundsAssumption DEF TypeInv, TypeOK, otherFiles, auctionFiles, locals
  <1>1. CASE LoginUser(r)
    <2>1. FilesTypeOK'
      BY <1>1 DEF LoginUser, FilesTypeOK
    <2>2. ProcessTypeOK'
      BY <1>1 DEF LoginUser, ProcessTypeOK, Goto, Return, Labels,
         CriticalLabels, Results
    <2>3. LocalsOK'
      BY <1>1 DEF LoginUser, ProcessTypeOK, LocalsOK, Goto, Return,
         TargetLabels
    <2> QED
      BY <2>1, <2>2, <2>3
  <1>2. CASE CreateUserDir(r)
    <2>1. FilesTypeOK'
      BY <1>2 DEF CreateUserDir, FilesTypeOK
    <2>2. ProcessTypeOK'
      BY <1>2 DEF CreateUserDir, ProcessTypeOK, Goto, Return, Succeed, Fail,
         Labels, CriticalLabels, Results
    <2>3. LocalsOK'
      BY <1>2 DEF CreateUserDir, ProcessTypeOK, LocalsOK, Goto, Return,
         TargetLabels
    <2> QED
      BY <2>1, <2>2, <2>3
  <1>3. CASE CreatePassword(r)
    <2>1. FilesTypeOK'
      BY <1>3 DEF CreatePassword, FilesTypeOK, Absent
    <2>2. ProcessTypeOK'
      BY <1>3 DEF CreatePassword, ProcessTypeOK, Goto, Return, Succeed, Fail,
         Labels, CriticalLabels, Results
    <2>3. LocalsOK'
      BY <1>3 DEF CreatePassword, ProcessTypeOK, LocalsOK, Goto, Return,
         TargetLabels
    <2> QED
      BY <2>1, <2>2, <2>3
  <1>4. CASE WritePassword(r)
    <2>1. FilesTypeOK'
      BY <1>4 DEF WritePassword, FilesTypeOK
    <2>2. ProcessTypeOK'
      BY <1>4 DEF WritePassword, ProcessTypeOK, Labels, CriticalLabels,
         Results
    <2>3. LocalsOK'
      BY <1>4 DEF WritePassword, ProcessTypeOK, LocalsOK, TargetLabels
    <2> QED
      BY <2>1, <2>2, <2>3
  <1>5. CASE CreateLogin(r)
    <2>1. FilesTypeOK'
      BY <1>5 DEF CreateLogin, FilesTypeOK
    <2>2. ProcessTypeOK'
      BY <1>5 DEF CreateLogin, ProcessTypeOK, Return, Succeed, Fail, Labels,
         CriticalLabels, Results
    <2>3. LocalsOK'
      BY <1>5 DEF CreateLogin, ProcessTypeOK, LocalsOK, Return, TargetLabels
    <2> QED
      BY <2>1, <2>2, <2>3
  <1>6. CASE Logout(r)
    <2>1. FilesTypeOK'
      BY <1>6 DEF Logout, FilesTypeOK
    <2>2. ProcessTypeOK'
      BY <1>6 DEF Logout, ProcessTypeOK, Return, Reenter, Labels,
         CriticalLabels, Results, Sections
    <2>3. LocalsOK'
      BY <1>6 DEF Logout, ProcessTypeOK, LocalsOK, Return, Reenter,
         TargetLabels
    <2> QED
      BY <2>1, <2>2, <2>3
  <1>7. CASE Unregister(r)
    <2>1. FilesTypeOK'
      BY <1>7 DEF Unregister, FilesTypeOK
    <2>2. ProcessTypeOK'
      BY <1>7 DEF Unregister, ProcessTypeOK, Return, Reenter, Labels,
         CriticalLabels, Results, Sections
    <2>3. LocalsOK'
      BY <1>7 DEF Unregister, ProcessTypeOK, LocalsOK, Return, Reenter,
         TargetLabels
    <2> QED
      BY <2>1, <2>2, <2>3
  <1>8. CASE ErasePassword(r)
    <2>1. FilesTypeOK'
      BY <1>8 DEF ErasePassword, FilesTypeOK, Absent
    <2>2. ProcessTypeOK'
      BY <1>8 DEF ErasePassword, ProcessTypeOK, Return, Labels,
         CriticalLabels, Results
    <2>3. LocalsOK'
      BY <1>8 DEF ErasePassword, ProcessTypeOK, LocalsOK, Return, TargetLabels
    <2> QED
      BY <2>1, <2>2, <2>3
  <1> QED
    BY <1>1, <1>2, <1>3, <1>4, <1>5, <1>6, <1>7, <1>8 DEF AccountStep

-----------------------------------------------------------------------------
\* One more entry keeps a listing a set of pairs.
LEMMA ListedType ==
    ASSUME NEW f \in [Requests -> SUBSET (Aids \X BOOLEAN)], NEW r \in Requests,
           NEW a \in Aids, NEW b \in BOOLEAN
    PROVE  [f EXCEPT ![r] = @ \cup {<<a, b>>}] \in
               [Requests -> SUBSET (Aids \X BOOLEAN)]
  OBVIOUS

\* No step of Open, CloseAuction and Bid leaves the types.
LEMMA AuctionStepType ==
    ASSUME TypeInv, NEW r \in Requests, AuctionStep(r) PROVE TypeInv'
  <1>0. /\ Uid(r) \in Users /\ Aid(r) \in Aids
        /\ req[r].pw \in Passwords /\ req[r].value \in Values
        /\ req[r].time \in Nat /\ Op(r) \in UdpOps \cup TcpOps
    BY RequestType
  <1> USE <1>0, BoundsAssumption DEF TypeInv, TypeOK, sharedRest, auctionFiles, locals
  <1>1. CASE Open(r)
    <2>1. FilesTypeOK'
      BY <1>1 DEF Open, FilesTypeOK
    <2>2. ProcessTypeOK'
      BY <1>1 DEF Open, TooMany, Aids, ProcessTypeOK, Goto, Return, Labels,
         CriticalLabels, Results
    <2>3. LocalsOK'
      BY <1>1 DEF Open, TooMany, Aids, ProcessTypeOK, LocalsOK, Goto, Return,
         TargetLabels
    <2> QED
      BY <2>1, <2>2, <2>3
  <1>2. CASE CreateAuctionDir(r)
    <2>1. FilesTypeOK'
      BY <1>2 DEF CreateAuctionDir, OpenFails, FilesTypeOK
    <2>2. ProcessTypeOK'
      BY <1>2 DEF CreateAuctionDir, OpenFails, ProcessTypeOK, Goto, Return,
         Succeed, Fail, Labels, CriticalLabels, Results
    <2>3. LocalsOK'
      BY <1>2 DEF CreateAuctionDir, OpenFails, ProcessTypeOK, LocalsOK, Goto,
         Return, TargetLabels
    <2> QED
      BY <2>1, <2>2, <2>3
  <1>3. CASE CreateSubDirs(r)
    <2>1. FilesTypeOK'
      BY <1>3 DEF CreateSubDirs, OpenFails, FilesTypeOK
    <2>2. ProcessTypeOK'
      BY <1>3 DEF CreateSubDirs, OpenFails, ProcessTypeOK, Goto, Return,
         Succeed, Fail, Labels, CriticalLabels, Results
    <2>3. LocalsOK'
      BY <1>3 DEF CreateSubDirs, OpenFails, ProcessTypeOK, LocalsOK, Goto,
         Return, TargetLabels
    <2> QED
      BY <2>1, <2>2, <2>3
  <1>4. CASE CreateStartFile(r)
    <2>1. FilesTypeOK'
      BY <1>4 DEF CreateStartFile, OpenFails, FilesTypeOK, Absent
    <2>2. ProcessTypeOK'
      BY <1>4 DEF CreateStartFile, OpenFails, Times, ProcessTypeOK, Goto,
         Return, Succeed, Fail, Labels, CriticalLabels, Results
    <2>3. LocalsOK'
      BY <1>4 DEF CreateStartFile, OpenFails, ProcessTypeOK, LocalsOK, Goto,
         Return, TargetLabels
    <2> QED
      BY <2>1, <2>2, <2>3
  <1>5. CASE WriteStart(r)
    <2>1. FilesTypeOK'
      BY <1>5 DEF WriteStart, FilesTypeOK, StartInfo, ProcessTypeOK, LocalsOK
    <2>2. ProcessTypeOK'
      BY <1>5 DEF WriteStart, ProcessTypeOK, Goto, Labels, CriticalLabels
    <2>3. LocalsOK'
      BY <1>5 DEF WriteStart, ProcessTypeOK, LocalsOK, Goto, TargetLabels
    <2> QED
      BY <2>1, <2>2, <2>3
  <1>6. CASE CreateAssetFile(r)
    <2>1. FilesTypeOK'
      BY <1>6 DEF CreateAssetFile, OpenFails, FilesTypeOK
    <2>2. ProcessTypeOK'
      BY <1>6 DEF CreateAssetFile, OpenFails, ProcessTypeOK, Goto, Return,
         Succeed, Fail, Labels, CriticalLabels, Results
    <2>3. LocalsOK'
      BY <1>6 DEF CreateAssetFile, OpenFails, ProcessTypeOK, LocalsOK, Goto,
         Return, TargetLabels
    <2> QED
      BY <2>1, <2>2, <2>3
  <1>7. CASE WriteAsset(r)
    <2>1. FilesTypeOK'
      BY <1>7 DEF WriteAsset, FilesTypeOK
    <2>2. ProcessTypeOK'
      BY <1>7 DEF WriteAsset, ProcessTypeOK, Goto, Labels, CriticalLabels
    <2>3. LocalsOK'
      BY <1>7 DEF WriteAsset, ProcessTypeOK, LocalsOK, Goto, TargetLabels
    <2> QED
      BY <2>1, <2>2, <2>3
  <1>8. CASE RegisterHost(r)
    <2>1. FilesTypeOK'
      <3>1. target[r] \in Aids
        BY <1>8 DEF RegisterHost, LocalsOK, TargetLabels

      <3>2. hosted' \in [Users -> SUBSET Aids]
        BY <1>8, <3>1 DEF RegisterHost, OpenFails, FilesTypeOK
      <3> QED
        BY <1>8, <3>2 DEF RegisterHost, FilesTypeOK
    <2>2. ProcessTypeOK'
      BY <1>8 DEF RegisterHost, OpenFails, ProcessTypeOK, Return, Succeed,
         Fail, Labels, CriticalLabels, Results
    <2>3. LocalsOK'
      BY <1>8 DEF RegisterHost, OpenFails, ProcessTypeOK, LocalsOK, Return,
         TargetLabels
    <2> QED
      BY <2>1, <2>2, <2>3
  <1>9. CASE CreateEndFile(r)
    <2>1. FilesTypeOK'
      BY <1>9 DEF CreateEndFile, FilesTypeOK
    <2>2. ProcessTypeOK'
      <3>1. target[r] \in Aids
        BY <1>9 DEF CreateEndFile, LocalsOK, TargetLabels

      <3>2. GetStart(target[r]) =>
               start[target[r]].timeactive \in Nat /\ Elapsed(target[r]) \in Int
        BY <3>1 DEF FilesTypeOK, ProcessTypeOK, GetStart, Elapsed, StartInfo, Times
      <3>3. stamp' \in [Requests -> Int]
        BY <1>9, <3>2 DEF CreateEndFile, ProcessTypeOK
      <3> QED
        BY <1>9, <3>3 DEF CreateEndFile, ProcessTypeOK, Goto, Escape, Labels,
           CriticalLabels, Results
    <2>3. LocalsOK'
      BY <1>9 DEF CreateEndFile, ProcessTypeOK, LocalsOK, Goto, Escape,
         TargetLabels
    <2> QED
      BY <2>1, <2>2, <2>3
  <1>10. CASE OpenEnd(r)
    <2>1. FilesTypeOK'
      BY <1>10 DEF OpenEnd, AfterClose, FilesTypeOK, Absent
    <2>2. ProcessTypeOK'
      <3>1. target[r] \in Aids
        BY <1>10 DEF OpenEnd, LocalsOK, TargetLabels

      <3>2. out' \in [Requests -> SUBSET (Aids \X BOOLEAN)]
        <4>1. out \in [Requests -> SUBSET (Aids \X BOOLEAN)]
          BY DEF ProcessTypeOK
        <4>2. [out EXCEPT ![r] = @ \cup {<<target[r], FALSE>>}]
                  \in [Requests -> SUBSET (Aids \X BOOLEAN)]
          BY <3>1, <4>1, ListedType
        <4> QED
          BY <1>10, <4>1, <4>2 DEF OpenEnd, AfterClose
      <3>3. /\ pc' \in [Requests -> Labels] /\ res' \in [Requests -> Results]
            /\ UNCHANGED <<cont, reply>>
        BY <1>10, ZenonT(60)
           DEF OpenEnd, AfterClose, ProcessTypeOK, Goto, Return, Escape, Labels,
               CriticalLabels, Results
      <3> QED
        <4>1. faults' \in 0 .. MaxFaults
          <5>1. faults' = faults \/ (faults < MaxFaults /\ faults' = faults + 1)
            BY <1>10 DEF OpenEnd, Succeed, Fail
          <5> QED
            BY <5>1 DEF ProcessTypeOK
        <4> QED
          BY <1>10, <3>2, <3>3, <4>1 DEF OpenEnd, ProcessTypeOK
    <2>3. LocalsOK'
      BY <1>10 DEF OpenEnd, AfterClose, ProcessTypeOK, LocalsOK, Goto, Return,
         Escape, TargetLabels
    <2> QED
      BY <2>1, <2>2, <2>3
  <1>11. CASE WriteEnd(r)
    <2>1. FilesTypeOK'
      BY <1>11 DEF WriteEnd, AfterClose, FilesTypeOK, ProcessTypeOK
    <2>2. ProcessTypeOK'
      <3>1. target[r] \in Aids
        BY <1>11 DEF WriteEnd, LocalsOK, TargetLabels

      <3>2. out' \in [Requests -> SUBSET (Aids \X BOOLEAN)]
        <4>1. out \in [Requests -> SUBSET (Aids \X BOOLEAN)]
          BY DEF ProcessTypeOK
        <4>2. [out EXCEPT ![r] = @ \cup {<<target[r], FALSE>>}]
                  \in [Requests -> SUBSET (Aids \X BOOLEAN)]
          BY <3>1, <4>1, ListedType
        <4> QED
          BY <1>11, <4>1, <4>2 DEF WriteEnd, AfterClose
      <3>3. /\ pc' \in [Requests -> Labels] /\ res' \in [Requests -> Results]
            /\ UNCHANGED <<cont, reply>>
        BY <1>11, ZenonT(60)
           DEF WriteEnd, AfterClose, ProcessTypeOK, Goto, Return, Escape, Labels,
               CriticalLabels, Results
      <3> QED
        BY <1>11, <3>2, <3>3 DEF WriteEnd, ProcessTypeOK, Succeed, Fail
    <2>3. LocalsOK'
      BY <1>11 DEF WriteEnd, AfterClose, ProcessTypeOK, LocalsOK, Goto,
         Return, Escape, TargetLabels
    <2> QED
      BY <2>1, <2>2, <2>3
  <1>12. CASE CloseAuction(r)
    <2>1. FilesTypeOK'
      BY <1>12 DEF CloseAuction, FilesTypeOK
    <2>2. ProcessTypeOK'
      BY <1>12 DEF CloseAuction, ProcessTypeOK, Return, Escape, Labels,
         CriticalLabels, Results
    <2>3. LocalsOK'
      BY <1>12 DEF CloseAuction, ProcessTypeOK, LocalsOK, Return, Escape,
         TargetLabels
    <2> QED
      BY <2>1, <2>2, <2>3
  <1>13. CASE Bid(r)
    <2>1. FilesTypeOK'
      BY <1>13 DEF Bid, FilesTypeOK
    <2>2. ProcessTypeOK'
      BY <1>13 DEF Bid, BidRefusal, ProcessTypeOK, Goto, Return, Escape,
         Labels, CriticalLabels, Results
    <2>3. LocalsOK'
      BY <1>13 DEF Bid, BidRefusal, ProcessTypeOK, LocalsOK, Goto, Return,
         Escape, TargetLabels
    <2> QED
      BY <2>1, <2>2, <2>3
  <1>14. CASE RegisterBid(r)
    <2>1. FilesTypeOK'
      BY <1>14 DEF RegisterBid, FilesTypeOK
    <2>2. ProcessTypeOK'
      BY <1>14 DEF RegisterBid, ProcessTypeOK, Goto, Return, Succeed, Fail,
         Labels, CriticalLabels, Results
    <2>3. LocalsOK'
      BY <1>14 DEF RegisterBid, ProcessTypeOK, LocalsOK, Goto, Return,
         TargetLabels
    <2> QED
      BY <2>1, <2>2, <2>3
  <1>15. CASE CreateBidFile(r)
    <2>1. FilesTypeOK'
      <3>1. bids' \in [Aids -> [Values -> BidInfo \cup Absent]]
        BY <1>15, SMTT(60) DEF CreateBidFile, FilesTypeOK, Absent
      <3> QED
        BY <1>15, <3>1 DEF CreateBidFile, FilesTypeOK
    <2>2. ProcessTypeOK'
      <3>1. GetStart(Aid(r)) => Elapsed(Aid(r)) \in Int
        BY DEF FilesTypeOK, ProcessTypeOK, GetStart, Elapsed, StartInfo, Times
      <3>2. stamp' \in [Requests -> Int]
        BY <1>15, <3>1 DEF CreateBidFile, ProcessTypeOK
      <3> QED
        BY <1>15, <3>2 DEF CreateBidFile, ProcessTypeOK, Goto, Return, Escape,
           Succeed, Fail, Labels, CriticalLabels, Results
    <2>3. LocalsOK'
      BY <1>15 DEF CreateBidFile, ProcessTypeOK, LocalsOK, Goto, Return,
         Escape, TargetLabels
    <2> QED
      BY <2>1, <2>2, <2>3
  <1>16. CASE WriteBid(r)
    <2>1. FilesTypeOK'
      BY <1>16 DEF WriteBid, FilesTypeOK, BidInfo, Absent, ProcessTypeOK
    <2>2. ProcessTypeOK'
      BY <1>16 DEF WriteBid, ProcessTypeOK, Return, Labels, CriticalLabels,
         Results
    <2>3. LocalsOK'
      BY <1>16 DEF WriteBid, ProcessTypeOK, LocalsOK, Return, TargetLabels
    <2> QED
      BY <2>1, <2>2, <2>3
  <1> QED
    BY <1>1, <1>2, <1>3, <1>4, <1>5, <1>6, <1>7, <1>8, <1>9, <1>10, <1>11, <1>12,
       <1>13, <1>14, <1>15, <1>16 DEF AuctionStep

\* No step of the listings, of ShowRecord and of ShowAsset leaves the types.
LEMMA ListingStepType ==
    ASSUME TypeInv, NEW r \in Requests, ListingStep(r) PROVE TypeInv'
  <1>0. /\ Uid(r) \in Users /\ Aid(r) \in Aids
        /\ req[r].pw \in Passwords /\ req[r].value \in Values
        /\ req[r].time \in Nat /\ Op(r) \in UdpOps \cup TcpOps
    BY RequestType
  <1> USE <1>0, BoundsAssumption DEF TypeInv, TypeOK, listingRest, userFiles, auctionFiles
  <1>1. CASE MyAuctions(r)
    <2>1. FilesTypeOK'
      BY <1>1 DEF MyAuctions, FilesTypeOK
    <2>2. ProcessTypeOK'
      <3>1. todo' \in [Requests -> SUBSET Aids]
        BY <1>1 DEF MyAuctions, ListEntries, FilesTypeOK, ProcessTypeOK
      <3> QED
        BY <1>1, <3>1 DEF MyAuctions, ListEntries, ProcessTypeOK, Goto, Return, Escape,
           Labels, CriticalLabels, Results
    <2>3. LocalsOK'
      BY <1>1 DEF MyAuctions, ListEntries, ProcessTypeOK, LocalsOK, Goto,
         Return, Escape, TargetLabels
    <2> QED
      BY <2>1, <2>2, <2>3
  <1>2. CASE MyBids(r)
    <2>1. FilesTypeOK'
      BY <1>2 DEF MyBids, FilesTypeOK
    <2>2. ProcessTypeOK'
      <3>1. todo' \in [Requests -> SUBSET Aids]
        BY <1>2 DEF MyBids, ListEntries, FilesTypeOK, ProcessTypeOK
      <3> QED
        BY <1>2, <3>1 DEF MyBids, ListEntries, ProcessTypeOK, Goto, Return, Escape,
           Labels, CriticalLabels, Results
    <2>3. LocalsOK'
      BY <1>2 DEF MyBids, ListEntries, ProcessTypeOK, LocalsOK, Goto, Return,
         Escape, TargetLabels
    <2> QED
      BY <2>1, <2>2, <2>3
  <1>3. CASE List(r)
    <2>1. FilesTypeOK'
      BY <1>3 DEF List, FilesTypeOK
    <2>2. ProcessTypeOK'
      BY <1>3 DEF List, ListEntries, AuctionDirs, ProcessTypeOK, Goto, Return,
         Escape, Labels, CriticalLabels, Results
    <2>3. LocalsOK'
      BY <1>3 DEF List, ListEntries, ProcessTypeOK, LocalsOK, Goto, Return,
         Escape, TargetLabels
    <2> QED
      BY <2>1, <2>2, <2>3
  <1>4. CASE Visit(r)
    <2>1. FilesTypeOK'
      BY <1>4 DEF Visit, FilesTypeOK
    <2>2. ProcessTypeOK' /\ LocalsOK'
      <3>1. CASE todo[r] = {} /\ Return(r, "LIST") /\ UNCHANGED <<todo, target, out>>
        BY <1>4, <3>1 DEF Visit, ProcessTypeOK, LocalsOK, Return, Labels,
           CriticalLabels, Results, TargetLabels
      <3>2. ASSUME NEW a \in todo[r],
                   todo' = [todo EXCEPT ![r] = @ \ {a}],
                   \/ /\ out' = [out EXCEPT ![r] = @ \cup {<<a, FALSE>>}]
                      /\ Goto(r, "Visit") /\ UNCHANGED target
                   \/ Return(r, "AuctionNotFound") /\ UNCHANGED <<target, out>>
                   \/ /\ target' = [target EXCEPT ![r] = a]
                      /\ Goto(r, "CreateEndFile") /\ UNCHANGED out
                   \/ /\ out' = [out EXCEPT ![r] = @ \cup {<<a, TRUE>>}]
                      /\ Goto(r, "Visit") /\ UNCHANGED target
            PROVE  ProcessTypeOK' /\ LocalsOK'
        <4>1. a \in Aids
          BY <3>2 DEF ProcessTypeOK
        <4>2. out' \in [Requests -> SUBSET (Aids \X BOOLEAN)]
          <5>1. out \in [Requests -> SUBSET (Aids \X BOOLEAN)]
            BY DEF ProcessTypeOK
          <5>2. \A b \in BOOLEAN : [out EXCEPT ![r] = @ \cup {<<a, b>>}]
                                        \in [Requests -> SUBSET (Aids \X BOOLEAN)]
            BY <4>1, <5>1, ListedType
          <5> QED
            BY <3>2, <5>1, <5>2 DEF Return
        <4>3. todo' \in [Requests -> SUBSET Aids]
          BY <3>2 DEF ProcessTypeOK
        <4>4. target' \in [Requests -> Aids \cup {0}]
          BY <3>2, <4>1 DEF ProcessTypeOK
        <4>5. /\ pc' \in [Requests -> Labels] /\ res' \in [Requests -> Results]
              /\ UNCHANGED <<cont, reply>>
          BY <3>2, ZenonT(60)
             DEF ProcessTypeOK, Goto, Return, Labels, CriticalLabels, Results
        <4>6. LocalsOK'
          BY <1>4, <3>2, <4>1, ZenonT(60)
             DEF Visit, ProcessTypeOK, LocalsOK, Goto, Return, TargetLabels
        <4> QED
          BY <1>4, <4>2, <4>3, <4>4, <4>5, <4>6 DEF Visit, ProcessTypeOK
      <3> QED
        BY <1>4, <3>1, <3>2 DEF Visit
    <2> QED
      BY <2>1, <2>2
  <1>5. CASE ShowRecord(r)
    <2>1. FilesTypeOK'
      BY <1>5 DEF ShowRecord, FilesTypeOK
    <2>2. ProcessTypeOK'
      BY <1>5 DEF ShowRecord, ProcessTypeOK, Goto, Return, Labels,
         CriticalLabels, Results
    <2>3. LocalsOK'
      BY <1>5 DEF ShowRecord, ProcessTypeOK, LocalsOK, Goto, Return,
         TargetLabels
    <2> QED
      BY <2>1, <2>2, <2>3
  <1>6. CASE ReadRecord(r)
    <2>1. FilesTypeOK'
      BY <1>6 DEF ReadRecord, FilesTypeOK
    <2>2. ProcessTypeOK'
      BY <1>6 DEF ReadRecord, ProcessTypeOK, Return, Labels, CriticalLabels,
         Results
    <2>3. LocalsOK'
      BY <1>6 DEF ReadRecord, ProcessTypeOK, LocalsOK, Return, TargetLabels
    <2> QED
      BY <2>1, <2>2, <2>3
  <1>7. CASE GetAssetDir(r)
    <2>1. FilesTypeOK'
      BY <1>7 DEF GetAssetDir, FilesTypeOK
    <2>2. ProcessTypeOK'
      BY <1>7 DEF GetAssetDir, ProcessTypeOK, Escape, Labels, CriticalLabels,
         Results, Sections
    <2>3. LocalsOK'
      BY <1>7 DEF GetAssetDir, ProcessTypeOK, LocalsOK, Escape, TargetLabels
    <2> QED
      BY <2>1, <2>2, <2>3
  <1>8. CASE ShowAsset(r)
    <2>1. FilesTypeOK'
      BY <1>8 DEF ShowAsset, FilesTypeOK
    <2>2. ProcessTypeOK'
      BY <1>8 DEF ShowAsset, ProcessTypeOK, Return, Labels, CriticalLabels,
         Results
    <2>3. LocalsOK'
      BY <1>8 DEF ShowAsset, ProcessTypeOK, LocalsOK, Return, TargetLabels
    <2> QED
      BY <2>1, <2>2, <2>3
  <1> QED
    BY <1>1, <1>2, <1>3, <1>4, <1>5, <1>6, <1>7, <1>8 DEF ListingStep

\* Every reply table answers with a status of the protocol.
LEMMA RepliesType ==
    ASSUME TypeInv, NEW r \in Requests PROVE PossibleReplies(r) \subseteq Statuses
  <1>1. Op(r) \in UdpOps \cup TcpOps
    BY RequestType
  <1>2. ASSUME NEW op \in UdpOps \cup TcpOps, NEW x \in DOMAIN ReplyTable[op]
        PROVE  ReplyTable[op][x] \in Statuses
    BY DEF UdpOps, TcpOps, ReplyTable, LoginReply, LogoutReply, UnregisterReply,
       ListReply, RecordReply, OpenReply, CloseReply, AssetReply, BidReply, Statuses
  <1> QED
    BY <1>1, <1>2 DEF PossibleReplies, ListingStatus, UninitialisedClose, Statuses

\* Neither the semaphore operations nor the reply leave the types: the label
\* SemaphoreWait goes to is one of the program.
LEMMA LockStepType ==
    ASSUME TypeInv, NEW r \in Requests, SemaphoreWait(r) \/ SemaphorePost(r) \/ Reply(r)
    PROVE  TypeInv'
  <1>0. /\ Uid(r) \in Users /\ Aid(r) \in Aids
        /\ req[r].pw \in Passwords /\ req[r].value \in Values
        /\ req[r].time \in Nat /\ Op(r) \in UdpOps \cup TcpOps
    BY RequestType
  <1> USE <1>0, BoundsAssumption DEF TypeInv, TypeOK, userFiles, auctionFiles, locals
  <1>1. CASE SemaphoreWait(r)
    <2>1. FilesTypeOK'
      BY <1>1 DEF SemaphoreWait, FilesTypeOK
    <2>2. ProcessTypeOK'
      BY <1>1 DEF SemaphoreWait, Sections, Labels, CriticalLabels,
         ProcessTypeOK, LocalsOK
    <2>3. LocalsOK'
      BY <1>1 DEF SemaphoreWait, Sections, Labels, CriticalLabels,
         ProcessTypeOK, LocalsOK, TargetLabels
    <2> QED
      BY <2>1, <2>2, <2>3
  <1>2. CASE SemaphorePost(r)
    <2>1. FilesTypeOK'
      BY <1>2 DEF SemaphorePost, FilesTypeOK
    <2>2. ProcessTypeOK'
      BY <1>2 DEF SemaphorePost, ProcessTypeOK, Labels, CriticalLabels
    <2>3. LocalsOK'
      BY <1>2 DEF SemaphorePost, ProcessTypeOK, LocalsOK, TargetLabels
    <2> QED
      BY <2>1, <2>2, <2>3
  <1>3. CASE Reply(r)
    <2>1. FilesTypeOK'
      BY <1>3 DEF Reply, FilesTypeOK
    <2>2. ProcessTypeOK'
      BY <1>3, RepliesType DEF Reply, ProcessTypeOK, Labels, CriticalLabels
    <2>3. LocalsOK'
      BY <1>3 DEF Reply, ProcessTypeOK, LocalsOK, TargetLabels
    <2> QED
      BY <2>1, <2>2, <2>3
  <1> QED
    BY <1>1, <1>2, <1>3

\* No step of a process leaves the types.
LEMMA ServeType == ASSUME TypeInv, NEW r \in Requests, Serve(r) PROVE TypeInv'
  BY AccountStepType, AuctionStepType, ListingStepType, LockStepType DEF Serve

-----------------------------------------------------------------------------
\* TypeInv is inductive, and true in every state.
LEMMA TypeInvariant == Spec => []TypeInv
  <1>1. ASSUME TypeInv, [Next]_vars PROVE TypeInv'
    <2>1. CASE \E r \in Requests : Arrive(r)
      <3> PICK r \in Requests : Arrive(r)
        BY <2>1
      <3> USE <1>1 DEF TypeInv, TypeOK, Arrive, userFiles, auctionFiles, locals
      <3>1. FilesTypeOK'
        BY DEF FilesTypeOK
      <3>2. PICK m \in Menu : /\ req' = [req EXCEPT ![r] = m]
                              /\ pc' = [pc EXCEPT ![r] = Entry(m.op)]
                              /\ cont' = [cont EXCEPT ![r] = CriticalSection[m.op]]
        OBVIOUS
      <3>3. m.op \in UdpOps \cup TcpOps
        BY MenuAssumption DEF Message
      <3>4. /\ Entry(m.op) \in {"List", "GetAssetDir", "wait"}
            /\ CriticalSection[m.op] \in Sections
            /\ Entry(m.op) = "wait" => CriticalSection[m.op] # "none"
        BY <3>3 DEF Entry, CriticalSection, Sections, UdpOps, TcpOps
      <3>5. ProcessTypeOK'
        BY <3>2, <3>4 DEF ProcessTypeOK, Labels
      <3>6. LocalsOK'
        BY <3>2, <3>4 DEF ProcessTypeOK, LocalsOK, TargetLabels
      <3> QED
        BY <3>1, <3>5, <3>6
    <2>2. CASE \E r \in Requests : Serve(r)
      BY <1>1, <2>2, ServeType
    <2>3. CASE \E r \in Requests : Crash(r)
      <3> USE <1>1, <2>3, BoundsAssumption
          DEF TypeInv, TypeOK, Crash, userFiles, auctionFiles, locals
      <3>1. FilesTypeOK'
        BY DEF FilesTypeOK
      <3>2. ProcessTypeOK'
        BY DEF ProcessTypeOK, Labels
      <3>3. LocalsOK'
        BY DEF ProcessTypeOK, LocalsOK, TargetLabels
      <3> QED
        BY <3>1, <3>2, <3>3
    <2>4. CASE Tick
      BY <1>1, <2>4, BoundsAssumption DEF TypeInv, TypeOK, FilesTypeOK,
         ProcessTypeOK, LocalsOK, Tick, Times, userFiles, auctionFiles, locals
    <2>5. CASE Restart
      <3> USE <1>1, <2>5, BoundsAssumption
          DEF TypeInv, TypeOK, Restart, userFiles, auctionFiles, locals
      <3>1. FilesTypeOK'
        BY DEF FilesTypeOK
      <3>2. ProcessTypeOK'
        BY DEF ProcessTypeOK, Labels
      <3>3. LocalsOK'
        BY DEF ProcessTypeOK, LocalsOK, TargetLabels
      <3> QED
        BY <3>1, <3>2, <3>3
    <2>6. CASE UNCHANGED vars
      BY <1>1, <2>6 DEF TypeInv, TypeOK, FilesTypeOK, ProcessTypeOK, LocalsOK,
         vars, userFiles, auctionFiles, locals
    <2> QED
      BY <1>1, <2>1, <2>2, <2>3, <2>4, <2>5, <2>6 DEF Next, Terminated
  <1> QED
    BY <1>1, InitTypeInv, PTL DEF Spec

\* The directory tree and the processes have the types the code gives them in
\* every state, whichever processes die and whichever files cannot be made.
THEOREM TypeCorrect == Spec => []TypeOK
  <1>1. TypeInv => TypeOK
    BY DEF TypeInv
  <1> QED
    BY <1>1, TypeInvariant, PTL

-----------------------------------------------------------------------------
(* The semaphore keeps the processes apart as long as no client sends LST: *)
(* List gives back a semaphore it has not taken (run unlocked_list).       *)

NoListRequest == \A m \in Menu : m.op # "LST"

\* The semaphore is taken whenever a process is inside, it is never more than
\* one, and no process is in List.
LockInv == /\ sem \in {0, 1}
           /\ MutualExclusion
           /\ ~LockFree => sem = 0
           /\ \A r \in Requests : pc[r] # "List"

\* A step of one of the database functions other than List happens inside a
\* critical section, leaves the semaphore alone and stays inside, or leaves
\* without a sem_post; or it is the part of SAS before the sem_wait.
LocalStep(r) ==
    /\ UNCHANGED <<sem, req>>
    /\ \/ /\ pc[r] \in CriticalLabels
          /\ \E l \in CriticalLabels \cup {"reply"} : pc' = [pc EXCEPT ![r] = l]
       \/ /\ pc[r] = "GetAssetDir"
          /\ \E l \in {"wait", "reply"} : pc' = [pc EXCEPT ![r] = l]

\* No step of LoginUser, Logout and Unregister touches the semaphore.
LEMMA AccountStepLocal ==
    ASSUME NEW r \in Requests, AccountStep(r) PROVE LocalStep(r)
  <1> USE DEF LocalStep, CriticalLabels, otherFiles, Goto, Return, Reenter
  <1>1. CASE LoginUser(r)       BY <1>1 DEF LoginUser
  <1>2. CASE CreateUserDir(r)   BY <1>2 DEF CreateUserDir
  <1>3. CASE CreatePassword(r)  BY <1>3 DEF CreatePassword
  <1>4. CASE WritePassword(r)   BY <1>4 DEF WritePassword
  <1>5. CASE CreateLogin(r)     BY <1>5 DEF CreateLogin
  <1>6. CASE Logout(r)          BY <1>6 DEF Logout
  <1>7. CASE Unregister(r)      BY <1>7 DEF Unregister
  <1>8. CASE ErasePassword(r)   BY <1>8 DEF ErasePassword
  <1> QED
    BY <1>1, <1>2, <1>3, <1>4, <1>5, <1>6, <1>7, <1>8 DEF AccountStep

\* No step of Open, CloseAuction and Bid touches the semaphore.
LEMMA AuctionStepLocal ==
    ASSUME NEW r \in Requests, AuctionStep(r) PROVE LocalStep(r)
  <1> USE DEF LocalStep, CriticalLabels, sharedRest, Goto, Return, Escape,
              OpenFails, AfterClose
  <1>1. CASE Open(r)              BY <1>1 DEF Open
  <1>2. CASE CreateAuctionDir(r)  BY <1>2 DEF CreateAuctionDir
  <1>3. CASE CreateSubDirs(r)     BY <1>3 DEF CreateSubDirs
  <1>4. CASE CreateStartFile(r)   BY <1>4 DEF CreateStartFile
  <1>5. CASE WriteStart(r)        BY <1>5 DEF WriteStart
  <1>6. CASE CreateAssetFile(r)   BY <1>6 DEF CreateAssetFile
  <1>7. CASE WriteAsset(r)        BY <1>7 DEF WriteAsset
  <1>8. CASE RegisterHost(r)      BY <1>8 DEF RegisterHost
  <1>9. CASE CreateEndFile(r)     BY <1>9 DEF CreateEndFile
  <1>10. CASE OpenEnd(r)          BY <1>10 DEF OpenEnd
  <1>11. CASE WriteEnd(r)         BY <1>11 DEF WriteEnd
  <1>12. CASE CloseAuction(r)     BY <1>12 DEF CloseAuction
  <1>13. CASE Bid(r)              BY <1>13 DEF Bid
  <1>14. CASE RegisterBid(r)      BY <1>14 DEF RegisterBid
  <1>15. CASE CreateBidFile(r)    BY <1>15 DEF CreateBidFile
  <1>16. CASE WriteBid(r)         BY <1>16 DEF WriteBid
  <1> QED
    BY <1>1, <1>2, <1>3, <1>4, <1>5, <1>6, <1>7, <1>8, <1>9, <1>10, <1>11,
       <1>12, <1>13, <1>14, <1>15, <1>16 DEF AuctionStep

\* Nor does one of the listings, List itself set aside.
LEMMA ListingStepLocal ==
    ASSUME NEW r \in Requests, ListingStep(r), pc[r] # "List" PROVE LocalStep(r)
  <1> USE DEF LocalStep, CriticalLabels, listingRest, Goto, Return, Escape,
              ListEntries
  <1>1. CASE MyAuctions(r)   BY <1>1 DEF MyAuctions
  <1>2. CASE MyBids(r)       BY <1>2 DEF MyBids
  <1>3. CASE List(r)         BY <1>3 DEF List
  <1>4. CASE Visit(r)        BY <1>4 DEF Visit
  <1>5. CASE ShowRecord(r)   BY <1>5 DEF ShowRecord
  <1>6. CASE ReadRecord(r)   BY <1>6 DEF ReadRecord
  <1>7. CASE GetAssetDir(r)  BY <1>7 DEF GetAssetDir
  <1>8. CASE ShowAsset(r)    BY <1>8 DEF ShowAsset
  <1> QED
    BY <1>1, <1>2, <1>3, <1>4, <1>5, <1>6, <1>7, <1>8 DEF ListingStep

-----------------------------------------------------------------------------
\* A process that stays where it is, or leaves, keeps the lock invariant.
LEMMA LocalStepLock ==
    ASSUME TypeInv, LockInv, NEW r \in Requests, LocalStep(r) PROVE LockInv'
  BY DEF TypeInv, TypeOK, ProcessTypeOK, LockInv, LocalStep, MutualExclusion,
     LockFree, InCS, Op, CriticalLabels

\* A process enters only while the semaphore is free, that is while nobody
\* else is inside.
LEMMA SemaphoreWaitLock ==
    ASSUME TypeInv, LockInv, NEW r \in Requests, SemaphoreWait(r) PROVE LockInv'
  <1>1. LockFree /\ sem = 1 /\ sem' = 0 /\ UNCHANGED req
    BY DEF LockInv, SemaphoreWait
  <1>2. \E l \in Sections : l # "none" /\ pc' = [pc EXCEPT ![r] = l]
    BY DEF SemaphoreWait, TypeInv, TypeOK, ProcessTypeOK, LocalsOK
  <1> QED
    BY <1>1, <1>2 DEF TypeInv, TypeOK, ProcessTypeOK, LockInv, MutualExclusion,
       LockFree, InCS, Op, Sections

\* The process that gives the semaphore back is the one that was inside.
LEMMA SemaphorePostLock ==
    ASSUME TypeInv, LockInv, NEW r \in Requests, Op(r) # "LST", SemaphorePost(r)
    PROVE  LockInv'
  <1>1. InCS(r) /\ sem = 0 /\ sem' = 1 /\ UNCHANGED req
    BY DEF LockInv, LockFree, SemaphorePost, InCS, CriticalLabels
  <1>2. \E l \in {"wait", "reply"} : pc' = [pc EXCEPT ![r] = l]
    BY DEF SemaphorePost
  <1>3. \A s \in Requests : ~InCS(s)'
    BY <1>1, <1>2 DEF TypeInv, TypeOK, ProcessTypeOK, LockInv, MutualExclusion,
       InCS, Op, CriticalLabels
  <1> QED
    BY <1>1, <1>2, <1>3 DEF TypeInv, TypeOK, ProcessTypeOK, LockInv,
       MutualExclusion, LockFree

-----------------------------------------------------------------------------
\* A step that no LST takes keeps the lock.
LEMMA LockStep ==
    ASSUME TypeInv, LockKept, LockKept', LockInv, [Next]_vars PROVE LockInv'
  <1>0. \A r \in Requests : pc[r] # "idle" => Op(r) # "LST"
    BY DEF LockKept
  <1>1. CASE \E r \in Requests : Arrive(r)
    <2> PICK r \in Requests : Arrive(r)
      BY <1>1
    <2>1. PICK m \in Menu : req' = [req EXCEPT ![r] = m]
                            /\ pc' = [pc EXCEPT ![r] = Entry(m.op)]
      BY DEF Arrive
    <2>2. Entry(m.op) \in {"GetAssetDir", "wait"}
      <3>1. req'[r] = m /\ pc'[r] = Entry(m.op)
        BY <2>1 DEF TypeInv, TypeOK, ProcessTypeOK
      <3> QED
        BY <3>1 DEF LockKept, Op, Entry
    <2>3. pc[r] = "idle" /\ UNCHANGED sem
      BY DEF Arrive
    <2> QED
      BY <2>1, <2>2, <2>3 DEF TypeInv, TypeOK, ProcessTypeOK, LockInv,
         MutualExclusion, LockFree, InCS, Op, CriticalLabels
  <1>2. CASE \E r \in Requests : Serve(r)
    <2> PICK r \in Requests : Serve(r)
      BY <1>2
    <2>1. CASE SemaphoreWait(r)
      BY <2>1, SemaphoreWaitLock
    <2>2. CASE SemaphorePost(r)
      BY <1>0, <2>2, SemaphorePostLock DEF SemaphorePost
    <2>3. CASE AccountStep(r) \/ AuctionStep(r) \/ ListingStep(r)
      <3>1. pc[r] # "List"
        BY DEF LockInv
      <3>2. LocalStep(r)
        BY <2>3, <3>1, AccountStepLocal, AuctionStepLocal, ListingStepLocal
      <3> QED
        BY <3>2, LocalStepLock
    <2>4. CASE Reply(r)
      BY <2>4 DEF Reply, TypeInv, TypeOK, ProcessTypeOK, LockInv,
         MutualExclusion, LockFree, InCS, Op, CriticalLabels
    <2> QED
      BY <2>1, <2>2, <2>3, <2>4 DEF Serve
  <1>3. CASE \E r \in Requests : Crash(r)
    BY <1>3 DEF Crash, TypeInv, TypeOK, ProcessTypeOK, LockInv,
       MutualExclusion, LockFree, InCS, Op, CriticalLabels
  <1>4. CASE Restart
    BY <1>4 DEF Restart, Served, Finished, TypeInv, TypeOK, ProcessTypeOK,
       LockInv, MutualExclusion, LockFree, InCS, Op, CriticalLabels
  <1>5. CASE Tick \/ UNCHANGED vars
    BY <1>5 DEF Tick, vars, LockInv, MutualExclusion, LockFree, InCS, Op
  <1> QED
    BY <1>1, <1>2, <1>3, <1>4, <1>5 DEF Next, Terminated

\* The lock is free and whole at the start.
LEMMA InitLock == Init => LockInv
  BY DEF Init, LockInv, MutualExclusion, LockFree, InCS, CriticalLabels

\* If nobody sends LST, no LST goes around the lock.
LEMMA NoListKeepsLock == ASSUME NoListRequest PROVE Spec => []LockKept
  <1>1. TypeInv => LockKept
    BY DEF NoListRequest, TypeInv, TypeOK, ProcessTypeOK, LockKept, Op
  <1> QED
    BY <1>1, TypeInvariant, PTL

\* LockInv is inductive if nobody sends LST.
LEMMA LockInvariant == ASSUME NoListRequest PROVE Spec => []LockInv
  <1>1. Spec => []LockKept
    BY NoListKeepsLock
  <1>2. ASSUME TypeInv, LockKept, LockKept', LockInv, [Next]_vars PROVE LockInv'
    BY <1>2, LockStep
  <1> QED
    BY <1>1, <1>2, InitLock, TypeInvariant, PTL DEF Spec

\* Without LST, at most one process is between a sem_wait and its sem_post,
\* even while processes die and leave with the semaphore in their hands.
THEOREM LockExcludes == ASSUME NoListRequest PROVE Spec => []MutualExclusion
  <1>1. LockInv => MutualExclusion
    BY DEF LockInv
  <1> QED
    BY <1>1, LockInvariant, PTL
=============================================================================
