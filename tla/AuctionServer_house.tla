------------------------ MODULE AuctionServer_house ------------------------
(***************************************************************************)
(* The server implements AuctionHouse, for every value of the constants,   *)
(* wherever processes die, the server is restarted and creations fail, as  *)
(* long as no client sends LST.                                            *)
(***************************************************************************)
EXTENDS AuctionServer_failures

-----------------------------------------------------------------------------
(* The inductive invariants without LST, whatever dies or fails            *)

\* Only a user who has a directory has a password file, and LIN finds none
\* when it makes one.
FirstPassword(r) ==
    /\ pc[r] \in {"CreateUserDir", "CreatePassword"} => pass[Uid(r)] = NoFile
    /\ pc[r] = "WritePassword" => pass[Uid(r)] = Empty
PassInv == /\ \A u \in Users : pass[u] # NoFile => userDir[u] > 0
           /\ \A r \in Requests : FirstPassword(r)

\* Who has an auction among his own is its host.
HostsTrue == \A u \in Users, a \in Aids :
    a \in hosted[u] => GetStart(a) /\ start[a].host = u
StartsTimely == \A a \in Aids :
    GetStart(a) => start[a].at <= now /\ start[a].timeactive > 0

\* Open works for a user who is logged in, on the last of all auctions, which
\* nobody has bid in or ended.
Opening(r) ==
    pc[r] \in OpenLabels =>
        /\ Uid(r) \in login /\ target[r] \notin hosted[Uid(r)]
        /\ \A b \in AuctionDirs : b <= target[r]
        /\ end[target[r]] \in Absent
        /\ \A v \in Values : ~Written(target[r], v)
        /\ pc[r] = "CreateAuctionDir" => target[r] \notin AuctionDirs
        /\ pc[r] = "WriteStart" => stamp[r] <= now /\ req[r].time > 0

\* Bid works for a user who is logged in and does not host the auction, and
\* accepts what it has written.
Bidder(r) ==
    pc[r] \in {"RegisterBid", "CreateBidFile", "WriteBid"} =>
        Uid(r) \in login /\ Aid(r) \notin hosted[Uid(r)]
Recorded(r) ==
    res[r] = "ACCEPT" => /\ Op(r) = "BID" /\ Written(Aid(r), req[r].value)
                         /\ bids[Aid(r)][req[r].value].user = Uid(r)

\* An auction is ended by its host or because its time is over.
InTime(r) == LET a == target[r] IN
    /\ stamp[r] \in 0 .. start[a].timeactive /\ stamp[r] <= Elapsed(a)
    /\ start[a].host \in login \/ stamp[r] = start[a].timeactive
Ends(r) ==
    /\ pc[r] = "CreateEndFile" =>
           start[target[r]].host \in login \/ Expired(target[r])
    /\ pc[r] \in {"OpenEnd", "WriteEnd"} => InTime(r)

HouseInv ==
    /\ PassInv /\ HostsTrue /\ StartsTimely /\ HostsNeverBid /\ EndsInTime
    /\ \A r \in Requests : Opening(r) /\ Bidder(r) /\ Recorded(r) /\ Ends(r)

\* What is known of a state before a step.
Before == /\ TypeInv /\ PlaceInv /\ AccountInv /\ OpenInv
          /\ LockKept /\ LockInv /\ BookInv /\ HouseInv

-----------------------------------------------------------------------------
(* Without LST, whatever dies or fails: what a step of a process does      *)

\* What the steps below need of every step of a process.
LEMMA StepBasics ==
    ASSUME Before, [Next]_vars, NEW r \in Requests, Serve(r)
    PROVE  /\ Others(r) /\ Writes(r) /\ Comes(r)
           /\ Placed(Op(r), pc[r], cont[r]) /\ Placed(Op(r), pc'[r], cont'[r])
           /\ Uid(r) \in Users /\ Aid(r) \in Aids /\ req[r].value \in Values
           /\ Uid(r)' = Uid(r) /\ Aid(r)' = Aid(r) /\ Op(r)' = Op(r)
           /\ Opening(r) /\ Bidder(r) /\ Recorded(r) /\ Ends(r) /\ Builds(r)
           /\ Bidding(r) /\ Ending(r)
           /\ now \in Nat
           /\ \A a \in Aids : GetStart(a) => start'[a] = start[a]
           /\ \A u \in Users : hosted[u] \subseteq hosted'[u]
  <1>1. /\ Others(r) /\ Writes(r) /\ Comes(r)
        /\ Placed(Op(r), pc[r], cont[r]) /\ Placed(Op(r), pc'[r], cont'[r])
    BY StepFacts DEF Before, PlaceInv
  <1>2. /\ Uid(r) \in Users /\ Aid(r) \in Aids /\ req[r].value \in Values
        /\ Uid(r)' = Uid(r) /\ Aid(r)' = Aid(r) /\ Op(r)' = Op(r)
    BY <1>1, RequestType DEF Before, Others, Uid, Aid, Op
  <1>3. /\ Opening(r) /\ Bidder(r) /\ Recorded(r) /\ Ends(r) /\ Builds(r)
        /\ Bidding(r) /\ Ending(r)
    BY DEF Before, HouseInv, OpenInv, BookInv
  <1>4. now \in Nat
    BY BoundsAssumption DEF Before, TypeInv, TypeOK, ProcessTypeOK, Times
  <1>5. /\ \A a \in Aids : GetStart(a) => start'[a] = start[a]
        /\ \A u \in Users : hosted[u] \subseteq hosted'[u]
    BY StartStands, DirectoriesStay DEF Before
  <1> QED
    BY <1>1, <1>2, <1>3, <1>4, <1>5

\* LIN makes a password file for a user who has none, after his directory.
LEMMA PassStep ==
    ASSUME Before, [Next]_vars, NEW r \in Requests, Serve(r) PROVE PassInv'
  <1> DEFINE u == Uid(r)
  <1>0. /\ Others(r) /\ Writes(r) /\ Comes(r) /\ u \in Users /\ Uid(r)' = u
        /\ PassInv /\ FirstPassword(r) /\ KnowsUser(r)
        /\ userDir \in [Users -> 0 .. 3]
        /\ pass \in [Users -> Passwords \cup Absent]
    BY StepBasics DEF Before, HouseInv, PassInv, AccountInv, TypeInv, TypeOK,
       FilesTypeOK
  <1>1. ASSUME NEW w \in Users, pass'[w] # NoFile PROVE userDir'[w] > 0
    <2>1. userDir[w] > 0 => userDir'[w] > 0
      BY <1>0 DEF Writes, CreateUserDir
    <2>2. CASE pass'[w] = pass[w]
      BY <1>0, <1>1, <2>1, <2>2 DEF PassInv
    <2>3. CASE pass'[w] # pass[w]
      BY <1>0, <1>1, <2>1, <2>3 DEF Writes, CreatePassword, WritePassword,
         ErasePassword, KnowsUser
    <2> QED
      BY <2>2, <2>3
  <1>2. FirstPassword(r)'
    <2>1. ASSUME LoginUser(r), pc'[r] \in {"CreateUserDir", "CreatePassword"}
          PROVE  pass'[u] = NoFile
      BY <1>0, <2>1 DEF LoginUser, Goto, Return, CheckUserExisted,
         CheckUserRegistered, PassInv, Before, TypeInv, TypeOK, ProcessTypeOK
    <2>2. ASSUME CreateUserDir(r) PROVE pass'[u] = NoFile
      BY <1>0, <2>2 DEF CreateUserDir, FirstPassword
    <2>3. ASSUME CreatePassword(r), pc'[r] = "WritePassword" PROVE pass'[u] = Empty
      BY <1>0, <2>3 DEF CreatePassword, Return, Before, TypeInv, TypeOK,
         ProcessTypeOK
    <2> QED
      BY <1>0, <2>1, <2>2, <2>3 DEF Comes, FirstPassword
  <1>3. ASSUME NEW s \in Requests \ {r} PROVE FirstPassword(s)'
    <2>1. pc[s] \in CriticalLabels => UNCHANGED pass
      BY AloneInside DEF Before, userFiles
    <2>2. FirstPassword(s) /\ pc'[s] = pc[s] /\ Uid(s)' = Uid(s)
      BY <1>0 DEF PassInv, Others, Uid
    <2> QED
      BY <2>1, <2>2 DEF FirstPassword, CriticalLabels
  <1> QED
    BY <1>1, <1>2, <1>3 DEF PassInv

\* The lists of hosts stay true, and START files are timely.
LEMMA HostsStep ==
    ASSUME Before, [Next]_vars, NEW r \in Requests, Serve(r)
    PROVE  HostsTrue' /\ StartsTimely'
  <1>0. /\ Writes(r) /\ Opening(r) /\ Builds(r) /\ Uid(r) \in Users
        /\ HostsTrue /\ StartsTimely /\ now \in Nat
        /\ \A a \in Aids : GetStart(a) => start'[a] = start[a]
    BY StepBasics DEF Before, HouseInv
  <1> USE DEF Before, TypeInv, TypeOK, FilesTypeOK, ProcessTypeOK
  <1>1. ASSUME NEW u \in Users, NEW a \in Aids, a \in hosted'[u]
        PROVE  GetStart(a)' /\ start'[a].host = u
    <2>1. GetStart(a) /\ start[a].host = u
      <3>1. CASE a \in hosted[u]
        BY <1>0, <3>1 DEF HostsTrue
      <3>2. CASE a \notin hosted[u]
        <4>1. RegisterHost(r)
          BY <1>0, <1>1, <3>2 DEF Writes
        <4>2. u = Uid(r) /\ a = target[r]
          BY <1>0, <1>1, <3>2, <4>1 DEF RegisterHost
        <4> QED
          BY <1>0, <4>1, <4>2 DEF RegisterHost, Builds, Started, GetStart
      <3> QED
        BY <3>1, <3>2
    <2> QED
      BY <1>0, <2>1 DEF GetStart
  <1>2. ASSUME NEW a \in Aids, GetStart(a)'
        PROVE  start'[a].at <= now' /\ start'[a].timeactive > 0
    <2>1. CASE GetStart(a)
      BY <1>0, <2>1 DEF StartsTimely, Writes
    <2>2. CASE ~GetStart(a)
      <3>1. WriteStart(r) /\ a = target[r]
        <4>1. CreateStartFile(r) \/ WriteStart(r)
          BY <1>0, <1>2, <2>2 DEF Writes, GetStart
        <4>2. a = target[r]
          BY <1>2, <2>2, <4>1 DEF CreateStartFile, WriteStart, GetStart
        <4>3. ~CreateStartFile(r)
          BY <1>2, <2>2, <4>2 DEF CreateStartFile, GetStart, Absent
        <4> QED
          BY <4>1, <4>2, <4>3
      <3>2. start'[a] = [host |-> Uid(r), value |-> req[r].value,
                         timeactive |-> req[r].time, at |-> stamp[r]]
        BY <3>1 DEF WriteStart
      <3>3. stamp[r] <= now /\ req[r].time > 0 /\ now' = now
        BY <1>0, <3>1 DEF WriteStart, Opening, OpenLabels, sharedRest
      <3> QED
        BY <3>2, <3>3
    <2> QED
      BY <2>1, <2>2
  <1> QED
    BY <1>1, <1>2 DEF HostsTrue, StartsTimely

\* Open computes an id larger than all there are, and nobody opens an auction
\* before it has returned.
LEMMA OpeningStep ==
    ASSUME Before, [Next]_vars, NEW r \in Requests, Serve(r)
    PROVE  Opening(r)'
  <1> DEFINE t == target[r]
             u == Uid(r)
  <1>0. /\ Writes(r) /\ Comes(r) /\ u \in Users /\ Uid(r)' = u
        /\ req' = req /\ req[r].time \in Nat
        /\ Opening(r) /\ Placed(Op(r), pc[r], cont[r]) /\ now \in Nat
    BY StepBasics, RequestType DEF Others, Before
  <1> USE DEF Before, TypeInv, TypeOK, FilesTypeOK, ProcessTypeOK
  <1> SUFFICES ASSUME pc'[r] \in OpenLabels
               PROVE  /\ u \in login' /\ target'[r] \notin hosted'[u]
                      /\ \A b \in Aids : auctionDir'[b] > 0 => b <= target'[r]
                      /\ pc'[r] = "CreateAuctionDir" =>
                             ~(target'[r] \in Aids /\ auctionDir'[target'[r]] > 0)
                      /\ end'[target'[r]] \in Absent
                      /\ \A v \in Values : bids'[target'[r]][v] \in Absent
                      /\ pc'[r] = "WriteStart" =>
                             stamp'[r] <= now' /\ req[r].time > 0
    BY <1>0 DEF Opening, AuctionDirs, CheckAuctionExists, Written
  <1>1. CASE Open(r)
    <2>1. /\ u \in login /\ pc'[r] = "CreateAuctionDir"
          /\ UNCHANGED <<login, hosted, auctionDir, bids, end>>
      BY <1>1 DEF Open, CheckUserLoggedIn, Return, Goto, OpenLabels, sharedRest,
         auctionFiles
    <2>2. PICK a \in 1 .. MaxAid + 1 :
              /\ IsNextAid(a) /\ ~TooMany(a) /\ target' = [target EXCEPT ![r] = a]
      BY <1>1, <2>1 DEF Open, Return
    <2>3. a \in Aids
      BY <2>2, BoundsAssumption DEF TooMany, Aids
    <2>4. \A b \in Aids : auctionDir[b] > 0 => b < a
      BY <2>2 DEF IsNextAid, AuctionDirs, CheckAuctionExists
    <2>5. target'[r] = a /\ ~(auctionDir[a] > 0)
      BY <2>2, <2>3, <2>4 DEF Aids
    <2>6. a \notin hosted[u]
      BY <1>0, <2>3, <2>5 DEF HouseInv, HostsTrue, OpenInv, GetStart, Absent
    <2>7. \A b \in Aids : auctionDir[b] > 0 => b <= a
      BY <2>3, <2>4 DEF Aids
    <2>8. end[a] \in Absent /\ \A v \in Values : ~Written(a, v)
      BY <2>3, <2>5 DEF HouseInv, EndsInTime, BookInv, BidsBeatStart, OpenInv,
         GetStart, Absent
    <2> QED
      BY <2>1, <2>3, <2>5, <2>6, <2>7, <2>8 DEF Written
  <1>2. CASE ~Open(r)
    <2>1. CreateAuctionDir(r) \/ CreateSubDirs(r) \/ CreateStartFile(r)
          \/ WriteStart(r) \/ CreateAssetFile(r) \/ WriteAsset(r)
      BY <1>0, <1>2 DEF Comes, OpenLabels
    <2>2. /\ u \in login /\ t \notin hosted[u] /\ t \in Aids
          /\ \A b \in Aids : auctionDir[b] > 0 => b <= t
          /\ UNCHANGED <<login, hosted, bids, end, target, now>>
          /\ end[t] \in Absent /\ \A v \in Values : ~Written(t, v)
      BY <1>0, <2>1 DEF Opening, AuctionDirs, CheckAuctionExists, CreateAuctionDir,
         CreateSubDirs, CreateStartFile, WriteStart, CreateAssetFile, WriteAsset,
         OpenLabels, sharedRest, locals, LocalsOK, TargetLabels
    <2>3. \A b \in Aids : auctionDir'[b] > 0 => b <= t
      <3>1. \A b \in Aids : b # t => auctionDir'[b] = auctionDir[b]
        BY <2>1 DEF CreateAuctionDir, CreateSubDirs, CreateStartFile, WriteStart,
           CreateAssetFile, WriteAsset
      <3>2. t <= t
        BY <2>2 DEF Aids
      <3> QED
        BY <2>2, <3>1, <3>2
    <2>4. pc'[r] = "CreateAuctionDir" => FALSE
      BY <1>0, <1>2 DEF Comes
    <2>5. pc'[r] = "WriteStart" => stamp'[r] <= now /\ req[r].time > 0
      <3>1. ASSUME CreateStartFile(r), pc'[r] = "WriteStart"
            PROVE  stamp'[r] = now /\ req[r].time # 0
        BY <3>1 DEF CreateStartFile, Return, OpenFails
      <3> QED
        BY <1>0, <3>1 DEF Comes
    <2> QED
      BY <2>2, <2>3, <2>4, <2>5 DEF Written
  <1> QED
    BY <1>1, <1>2

\* Bid goes on for a user who is logged in, on an auction of somebody else.
LEMMA BidderStep ==
    ASSUME Before, [Next]_vars, NEW r \in Requests, Serve(r)
    PROVE  Bidder(r)'
  <1>0. /\ Comes(r) /\ Bidder(r) /\ Uid(r)' = Uid(r) /\ Aid(r)' = Aid(r)
    BY StepBasics
  <1> SUFFICES ASSUME pc'[r] \in {"RegisterBid", "CreateBidFile", "WriteBid"}
               PROVE  Uid(r) \in login' /\ Aid(r) \notin hosted'[Uid(r)]
    BY <1>0 DEF Bidder
  <1>1. CASE Bid(r)
    <2>1. BidRefusal(r) = "none" /\ UNCHANGED <<login, hosted>>
      BY <1>1 DEF Bid, Return, Escape, Goto, sharedRest, Before, TypeInv, TypeOK,
         ProcessTypeOK
    <2> QED
      BY <2>1 DEF BidRefusal, CheckUserLoggedIn
  <1>2. CASE RegisterBid(r) \/ CreateBidFile(r)
    BY <1>0, <1>2 DEF Bidder, RegisterBid, CreateBidFile, sharedRest
  <1> QED
    BY <1>0, <1>1, <1>2 DEF Comes

\* CLS ends an auction for its host, who is logged in, the others end it once
\* its time is over; the time they write is never longer than that.
LEMMA EndsStep ==
    ASSUME Before, [Next]_vars, NEW r \in Requests, Serve(r)
    PROVE  Ends(r)'
  <1> DEFINE t == target[r]
  <1>0. /\ Writes(r) /\ Comes(r) /\ Uid(r) \in Users /\ Aid(r) \in Aids
        /\ Ends(r) /\ now \in Nat
    BY StepBasics
  <1> USE DEF Before, TypeInv, TypeOK, FilesTypeOK, ProcessTypeOK
  <1>1. ASSUME pc'[r] = "CreateEndFile"
        PROVE  /\ start[target'[r]].host \in login \/ Expired(target'[r])
               /\ UNCHANGED <<start, login, now>>
    <2>1. CASE CloseAuction(r)
      <3>1. /\ target'[r] = Aid(r) /\ Aid(r) \in hosted[Uid(r)] /\ Uid(r) \in login
            /\ UNCHANGED <<start, login, now>>
        BY <1>0, <1>1, <2>1 DEF CloseAuction, Return, Escape, CheckUserLoggedIn,
           sharedRest, auctionFiles
      <3> QED
        BY <1>0, <3>1 DEF HouseInv, HostsTrue
    <2>2. CASE Bid(r)
      BY <1>0, <1>1, <2>2 DEF Bid, Return, Escape, Goto, sharedRest, auctionFiles
    <2>3. CASE ShowRecord(r)
      BY <1>0, <1>1, <2>3 DEF ShowRecord, Return, Goto, listingRest, userFiles,
         auctionFiles
    <2>4. CASE Visit(r)
      BY <1>0, <1>1, <2>4 DEF Visit, Return, Goto, listingRest, userFiles,
         auctionFiles
    <2> QED
      BY <1>0, <1>1, <2>1, <2>2, <2>3, <2>4 DEF Comes
  <1>2. ASSUME pc'[r] = "OpenEnd"
        PROVE  /\ stamp'[r] \in 0 .. start[t].timeactive /\ stamp'[r] <= Elapsed(t)
               /\ start[t].host \in login \/ stamp'[r] = start[t].timeactive
               /\ UNCHANGED <<start, login, now, target>>
    <2>1. CreateEndFile(r)
      BY <1>0, <1>2 DEF Comes
    <2>2. /\ GetStart(t) /\ t \in Aids /\ UNCHANGED <<start, login, now, target>>
          /\ stamp'[r] = IF Elapsed(t) > start[t].timeactive
                         THEN start[t].timeactive ELSE Elapsed(t)
      BY <1>2, <2>1 DEF CreateEndFile, Escape, LocalsOK, TargetLabels, sharedRest,
         auctionFiles
    <2>3. /\ start[t].timeactive \in Nat /\ start[t].at \in Nat
          /\ start[t].at <= now
      BY <2>2, BoundsAssumption DEF GetStart, StartInfo, Times, HouseInv, StartsTimely
    <2>4. start[t].host \in login \/ Elapsed(t) >= start[t].timeactive
      BY <1>0, <2>1 DEF Ends, CreateEndFile, Expired
    <2> QED
      <3> DEFINE T == start[t].timeactive
                 e == Elapsed(t)
      <3>1. T \in Nat /\ e \in Nat
        BY <1>0, <2>3 DEF Elapsed
      <3>2. stamp'[r] = IF e > T THEN T ELSE e
        BY <2>2
      <3> HIDE DEF T, e
      <3>3. /\ stamp'[r] \in 0 .. T /\ stamp'[r] <= e
            /\ e >= T => stamp'[r] = T
        BY <3>1, <3>2
      <3> QED
        BY <2>2, <2>4, <3>3 DEF T, e
  <1>3. ASSUME pc'[r] = "WriteEnd"
        PROVE  InTime(r) /\ UNCHANGED <<start, login, now, target, stamp>>
    <2>1. OpenEnd(r)
      BY <1>0, <1>3 DEF Comes
    <2> QED
      BY <1>0, <2>1 DEF OpenEnd, Ends, sharedRest
  <1> QED
    BY <1>1, <1>2, <1>3 DEF Ends, InTime, Expired, Elapsed

\* An auction is shown from the step on in which Open registers its host.
LEMMA ShownAt ==
    ASSUME Before, [Next]_vars, NEW r \in Requests, Serve(r), NEW a \in Aids
    PROVE  /\ Shown(a) => GetStart(a) /\ start'[a] = start[a] /\ Shown(a)'
           /\ Shown(a)' /\ ~Shown(a) => RegisterHost(r) /\ a = target[r]
  <1>0. /\ Writes(r) /\ Opening(r) /\ Uid(r) \in Users
        /\ \A b \in Aids : GetStart(b) => start'[b] = start[b]
        /\ \A u \in Users : hosted[u] \subseteq hosted'[u]
        /\ start \in [Aids -> StartInfo \cup Absent]
        /\ hosted \in [Users -> SUBSET Aids]
    BY StepBasics DEF Before, TypeInv, TypeOK, FilesTypeOK
  <1>1. ASSUME Shown(a) PROVE GetStart(a) /\ start'[a] = start[a] /\ Shown(a)'
    BY <1>0, <1>1 DEF Shown, GetStart, StartInfo
  <1>2. ASSUME Shown(a)', ~Shown(a) PROVE RegisterHost(r) /\ a = target[r]
    <2>1. start'[a] = start[a]
      <3>1. ASSUME CreateStartFile(r), start'[a] # start[a] PROVE FALSE
        BY <1>0, <1>2, <3>1 DEF CreateStartFile, Shown, Absent
      <3>2. ASSUME WriteStart(r), start'[a] # start[a] PROVE FALSE
        <4>1. /\ a = target[r] /\ start'[a].host = Uid(r) /\ UNCHANGED hosted
              /\ pc[r] = "WriteStart"
          BY <1>0, <3>2 DEF WriteStart
        <4> QED
          BY <1>0, <1>2, <4>1 DEF Shown, Opening, OpenLabels
      <3> QED
        BY <1>0, <3>1, <3>2 DEF Writes
    <2>2. GetStart(a) /\ start[a].host \in Users
      BY <1>0, <1>2, <2>1 DEF Shown, GetStart, StartInfo
    <2>3. a \in hosted'[start[a].host] /\ a \notin hosted[start[a].host]
      BY <1>2, <2>1 DEF Shown
    <2>4. RegisterHost(r)
      BY <1>0, <2>3 DEF Writes
    <2> QED
      BY <1>0, <2>2, <2>3, <2>4 DEF RegisterHost
  <1> QED
    BY <1>1, <1>2

\* The bid that is written is on an auction of somebody else, and nobody has
\* bid in the auction whose host is registered.
LEMMA NeverBidStep ==
    ASSUME Before, [Next]_vars, NEW r \in Requests, Serve(r)
    PROVE  HostsNeverBid'
  <1> SUFFICES ASSUME NEW a \in Aids, NEW v \in Values, Written(a, v)', Shown(a)'
               PROVE  bids'[a][v].user # start'[a].host
    BY DEF HostsNeverBid
  <1>0. /\ Bidder(r) /\ Opening(r) /\ HostsNeverBid
        /\ Uid(r) \in Users /\ Aid(r) \in Aids
    BY StepBasics DEF Before, HouseInv
  <1>1. CASE bids'[a][v] # bids[a][v]
    <2>1. /\ a = Aid(r) /\ pc[r] \in {"CreateBidFile", "WriteBid"}
          /\ pc[r] = "CreateBidFile" => bids'[a][v] = Empty
          /\ pc[r] = "WriteBid" =>
                 bids'[a][v] = [user |-> Uid(r), at |-> stamp[r]]
      BY <1>1, BidWrites DEF Before
    <2>2. pc[r] = "WriteBid"
      BY <2>1 DEF Written, Absent
    <2>3. bids'[a][v].user = Uid(r) /\ a \notin hosted[Uid(r)]
      BY <1>0, <2>1, <2>2 DEF Bidder
    <2>4. Shown(a)
      BY <2>2, ShownAt DEF RegisterHost
    <2> QED
      BY <2>3, <2>4, ShownAt DEF Shown
  <1>2. CASE bids'[a][v] = bids[a][v]
    <2>1. Written(a, v)
      BY <1>2 DEF Written
    <2>2. Shown(a)
      <3>1. ASSUME RegisterHost(r), a = target[r] PROVE FALSE
        BY <1>0, <2>1, <3>1 DEF RegisterHost, Opening, OpenLabels
      <3> QED
        BY <3>1, ShownAt
    <2> QED
      BY <1>0, <1>2, <2>1, <2>2, ShownAt DEF HostsNeverBid
  <1> QED
    BY <1>1, <1>2

\* The end that is written is one of an auction that was active that long.
LEMMA InTimeStep ==
    ASSUME Before, [Next]_vars, NEW r \in Requests, Serve(r)
    PROVE  EndsInTime'
  <1> SUFFICES ASSUME NEW a \in Aids, end'[a] \notin Absent
               PROVE  /\ start'[a] \notin Absent
                      /\ end'[a] \in 0 .. start'[a].timeactive
                      /\ end'[a] <= now' - start'[a].at
    BY DEF EndsInTime, Elapsed
  <1>0. /\ Writes(r) /\ Ends(r) /\ Ending(r) /\ EndsInTime
        /\ GetStart(a) => start'[a] = start[a]
    BY StepBasics DEF Before, HouseInv
  <1>1. now' = now
    BY <1>0 DEF Writes
  <1>2. CASE end'[a] = end[a]
    BY <1>0, <1>1, <1>2 DEF EndsInTime, GetStart, Elapsed
  <1>3. CASE end'[a] # end[a]
    <2>1. /\ a = target[r] /\ pc[r] = "WriteEnd" /\ end'[a] = stamp[r]
      BY <1>3, EndWrites DEF Before, Absent
    <2> QED
      BY <1>0, <1>1, <2>1 DEF Ends, InTime, Ending, GetStart, Elapsed
  <1> QED
    BY <1>2, <1>3

\* A bid that is accepted was written just before, and is not changed again.
LEMMA RecordedStep ==
    ASSUME Before, [Next]_vars, NEW r \in Requests, Serve(r)
    PROVE  Recorded(r)'
  <1>0. /\ Comes(r) /\ Recorded(r) /\ UNCHANGED req
        /\ Uid(r) \in Users /\ Aid(r) \in Aids /\ req[r].value \in Values
        /\ Uid(r)' = Uid(r) /\ Aid(r)' = Aid(r) /\ Op(r)' = Op(r)
        /\ Placed(Op(r), pc[r], cont[r])
    BY StepBasics DEF Others
  <1>1. CASE res[r] = "ACCEPT"
    BY <1>0, <1>1, BookStep DEF Recorded, Written, Before
  <1>2. CASE WriteBid(r)
    <2>1. bids'[Aid(r)][req[r].value] = [user |-> Uid(r), at |-> stamp[r]]
      BY <1>0, <1>2, OneBidWritten DEF WriteBid, Before, TypeInv, TypeOK,
         FilesTypeOK
    <2>2. [user |-> Uid(r), at |-> stamp[r]] \notin Absent
      BY <1>0, AbsentAssumption DEF BidInfo, Before, TypeInv, TypeOK, ProcessTypeOK
    <2>3. Op(r) = "BID"
      BY <1>0, <1>2 DEF WriteBid, Placed, RunsIn, OpenLabels
    <2> QED
      BY <1>0, <2>1, <2>2, <2>3 DEF Recorded, Written
  <1> QED
    BY <1>0, <1>1, <1>2 DEF Comes, Recorded

\* A step of a process keeps what the other processes have found out: they
\* are outside the lock, or nothing changes.
LEMMA OthersStep ==
    ASSUME Before, [Next]_vars, NEW r \in Requests, Serve(r),
           NEW s \in Requests \ {r}
    PROVE  (Opening(s) /\ Bidder(s) /\ Recorded(s) /\ Ends(s))'
  <1>0. /\ Opening(s) /\ Bidder(s) /\ Recorded(s) /\ Ends(s)
        /\ Uid(s) \in Users /\ Aid(s) \in Aids /\ req[s].value \in Values
    BY RequestType DEF Before, HouseInv
  <1>1. /\ UNCHANGED <<req, now>> /\ pc'[s] = pc[s] /\ res'[s] = res[s]
        /\ target'[s] = target[s] /\ stamp'[s] = stamp[s]
        /\ Uid(s)' = Uid(s) /\ Aid(s)' = Aid(s) /\ Op(s)' = Op(s)
    BY StepBasics DEF Others, Writes, Uid, Aid, Op
  <1>2. pc[s] \in CriticalLabels =>
            UNCHANGED <<login, hosted, auctionDir, start, bids, end>>
    BY AloneInside DEF userFiles, auctionFiles, Before
  <1>3. Opening(s)'
    BY <1>0, <1>1, <1>2 DEF Opening, OpenLabels, CriticalLabels, AuctionDirs,
       CheckAuctionExists, Written
  <1>4. Bidder(s)' /\ Ends(s)'
    BY <1>0, <1>1, <1>2 DEF Bidder, Ends, InTime, Expired, Elapsed, CriticalLabels
  <1>5. Recorded(s)'
    <2>1. \A v \in Values : Written(Aid(s), v) => bids'[Aid(s)][v] = bids[Aid(s)][v]
      BY <1>0, BookStep DEF Before
    <2> QED
      BY <1>0, <1>1, <2>1 DEF Recorded, Written
  <1> QED
    BY <1>3, <1>4, <1>5

\* A request that arrives, a death, a restart and time keep the invariants.
LEMMA HouseQuiet == ASSUME Before, Quiet PROVE HouseInv'
  <1>0. /\ now \in Nat /\ now' \in Nat /\ now <= now'
        /\ UNCHANGED <<userDir, pass, login, hosted, auctionDir, start, bids, end,
                       res, target, stamp>>
    BY BoundsAssumption DEF Before, TypeInv, TypeOK, ProcessTypeOK, Quiet, Times,
       userFiles, auctionFiles, locals
  <1>1. \A r \in Requests :
            \/ pc'[r] = pc[r] /\ req'[r] = req[r]
            \/ /\ pc[r] = "idle" /\ pc'[r] \in {"List", "GetAssetDir", "wait"}
               /\ res[r] = "none"
            \/ pc'[r] \in {"dead", "lost"} /\ req'[r] = req[r]
    BY DEF Quiet, Stayed, Entered, Died, Before, OpenInv, Builds
  <1>2. PassInv' /\ HostsTrue' /\ HostsNeverBid'
    BY <1>0, <1>1 DEF Before, HouseInv, PassInv, FirstPassword, Uid, HostsTrue,
       HostsNeverBid, GetStart, Written, Shown
  <1>3. \A a \in Aids : GetStart(a) => start[a].at \in Nat /\ start[a].timeactive \in Nat
    BY BoundsAssumption DEF Before, TypeInv, TypeOK, FilesTypeOK, StartInfo, Times,
       GetStart
  <1>4. StartsTimely'
    <2>1. ASSUME NEW a \in Aids, GetStart(a) PROVE start[a].at <= now'
      BY <1>0, <1>3, <2>1 DEF Before, HouseInv, StartsTimely
    <2> QED
      BY <1>0, <2>1 DEF Before, HouseInv, StartsTimely, GetStart
  <1>5. EndsInTime'
    <2>1. ASSUME NEW a \in Aids, end[a] \notin Absent
          PROVE  /\ GetStart(a) /\ end[a] \in 0 .. start[a].timeactive
                 /\ end[a] <= now' - start[a].at
      <3>1. /\ GetStart(a) /\ end[a] \in 0 .. start[a].timeactive
            /\ end[a] <= now - start[a].at
        BY <2>1 DEF Before, HouseInv, EndsInTime, GetStart, Elapsed
      <3> QED
        BY <1>0, <1>3, <3>1
    <2> QED
      BY <1>0, <2>1 DEF EndsInTime, GetStart, Elapsed
  <1>6. ASSUME NEW r \in Requests PROVE Opening(r)' /\ Bidder(r)' /\ Recorded(r)'
    <2>1. stamp[r] \in Int
      BY DEF Before, TypeInv, TypeOK, ProcessTypeOK
    <2>2. stamp[r] <= now => stamp[r] <= now'
      BY <1>0, <2>1
    <2>3. Opening(r) /\ Bidder(r) /\ Recorded(r)
      BY DEF Before, HouseInv
    <2>4. Opening(r)'
      BY <1>0, <1>1, <2>2, <2>3 DEF Opening, OpenLabels, AuctionDirs,
         CheckAuctionExists, Written, Uid
    <2> QED
      BY <1>0, <1>1, <2>3, <2>4 DEF Bidder, Recorded, Written, Uid, Aid, Op
  <1>7. ASSUME NEW r \in Requests PROVE Ends(r)'
    <2> DEFINE Enders == {"CreateEndFile", "OpenEnd", "WriteEnd"}
    <2>1. pc'[r] \in Enders => pc'[r] = pc[r]
      BY <1>1
    <2>2. ASSUME pc[r] \in Enders
          PROVE  /\ Expired(target[r]) => Expired(target[r])'
                 /\ InTime(r) => InTime(r)'
      <3> DEFINE a == target[r]
      <3>1. start[a].at \in Nat /\ start[a].timeactive \in Nat /\ stamp[r] \in Int
        BY <1>3, <2>2 DEF Before, TypeInv, TypeOK, ProcessTypeOK, LocalsOK,
           TargetLabels, BookInv, Ending
      <3>2. /\ Expired(a) => now' - start[a].at >= start[a].timeactive
            /\ stamp[r] <= Elapsed(a) => stamp[r] <= now' - start[a].at
        BY <1>0, <3>1 DEF Expired, Elapsed
      <3> QED
        BY <1>0, <3>2 DEF Expired, Elapsed, InTime
    <2> QED
      BY <1>0, <2>1, <2>2 DEF Before, HouseInv, Ends
  <1> QED
    BY <1>2, <1>4, <1>5, <1>6, <1>7 DEF HouseInv

\* HouseInv holds when the server starts.
LEMMA HouseInvAtFirst == Init => HouseInv
  <1> SUFFICES ASSUME Init PROVE HouseInv
    OBVIOUS
  <1> USE DEF Init
  <1>1. \A r \in Requests : pc[r] = "idle" /\ res[r] = "none"
    OBVIOUS
  <1>2. /\ start = InitStart /\ pass = InitPassword /\ now = 0
        /\ \A a \in Aids : end[a] = NoFile /\ \A v \in Values : bids[a][v] = NoFile
    OBVIOUS
  <1>3. PassInv
    BY <1>1, InitAssumption DEF PassInv, FirstPassword, Known
  <1>4. \A a \in Aids : start[a] # NoFile => start[a] \notin Absent
                                          /\ start[a].host \in Users
    BY InitAssumption, AbsentAssumption DEF StartInfo, Absent
  <1>5. HostsTrue
    BY <1>4 DEF HostsTrue, GetStart
  <1>6. StartsTimely
    BY InitAssumption DEF StartsTimely, GetStart, Absent
  <1>7. HostsNeverBid /\ EndsInTime
    BY <1>2 DEF HostsNeverBid, EndsInTime, Written, Absent
  <1>8. \A r \in Requests : Opening(r) /\ Bidder(r) /\ Recorded(r) /\ Ends(r)
    BY <1>1 DEF Opening, OpenLabels, Bidder, Recorded, Ends
  <1> QED
    BY <1>3, <1>5, <1>6, <1>7, <1>8 DEF HouseInv

\* HouseInv is inductive without LST.
LEMMA HouseInvariant == ASSUME NoListRequest PROVE Spec => []HouseInv
  <1>1. ASSUME TypeInv, PlaceInv, AccountInv, OpenInv, LockKept, BooksKept,
               HouseInv, [Next]_vars
        PROVE  HouseInv'
    <2>1. Before
      BY <1>1 DEF Before, BooksKept
    <2>2. CASE Quiet
      BY <2>1, <2>2, HouseQuiet
    <2>3. ASSUME NEW r \in Requests, Serve(r) PROVE HouseInv'
      <3>1. PassInv' /\ HostsTrue' /\ StartsTimely' /\ HostsNeverBid' /\ EndsInTime'
        BY <1>1, <2>1, <2>3, PassStep, HostsStep, NeverBidStep, InTimeStep
      <3>2. (Opening(r) /\ Bidder(r) /\ Recorded(r) /\ Ends(r))'
        BY <1>1, <2>1, <2>3, OpeningStep, BidderStep, RecordedStep, EndsStep
      <3>3. \A s \in Requests \ {r} :
                (Opening(s) /\ Bidder(s) /\ Recorded(s) /\ Ends(s))'
        BY <1>1, <2>1, <2>3, OthersStep
      <3> QED
        BY <3>1, <3>2, <3>3 DEF HouseInv
    <2> QED
      BY <1>1, <2>2, <2>3, StepKinds
  <1> QED
    BY <1>1, HouseInvAtFirst, NoListKeepsLock, TypeInvariant, PlaceInvariant,
       AccountInvariant, OpenInvariant, BooksInvariant, PTL DEF Spec

\* All of the invariants together hold in every reachable state.
LEMMA BeforeInvariant == ASSUME NoListRequest PROVE Spec => []Before
  <1>1. TypeInv /\ PlaceInv /\ AccountInv /\ OpenInv /\ LockKept /\ BooksKept
        /\ HouseInv => Before
    BY DEF Before, BooksKept
  <1> QED
    BY <1>1, HouseInvariant, NoListKeepsLock, TypeInvariant, PlaceInvariant,
       AccountInvariant, OpenInvariant, BooksInvariant, PTL

\* Nobody has a bid in an auction he is listed as the host of, wherever Open,
\* Bid and their processes fail or die.
THEOREM HostsBidNowhere == ASSUME NoListRequest PROVE Spec => []HostsNeverBid
  <1>1. HouseInv => HostsNeverBid
    BY DEF HouseInv
  <1> QED
    BY <1>1, HouseInvariant, PTL

\* Every END file says a time that the auction was active for, and no more
\* than it was to be.
THEOREM EndsAreTimely == ASSUME NoListRequest PROVE Spec => []EndsInTime
  <1>1. HouseInv => EndsInTime
    BY DEF HouseInv
  <1> QED
    BY <1>1, HouseInvariant, PTL

\* A bid that Bid returns ACCEPT for is recorded, under the bidder's name.
AcceptedRecorded ==
    \A r \in Requests : res[r] = "ACCEPT" =>
        /\ Written(Aid(r), req[r].value)
        /\ bids[Aid(r)][req[r].value].user = Uid(r)

\* What Bid has returned ACCEPT for is on record for good.
THEOREM AcceptsRecorded == ASSUME NoListRequest PROVE Spec => []AcceptedRecorded
  <1>1. HouseInv => AcceptedRecorded
    BY DEF HouseInv, Recorded, AcceptedRecorded
  <1> QED
    BY <1>1, HouseInvariant, PTL

-----------------------------------------------------------------------------
(* The server implements AuctionHouse                                      *)

\* What AuctionHouse sees of the files, one field of House each.
Accounts == [u \in Users |-> IF pass[u] = Empty THEN NoFile ELSE pass[u]]
Lots     == [a \in Aids |-> IF Shown(a) THEN start[a] ELSE NoFile]
Books    == [a \in Aids |-> [v \in Values |->
                IF Shown(a) /\ Written(a, v) THEN bids[a][v].user ELSE NoFile]]
Closed   == [a \in Aids |-> IF Shown(a) /\ end[a] # Empty THEN end[a] ELSE NoFile]

\* A file that is created empty shows nothing to AuctionHouse, nor does any
\* file of an auction that is not shown: what it sees changes at five labels
\* and in two writes of the login file only.
LEMMA SeenAt ==
    ASSUME Before, [Next]_vars, NEW r \in Requests, Serve(r)
    PROVE  /\ UNCHANGED now
           /\ Accounts' = Accounts \/ WritePassword(r) \/ ErasePassword(r)
           /\ login' = login \/ CreateLogin(r) \/ Logout(r)
           /\ Lots' = Lots \/ RegisterHost(r)
           /\ Books' = Books \/ (WriteBid(r) /\ Shown(Aid(r)))
           /\ Closed' = Closed \/ (WriteEnd(r) /\ Shown(target[r]))
  <1>0. /\ Writes(r) /\ Opening(r) /\ Bidding(r) /\ Ending(r)
        /\ Uid(r) \in Users /\ Aid(r) \in Aids /\ req[r].value \in Values
    BY StepBasics
  <1>1. ASSUME CreatePassword(r) PROVE Accounts' = Accounts
    <2>1. pass[Uid(r)] = NoFile
      BY <1>1 DEF CreatePassword, Before, HouseInv, PassInv, FirstPassword
    <2>2. \A u \in Users : pass'[u] # pass[u] => u = Uid(r) /\ pass'[u] = Empty
      BY <1>1 DEF CreatePassword, Before, TypeInv, TypeOK, FilesTypeOK
    <2> QED
      BY <2>1, <2>2 DEF Accounts
  <1>2. ASSUME ~RegisterHost(r), NEW a \in Aids PROVE Shown(a)' = Shown(a)
    <2>1. Shown(a)' <=> Shown(a)
      BY <1>2, ShownAt
    <2> QED
      BY <2>1 DEF Shown
  <1>3. ASSUME ~RegisterHost(r) PROVE Lots' = Lots
    <2>1. \A a \in Aids : Shown(a)' = Shown(a) /\ (Shown(a) => start'[a] = start[a])
      BY <1>2, <1>3, ShownAt
    <2> QED
      BY <2>1 DEF Lots
  <1>4. ASSUME RegisterHost(r), NEW a \in Aids, Shown(a)', ~Shown(a)
        PROVE  /\ end'[a] \in Absent /\ end[a] \in Absent
               /\ \A v \in Values : ~Written(a, v)'
    <2>1. /\ pc[r] = "RegisterHost" /\ UNCHANGED <<bids, end>>
          /\ a = target[r]
      BY <1>4, ShownAt DEF RegisterHost, auctionFiles
    <2> QED
      BY <1>0, <2>1 DEF Opening, OpenLabels, Written
  <1>5. ASSUME NEW a \in Aids, NEW v \in Values,
               ~(WriteBid(r) /\ Shown(Aid(r)))
        PROVE  (IF Shown(a)' /\ Written(a, v)' THEN bids'[a][v].user ELSE NoFile)
               = (IF Shown(a) /\ Written(a, v) THEN bids[a][v].user ELSE NoFile)
    <2>1. CASE Shown(a) /\ bids'[a][v] = bids[a][v]
      BY <2>1, ShownAt DEF Written
    <2>2. CASE Shown(a) /\ bids'[a][v] # bids[a][v]
      <3>1. /\ a = Aid(r) /\ v = req[r].value
            /\ pc[r] = "CreateBidFile" /\ bids'[a][v] = Empty
        BY <1>5, <2>2, BidWrites, ActionAt DEF Before
      <3>2. ~Written(a, v)' /\ ~Written(a, v)
        <4>1. v \in Nat
          BY ValuesAssumption
        <4> QED
          BY <1>0, <3>1, <4>1 DEF Bidding, Written, Absent
      <3> QED
        BY <3>2
    <2>3. CASE ~Shown(a) /\ Shown(a)'
      BY <1>4, <2>3, ShownAt
    <2>4. CASE ~Shown(a) /\ ~Shown(a)'
      BY <2>4
    <2> QED
      BY <2>1, <2>2, <2>3, <2>4
  <1>6. ASSUME NEW a \in Aids, ~(WriteEnd(r) /\ Shown(target[r]))
        PROVE  (IF Shown(a)' /\ end'[a] # Empty THEN end'[a] ELSE NoFile)
               = (IF Shown(a) /\ end[a] # Empty THEN end[a] ELSE NoFile)
    <2>1. CASE Shown(a) /\ end'[a] = end[a]
      BY <2>1, ShownAt
    <2>2. CASE Shown(a) /\ end'[a] # end[a]
      <3>1. a = target[r] /\ pc[r] = "OpenEnd" /\ end'[a] = Empty
        BY <1>6, <2>2, EndWrites, ActionAt DEF Before
      <3>2. end[a] = NoFile
        BY <1>0, <3>1 DEF Ending
      <3> QED
        BY <3>1, <3>2
    <2>3. CASE ~Shown(a) /\ Shown(a)'
      BY <1>4, <2>3, ShownAt DEF Absent
    <2>4. CASE ~Shown(a) /\ ~Shown(a)'
      BY <2>4
    <2> QED
      BY <2>1, <2>2, <2>3, <2>4
  <1>7. UNCHANGED now
    BY <1>0 DEF Writes
  <1>8. Accounts' = Accounts \/ WritePassword(r) \/ ErasePassword(r)
    <2>1. pass' = pass => Accounts' = Accounts
      BY DEF Accounts
    <2> QED
      BY <1>0, <1>1, <2>1 DEF Writes
  <1>9. login' = login \/ CreateLogin(r) \/ Logout(r)
    BY <1>0 DEF Writes
  <1>10. Books' = Books \/ (WriteBid(r) /\ Shown(Aid(r)))
    BY <1>5, Zenon DEF Books
  <1>11. Closed' = Closed \/ (WriteEnd(r) /\ Shown(target[r]))
    BY <1>6, Zenon DEF Closed
  <1> QED
    BY <1>3, <1>7, <1>8, <1>9, <1>10, <1>11

\* LIN registers a user with his first password and UNR takes it from him.
LEMMA AccountSteps ==
    ASSUME Before, [Next]_vars, NEW r \in Requests, Serve(r)
    PROVE  /\ WritePassword(r) => House!Register(Uid(r), req[r].pw)
           /\ ErasePassword(r) => House!Unregister(Uid(r))
           /\ CreateLogin(r) /\ login' # login => House!LogIn(Uid(r))
           /\ Logout(r) /\ login' # login => House!LogOut(Uid(r))
  <1> DEFINE u == Uid(r)
  <1> USE DEF Before, TypeInv, TypeOK, FilesTypeOK
  <1>0. /\ u \in Users /\ req[r].pw \in Passwords /\ KnowsUser(r)
        /\ FirstPassword(r)
        /\ NoFile # Empty /\ Empty \notin Passwords /\ NoFile \notin Passwords
    BY RequestType, AbsentAssumption DEF AccountInv, Absent, HouseInv, PassInv
  <1>1. ASSUME WritePassword(r) PROVE House!Register(u, req[r].pw)
    <2>1. Accounts[u] = NoFile
      BY <1>0, <1>1 DEF WritePassword, Accounts, FirstPassword
    <2>2. Accounts' = [Accounts EXCEPT ![u] = req[r].pw]
      BY <1>0, <1>1 DEF WritePassword, Accounts
    <2>3. UNCHANGED <<login, Lots, Books, Closed, now>>
      BY <1>1, SeenAt DEF WritePassword, CreateLogin, Logout, RegisterHost, WriteBid,
         WriteEnd
    <2> QED
      BY <2>1, <2>2, <2>3 DEF House!Register, Accounts, Lots, Books, Closed
  <1>2. ASSUME ErasePassword(r) PROVE House!Unregister(u)
    <2>1. u \notin login
      BY <1>0, <1>2 DEF ErasePassword, KnowsUser
    <2>2. Accounts' = [Accounts EXCEPT ![u] = NoFile]
      <3>1. \/ pass[u] = NoFile /\ pass' = pass
            \/ pass' = [pass EXCEPT ![u] = NoFile]
        BY <1>0, <1>2 DEF ErasePassword, HouseInv, PassInv, CheckUserExisted
      <3> QED
        BY <1>0, <3>1 DEF Accounts
    <2>3. UNCHANGED <<login, Lots, Books, Closed, now>>
      BY <1>2, SeenAt DEF ErasePassword, CreateLogin, Logout, RegisterHost, WriteBid,
         WriteEnd
    <2> QED
      BY <2>1, <2>2, <2>3 DEF House!Unregister, Accounts, Lots, Books, Closed
  <1>3. ASSUME CreateLogin(r), login' # login PROVE House!LogIn(u)
    <2>1. Accounts[u] # NoFile
      BY <1>0, <1>3 DEF CreateLogin, KnowsUser, Accounts
    <2>2. login' = login \cup {u}
      BY <1>3 DEF CreateLogin
    <2>3. UNCHANGED <<Accounts, Lots, Books, Closed, now>>
      BY <1>3, SeenAt DEF CreateLogin, WritePassword, ErasePassword, RegisterHost,
         WriteBid, WriteEnd
    <2> QED
      BY <2>1, <2>2, <2>3 DEF House!LogIn, Accounts, Lots, Books, Closed
  <1>4. ASSUME Logout(r), login' # login PROVE House!LogOut(u)
    <2>1. login' = login \ {u}
      BY <1>4 DEF Logout
    <2>2. UNCHANGED <<Accounts, Lots, Books, Closed, now>>
      BY <1>4, SeenAt DEF Logout, WritePassword, ErasePassword, RegisterHost,
         WriteBid, WriteEnd
    <2> QED
      BY <2>1, <2>2 DEF House!LogOut, Accounts, Lots, Books, Closed
  <1> QED
    BY <1>1, <1>2, <1>3, <1>4

\* OPA opens an auction when it registers the host: its id is the largest,
\* those included that others have left without a host.
LEMMA OpenStep ==
    ASSUME Before, [Next]_vars, NEW r \in Requests, Serve(r),
           RegisterHost(r), Lots' # Lots
    PROVE  \E a \in Aids : House!OpenAuction(Uid(r), a)
  <1>0. /\ Uid(r) \in Users /\ Opening(r) /\ Builds(r) /\ pc[r] = "RegisterHost"
    BY StepBasics DEF RegisterHost
  <1>1. PICK a \in Aids : Shown(a)' /\ ~Shown(a)
    <2>1. ASSUME \A a \in Aids : Shown(a)' => Shown(a) PROVE Lots' = Lots
      <3>1. \A a \in Aids : Shown(a)' = Shown(a) /\ (Shown(a) => start'[a] = start[a])
        <4>1. \A a \in Aids : (Shown(a)' <=> Shown(a))
                              /\ (Shown(a) => start'[a] = start[a])
          BY <2>1, ShownAt
        <4> QED
          BY <4>1 DEF Shown
      <3> QED
        BY <3>1 DEF Lots
    <2> QED
      BY <2>1
  <1>2. a = target[r] /\ \A b \in Aids \ {a} : Shown(b)' = Shown(b)
    <2>1. a = target[r] /\ \A b \in Aids \ {a} : Shown(b)' <=> Shown(b)
      BY <1>1, ShownAt
    <2> QED
      BY <2>1 DEF Shown
  <1>3. /\ UNCHANGED start /\ GetStart(a) /\ start[a].host = Uid(r)
        /\ Uid(r) \in login /\ \A b \in AuctionDirs : b <= a
    BY <1>0, <1>2 DEF RegisterHost, auctionFiles, Opening, OpenLabels, Builds,
       Started, GetStart
  <1>4. ASSUME NEW b \in Aids, Lots[b] # NoFile PROVE b < a
    <2>1. Shown(b)
      BY <1>4 DEF Lots
    <2>2. b \in AuctionDirs /\ b # a
      BY <1>1, <2>1 DEF Shown, Before, OpenInv, AuctionDirs, CheckAuctionExists, Absent
    <2>3. a \in Int /\ b \in Int
      BY DEF Aids
    <2> QED
      BY <1>3, <2>2, <2>3
  <1>5. Lots' = [Lots EXCEPT ![a] = Lots'[a]] /\ Lots'[a] = start[a]
    BY <1>1, <1>2, <1>3 DEF Lots
  <1>6. start[a] \in [host : {Uid(r)}, value : Values, timeactive : Nat \ {0},
                      at : 0 .. now]
    <2>1. /\ start[a] \in StartInfo /\ start[a].at <= now
          /\ start[a].timeactive > 0
      BY <1>3 DEF GetStart, Before, HouseInv, StartsTimely, TypeInv, TypeOK, FilesTypeOK
    <2>2. start[a].at \in Nat /\ start[a].timeactive \in Nat /\ now \in Nat
      BY <2>1, StepBasics, BoundsAssumption DEF StartInfo, Times
    <2>3. start[a].at \in 0 .. now /\ start[a].timeactive \in Nat \ {0}
      BY <2>1, <2>2
    <2> QED
      BY <1>3, <2>1, <2>3 DEF StartInfo
  <1>7. UNCHANGED <<Accounts, login, Books, Closed, now>>
    BY <1>0, SeenAt DEF WritePassword, ErasePassword, CreateLogin, Logout,
       WriteBid, WriteEnd
  <1>8. House!OpenAuction(Uid(r), a)
    BY <1>3, <1>4, <1>5, <1>6, <1>7
       DEF House!OpenAuction, House!Exists, Accounts, Lots, Books, Closed
  <1> QED
    BY <1>8

\* BID places its bid when it writes the file, if the auction is shown.
LEMMA BidStep ==
    ASSUME Before, [Next]_vars, NEW r \in Requests, Serve(r),
           WriteBid(r), Shown(Aid(r))
    PROVE  House!PlaceBid(Uid(r), Aid(r), req[r].value)
  <1> DEFINE u == Uid(r)
             a == Aid(r)
             v == req[r].value
  <1>0. /\ u \in Users /\ a \in Aids /\ v \in Values
        /\ Bidder(r) /\ Bidding(r) /\ pc[r] = "WriteBid"
    BY StepBasics DEF WriteBid
  <1>1. /\ u \in login /\ a \notin hosted[u]
        /\ GetStart(a) /\ end[a] = NoFile /\ v > start[a].value
        /\ \A w \in Values : Written(a, w) => w < v
    BY <1>0 DEF Bidder, Bidding
  <1>2. Lots[a] = start[a] /\ start[a] # NoFile /\ start[a].host # u
    BY <1>0, <1>1 DEF Lots, Shown, Absent
  <1>3. Closed[a] = NoFile
    BY <1>0, <1>1 DEF Closed
  <1>4. \A w \in Values : Books[a][w] # NoFile => w < v
    BY <1>0, <1>1 DEF Books
  <1>5. Books' = [Books EXCEPT ![a][v] = u]
    <2>0. \A b \in Aids : Shown(b)' = Shown(b)
      <3>1. \A b \in Aids : Shown(b)' <=> Shown(b)
        BY <1>0, ShownAt DEF RegisterHost
      <3> QED
        BY <3>1 DEF Shown
    <2>1. ASSUME NEW b \in Aids, NEW w \in Values
          PROVE  bids'[b][w] = IF b = a /\ w = v THEN [user |-> u, at |-> stamp[r]]
                                                 ELSE bids[b][w]
      BY <1>0, <2>1, OneBidWritten
         DEF WriteBid, Before, TypeInv, TypeOK, FilesTypeOK
    <2>2. [user |-> u, at |-> stamp[r]] \notin Absent
      BY <1>0, AbsentAssumption DEF BidInfo, Before, TypeInv, TypeOK, ProcessTypeOK
    <2>3. ASSUME NEW b \in Aids, NEW w \in Values
          PROVE  Books'[b][w] = IF b = a /\ w = v THEN u ELSE Books[b][w]
      <3>1. CASE b = a /\ w = v
        BY <2>0, <2>1, <2>2, <3>1 DEF Books, Written
      <3>2. CASE ~(b = a /\ w = v)
        BY <2>0, <2>1, <3>2 DEF Books, Written
      <3> QED
        BY <3>1, <3>2
    <2>4. /\ Books \in [Aids -> [Values -> Users \cup {NoFile}]]
          /\ Books' \in [Aids -> [Values -> Users \cup {NoFile}]]
      <3>1. ASSUME NEW b \in Aids, NEW w \in Values, Written(b, w)
            PROVE  bids[b][w].user \in Users
        BY <3>1 DEF Written, Before, TypeInv, TypeOK, FilesTypeOK, BidInfo
      <3>2. ASSUME NEW b \in Aids, NEW w \in Values
            PROVE  Books[b][w] \in Users \cup {NoFile}
        BY <3>1 DEF Books
      <3> QED
        BY <1>0, <2>3, <3>2 DEF Books
    <2> QED
      BY <1>0, <2>3, <2>4
  <1>6. UNCHANGED <<Accounts, login, Lots, Closed, now>>
    BY <1>0, SeenAt DEF WritePassword, ErasePassword, CreateLogin, Logout,
       RegisterHost, WriteEnd
  <1> QED
    BY <1>0, <1>1, <1>2, <1>3, <1>4, <1>5, <1>6
       DEF House!PlaceBid, House!Open, House!Exists, House!Bids, Accounts, Lots,
           Books, Closed

\* Whoever ends an auction that is shown closes it by writing the END file.
LEMMA CloseStep ==
    ASSUME Before, [Next]_vars, NEW r \in Requests, Serve(r),
           WriteEnd(r), Shown(target[r])
    PROVE  \E a \in Aids : House!Close(a)
  <1>0. /\ Ends(r) /\ Ending(r) /\ pc[r] = "WriteEnd"
        /\ target[r] \in Aids /\ stamp[r] \in Int
    BY StepBasics DEF WriteEnd, Before, TypeInv, TypeOK, ProcessTypeOK, LocalsOK,
       TargetLabels
  <1>1. ASSUME NEW a \in Aids, a = target[r] PROVE House!Close(a)
    <2>1. GetStart(a) /\ end[a] = Empty
      BY <1>0, <1>1 DEF Ending
    <2>2. Lots[a] = start[a] /\ start[a] # NoFile
      BY <1>1, <2>1 DEF Lots, GetStart, Absent
    <2>3. Closed[a] = NoFile
      BY <2>1 DEF Closed
    <2>4. /\ stamp[r] \in 0 .. Lots[a].timeactive /\ stamp[r] <= now - Lots[a].at
          /\ Lots[a].host \in login \/ stamp[r] = Lots[a].timeactive
      BY <1>0, <1>1, <2>2 DEF Ends, InTime, Elapsed
    <2>5. Closed' = [Closed EXCEPT ![a] = stamp[r]]
      <3>0. \A b \in Aids : Shown(b)' = Shown(b)
        <4>1. \A b \in Aids : Shown(b)' <=> Shown(b)
          BY <1>0, ShownAt DEF RegisterHost
        <4> QED
          BY <4>1 DEF Shown
      <3>1. end' = [end EXCEPT ![a] = stamp[r]]
        BY <1>1 DEF WriteEnd
      <3>2. stamp[r] # Empty /\ Shown(a)
        BY <1>0, <1>1, AbsentAssumption DEF Absent
      <3>3. ASSUME NEW b \in Aids
            PROVE  Closed'[b] = IF b = a THEN stamp[r] ELSE Closed[b]
        BY <3>0, <3>1, <3>2 DEF Closed, Before, TypeInv, TypeOK, FilesTypeOK
      <3> QED
        BY <3>3 DEF Closed
    <2>6. UNCHANGED <<Accounts, login, Lots, Books, now>>
      BY <1>0, SeenAt DEF WritePassword, ErasePassword, CreateLogin, Logout,
         RegisterHost, WriteBid
    <2> QED
      BY <2>2, <2>3, <2>4, <2>5, <2>6
         DEF House!Close, House!Open, House!Exists, House!Active, Accounts, Lots,
             Books, Closed
  <1> QED
    BY <1>0, <1>1

\* AuctionHouse sees a step in which its variables keep their values as none.
LEMMA Unseen ==
    ASSUME UNCHANGED <<Accounts, login, Lots, Books, Closed, now>>
    PROVE  UNCHANGED House!house
  BY DEF House!house, Accounts, Lots, Books, Closed

\* Every step of the server is one of AuctionHouse, or none that it sees.
LEMMA HouseStep ==
    ASSUME Before, [Next]_vars PROVE [House!Next]_(House!house)
  <1>1. CASE Quiet
    <2>1. UNCHANGED <<Accounts, login, Lots, Books, Closed>>
      BY <1>1 DEF Quiet, userFiles, auctionFiles, Accounts, Lots, Books,
         Closed, Written, Shown
    <2>2. CASE now' = now
      BY <2>1, <2>2, Unseen
    <2>3. CASE now' = now + 1
      BY <2>1, <2>3 DEF House!Next, House!Tick, Accounts, Lots, Books, Closed
    <2> QED
      BY <1>1, <2>2, <2>3 DEF Quiet
  <1>2. ASSUME NEW r \in Requests, Serve(r)
        PROVE  House!Next \/ UNCHANGED House!house
    <2>1. Uid(r) \in Users /\ Aid(r) \in Aids
          /\ req[r].value \in Values /\ req[r].pw \in Passwords
      BY RequestType DEF Before
    <2>2. CASE \/ WritePassword(r) \/ ErasePassword(r)
               \/ /\ CreateLogin(r) \/ Logout(r)
                  /\ login' # login
      BY <1>2, <2>1, <2>2, AccountSteps
         DEF House!Next, House!Register, House!Unregister, House!LogIn, House!LogOut
    <2>3. CASE RegisterHost(r) /\ Lots' # Lots
      BY <1>2, <2>1, <2>3, OpenStep DEF House!Next
    <2>4. CASE WriteBid(r) /\ Shown(Aid(r))
      BY <1>2, <2>1, <2>4, BidStep DEF House!Next, House!PlaceBid
    <2>5. CASE WriteEnd(r) /\ Shown(target[r])
      BY <1>2, <2>5, CloseStep DEF House!Next
    <2>6. CASE UNCHANGED <<Accounts, login, Lots, Books, Closed, now>>
      BY <2>6, Unseen
    <2>7. \/ WritePassword(r) \/ ErasePassword(r)
          \/ /\ CreateLogin(r) \/ Logout(r)
             /\ login' # login
          \/ RegisterHost(r) /\ Lots' # Lots
          \/ WriteBid(r) /\ Shown(Aid(r))
          \/ WriteEnd(r) /\ Shown(target[r])
          \/ UNCHANGED <<Accounts, login, Lots, Books, Closed, now>>
      BY <1>2, SeenAt
    <2> QED
      BY <2>2, <2>3, <2>4, <2>5, <2>6, <2>7
  <1> QED
    BY <1>1, <1>2, StepKinds DEF Before

\* AuctionHouse starts from what the files say when the server starts.
LEMMA HouseAtFirst == Init => House!Init
  <1> SUFFICES ASSUME Init PROVE House!Init
    OBVIOUS
  <1>1. Accounts = InitPassword
    BY InitAssumption, AbsentAssumption DEF Init, Accounts, Absent
  <1>2. Lots = InitStart
    <2>1. ASSUME NEW a \in Aids
          PROVE  (IF Shown(a) THEN start[a] ELSE NoFile) = InitStart[a]
      BY <2>1, InitAssumption, AbsentAssumption DEF Init, Shown, StartInfo, Absent
    <2> QED
      BY <2>1, InitAssumption DEF Lots
  <1>3. /\ Books = [a \in Aids |-> [v \in Values |-> NoFile]]
        /\ Closed = [a \in Aids |-> NoFile]
    BY AbsentAssumption DEF Init, Books, Closed, Written, Absent
  <1> QED
    BY <1>1, <1>2, <1>3 DEF Init, House!Init, Accounts, Lots, Books, Closed

\* Without LST the server, with its files and its processes, does what
\* AuctionHouse allows, whatever dies or fails: every request looks as if it
\* took effect in one step, or had none.
THEOREM ServerImplementsHouse == ASSUME NoListRequest PROVE Spec => HouseSpec
  <1>1. ASSUME Before, [Next]_vars PROVE [House!Next]_(House!house)
    BY <1>1, HouseStep
  <1> QED
    BY <1>1, HouseAtFirst, BeforeInvariant, PTL DEF Spec, HouseSpec, House!Spec

=============================================================================
