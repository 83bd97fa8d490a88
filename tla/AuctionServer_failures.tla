----------------------- MODULE AuctionServer_failures -----------------------
(***************************************************************************)
(* What creations that fail, deaths and restarts cannot break, for every   *)
(* value of the constants.  Even if an LST goes around the lock, whoever   *)
(* is logged in has a password, whoever has a bid finds it among his own,  *)
(* and an auction that Open answered OK for is complete and was given      *)
(* once.  As long as none has, the bids and the ends of the auctions       *)
(* outlive everything else, and few files are lost.                        *)
(***************************************************************************)
EXTENDS AuctionServer_types, FiniteSetTheorems

-----------------------------------------------------------------------------
(* Where the process of a request can be.                                  *)

\* The labels of Open between the choice of the id and its return.
OpenLabels == {"CreateAuctionDir", "CreateSubDirs", "CreateStartFile",
               "WriteStart", "CreateAssetFile", "WriteAsset", "RegisterHost"}

\* Label l belongs to a function that serves requests op.
RunsIn(op, l) ==
    \/ l \in {"none", "idle", "wait", "post", "reply", "done", "dead", "lost"}
    \/ op = "LIN" /\ l \in {"LoginUser", "CreateUserDir", "CreatePassword",
                            "WritePassword", "CreateLogin"}
    \/ op \in {"LOU", "UNR"} /\ l = "Logout"
    \/ op = "UNR" /\ l \in {"Unregister", "ErasePassword"}
    \/ op = "LMA" /\ l = "MyAuctions"
    \/ op = "LMB" /\ l = "MyBids"
    \/ op = "LST" /\ l = "List"
    \/ op \in {"LMA", "LMB", "LST"} /\ l = "Visit"
    \/ op = "SRC" /\ l \in {"ShowRecord", "ReadRecord"}
    \/ op = "SAS" /\ l \in {"GetAssetDir", "NoAsset", "ShowAsset"}
    \/ op = "OPA" /\ l \in {"Open"} \cup OpenLabels
    \/ op = "CLS" /\ l = "CloseAuction"
    \/ op = "BID" /\ l \in {"Bid", "RegisterBid", "CreateBidFile", "WriteBid"}
    \/ op \in {"CLS", "BID", "SRC", "LMA", "LMB", "LST"}
       /\ l \in {"CreateEndFile", "OpenEnd", "WriteEnd"}

\* Every process is in a function of its request, and so is the critical
\* section it will enter; only UNR has more than one of them.
Placed(op, l, c) ==
    /\ RunsIn(op, l)
    /\ l = "wait" => RunsIn(op, c)
    /\ l = "post" /\ c # "none" => op = "UNR" /\ c \in {"Logout", "ErasePassword"}
    /\ l \in ({"List"} \cup CriticalLabels) \ {"post"} => c = "none"
PlaceInv == \A r \in Requests : Placed(Op(r), pc[r], cont[r])

-----------------------------------------------------------------------------
(* What a step of a process can change, and how a process gets to a label. *)

\* The step of r leaves the other processes and all requests as they are.
Others(r) ==
    /\ UNCHANGED req
    /\ \A s \in Requests \ {r} :
          /\ pc'[s] = pc[s] /\ cont'[s] = cont[s] /\ res'[s] = res[s]
          /\ reply'[s] = reply[s] /\ target'[s] = target[s]
          /\ stamp'[s] = stamp[s] /\ todo'[s] = todo[s] /\ out'[s] = out[s]

\* The actions that write each file and each local of a process.
Writes(r) ==
    /\ UNCHANGED userDir \/ CreateUserDir(r)
    /\ UNCHANGED pass \/ CreatePassword(r) \/ WritePassword(r) \/ ErasePassword(r)
    /\ UNCHANGED login \/ CreateLogin(r) \/ Logout(r)
    /\ UNCHANGED hosted \/ RegisterHost(r)
    /\ UNCHANGED bidded \/ RegisterBid(r)
    /\ UNCHANGED auctionDir \/ CreateAuctionDir(r) \/ CreateSubDirs(r)
    /\ UNCHANGED start \/ CreateStartFile(r) \/ WriteStart(r)
    /\ UNCHANGED asset \/ CreateAssetFile(r) \/ WriteAsset(r)
    /\ UNCHANGED bids \/ CreateBidFile(r) \/ WriteBid(r)
    /\ UNCHANGED end \/ OpenEnd(r) \/ WriteEnd(r)
    /\ UNCHANGED reply \/ Reply(r)
    /\ UNCHANGED target \/ Open(r) \/ CloseAuction(r) \/ Bid(r) \/ Visit(r)
       \/ ShowRecord(r)
    /\ UNCHANGED <<now, crashes>>

\* The actions that lead to the labels and results other actions rely on.
Comes(r) ==
    /\ pc'[r] = "CreateUserDir"  => LoginUser(r) \/ CreateUserDir(r)
    /\ pc'[r] = "CreatePassword" => LoginUser(r) \/ CreateUserDir(r)
    /\ pc'[r] = "WritePassword"  => CreatePassword(r)
    /\ pc'[r] = "CreateLogin"    => LoginUser(r) \/ WritePassword(r)
    /\ pc'[r] = "ErasePassword"  => SemaphoreWait(r)
    /\ pc'[r] \in {"post", "wait"} /\ cont'[r] = "ErasePassword" =>
          Logout(r) \/ SemaphorePost(r)
    /\ pc'[r] = "CreateAuctionDir" => Open(r)
    /\ pc'[r] = "CreateSubDirs"   => CreateAuctionDir(r) \/ CreateSubDirs(r)
    /\ pc'[r] = "CreateStartFile" => CreateSubDirs(r)
    /\ pc'[r] = "WriteStart"      => CreateStartFile(r)
    /\ pc'[r] = "CreateAssetFile" => WriteStart(r)
    /\ pc'[r] = "WriteAsset"      => CreateAssetFile(r)
    /\ pc'[r] = "RegisterHost"    => WriteAsset(r)
    /\ pc'[r] = "OpenEnd"         => CreateEndFile(r)
    /\ pc'[r] = "WriteEnd"        => OpenEnd(r)
    /\ pc'[r] = "RegisterBid"     => Bid(r)
    /\ pc'[r] = "CreateBidFile"   => RegisterBid(r)
    /\ pc'[r] = "WriteBid"        => CreateBidFile(r)
    /\ pc'[r] = "CreateEndFile"   => CloseAuction(r) \/ Bid(r) \/ ShowRecord(r)
                                     \/ Visit(r)
    /\ pc'[r] = "ReadRecord"      => ShowRecord(r) \/ OpenEnd(r) \/ WriteEnd(r)
    /\ pc'[r] = "ShowAsset"       => SemaphoreWait(r)
    /\ cont'[r] = "ShowAsset" => cont[r] = "ShowAsset" \/ GetAssetDir(r)
    /\ res'[r] = "OK" => res[r] = "OK" \/ RegisterHost(r) \/ Op(r) # "OPA"
    /\ res'[r] = "LIST" => res[r] = "LIST" \/ Op(r) \in {"LMA", "LMB", "LST"}
    /\ res'[r] = "ACCEPT" => res[r] = "ACCEPT" \/ WriteBid(r)
    /\ res'[r] = "REFUSE" => res[r] = "REFUSE" \/ RegisterBid(r)
                              \/ CreateBidFile(r)
    /\ res'[r] = "TORN" => res[r] = "TORN" \/ ShowRecord(r) \/ ReadRecord(r)
                            \/ ShowAsset(r)
    /\ pc[r] # "idle" /\ pc'[r] # "idle" /\ Served(r)

-----------------------------------------------------------------------------
(* The inductive invariants                                                *)

\* UDP requests are served one after the other.
UdpAlone ==
    \A r, s \in Requests :
        Served(r) /\ Served(s) /\ Op(r) \in UdpOps /\ Op(s) \in UdpOps => r = s

\* What LIN and UNR know of their user from one step to the next: LIN creates
\* files for a user who is not logged in and lets in one who has a password,
\* and UNR erases the password of nobody who is logged in.
KnowsUser(r) ==
    /\ pc[r] \in {"CreateUserDir", "CreatePassword", "WritePassword"} =>
          Uid(r) \notin login
    /\ pc[r] \in {"CreatePassword", "WritePassword"} => userDir[Uid(r)] > 0
    /\ pc[r] = "CreateLogin" => userDir[Uid(r)] > 0 /\ pass[Uid(r)] \in Passwords
    /\ \/ pc[r] = "ErasePassword"
       \/ pc[r] \in {"post", "wait"} /\ cont[r] = "ErasePassword"
       => Uid(r) \notin login

AccountInv ==
    UdpAlone /\ (\A r \in Requests : KnowsUser(r)) /\ LoggedInHasPassword

\* Bid registers the bidder before it creates the file.
BidderInv ==
    /\ \A r \in Requests : pc[r] \in {"CreateBidFile", "WriteBid"} =>
                              Aid(r) \in bidded[Uid(r)]
    /\ BiddersListed

\* The requests whose mkdir has given them the id in target[r].
Owns(r) == Op(r) = "OPA" /\ \/ pc[r] \in OpenLabels \ {"CreateAuctionDir"}
                            \/ res[r] = "OK"
Started(r) == start[target[r]] \notin Absent /\ start[target[r]].host = Uid(r)

\* How far the request has got with its auction.
Builds(r) ==
    /\ pc[r] = "idle" => res[r] = "none"
    /\ pc[r] # "done" => reply[r] = "none"
    /\ Owns(r) => target[r] \in Aids /\ auctionDir[target[r]] > 0
    /\ pc[r] \in {"CreateSubDirs", "CreateStartFile"} => start[target[r]] = NoFile
    /\ pc[r] = "WriteStart" => start[target[r]] = Empty
    /\ pc[r] \in {"CreateAssetFile", "WriteAsset", "RegisterHost"} => Started(r)
    /\ pc[r] = "RegisterHost" => asset[target[r]] = "whole"
    /\ Op(r) = "OPA" /\ res[r] = "OK" =>
          /\ Started(r) /\ Whole(target[r])
          /\ pc[r] \in {"post", "reply"} \cup {"done", "dead", "lost"}
    /\ Op(r) = "OPA" => res[r] # "LIST"
    /\ Op(r) = "OPA" /\ reply[r] = "OK" => res[r] = "OK"

\* mkdir gives an id to one request only; what this request has made of the
\* auction, nobody else writes.
OpenInv ==
    /\ \A r, s \in Requests : Owns(r) /\ Owns(s) /\ target[r] = target[s] => r = s
    /\ \A a \in Aids : start[a] # NoFile => auctionDir[a] > 0
    /\ \A r \in Requests : Builds(r)

-----------------------------------------------------------------------------

\* LoginUser, Logout and Unregister write accounts only.
LEMMA AccountStepFacts ==
    ASSUME TypeInv, PlaceInv, NEW r \in Requests, AccountStep(r)
    PROVE  Others(r) /\ Writes(r) /\ Comes(r) /\ Placed(Op(r), pc'[r], cont'[r])
  <1> USE DEF TypeInv, TypeOK, ProcessTypeOK, Others, Writes, Comes, Served, Finished,
              PlaceInv, Placed, RunsIn, CriticalLabels, otherFiles, auctionFiles,
                 locals,
              Goto, Return, Reenter, OpenLabels
  <1>1. CASE LoginUser(r)
    BY <1>1 DEF LoginUser
  <1>2. CASE CreateUserDir(r)
    BY <1>2 DEF CreateUserDir
  <1>3. CASE CreatePassword(r)
    BY <1>3 DEF CreatePassword
  <1>4. CASE WritePassword(r)
    BY <1>4 DEF WritePassword
  <1>5. CASE CreateLogin(r)
    BY <1>5 DEF CreateLogin
  <1>6. CASE Logout(r)
    BY <1>6 DEF Logout
  <1>7. CASE Unregister(r)
    BY <1>7 DEF Unregister
  <1>8. CASE ErasePassword(r)
    BY <1>8 DEF ErasePassword
  <1> QED
    BY <1>1, <1>2, <1>3, <1>4, <1>5, <1>6, <1>7, <1>8 DEF AccountStep

\* Open, CloseAuction and Bid write auctions, bids and the lists of users.
LEMMA AuctionStepFacts ==
    ASSUME TypeInv, PlaceInv, NEW r \in Requests, AuctionStep(r)
    PROVE  Others(r) /\ Writes(r) /\ Comes(r) /\ Placed(Op(r), pc'[r], cont'[r])
  <1> USE DEF TypeInv, TypeOK, ProcessTypeOK, Others, Writes, Comes, Served, Finished,
              PlaceInv, Placed, RunsIn, CriticalLabels, sharedRest, auctionFiles,
                 locals,
              Goto, Return, Escape, OpenFails, OpenLabels
  <1>1. CASE Open(r)
    BY <1>1 DEF Open
  <1>2. CASE CreateAuctionDir(r)
    BY <1>2 DEF CreateAuctionDir
  <1>3. CASE CreateSubDirs(r)
    BY <1>3 DEF CreateSubDirs
  <1>4. CASE CreateStartFile(r)
    BY <1>4 DEF CreateStartFile
  <1>5. CASE WriteStart(r)
    BY <1>5 DEF WriteStart
  <1>6. CASE CreateAssetFile(r)
    BY <1>6 DEF CreateAssetFile
  <1>7. CASE WriteAsset(r)
    BY <1>7 DEF WriteAsset
  <1>8. CASE RegisterHost(r)
    BY <1>8 DEF RegisterHost
  <1>9. CASE CreateEndFile(r)
    BY <1>9 DEF CreateEndFile
  <1>10. CASE OpenEnd(r)
    BY <1>10, ZenonT(60) DEF OpenEnd, AfterClose
  <1>11. CASE WriteEnd(r)
    BY <1>11, ZenonT(60) DEF WriteEnd, AfterClose
  <1>12. CASE CloseAuction(r)
    BY <1>12 DEF CloseAuction
  <1>13. CASE Bid(r)
    <2>1. /\ pc[r] = "Bid" /\ UNCHANGED cont
          /\ pc'[r] \in {"post", "reply", "CreateEndFile", "RegisterBid"}
      BY <1>13 DEF Bid
    <2>2. Others(r)
      BY <1>13 DEF Bid
    <2>3. UNCHANGED <<userDir, pass, login, hosted, bidded, auctionDir, start, asset,
                      bids, end, reply, now, crashes>>
      BY <1>13 DEF Bid
    <2>4. res'[r] \in {"OK", "LIST", "ACCEPT", "REFUSE", "TORN"} => res'[r] = res[r]
      BY <1>13 DEF Bid, BidRefusal
    <2>5. Writes(r)
      BY <1>13, <2>3
    <2>6. Served(r) /\ Placed(Op(r), pc'[r], cont'[r])
      BY <2>1, <2>2, <2>3
    <2> QED
      BY <1>13, <2>1, <2>2, <2>4, <2>5, <2>6
  <1>14. CASE RegisterBid(r)
    BY <1>14 DEF RegisterBid
  <1>15. CASE CreateBidFile(r)
    BY <1>15 DEF CreateBidFile
  <1>16. CASE WriteBid(r)
    BY <1>16 DEF WriteBid
  <1> QED
    BY <1>1, <1>2, <1>3, <1>4, <1>5, <1>6, <1>7, <1>8, <1>9, <1>10, <1>11, <1>12,
       <1>13, <1>14, <1>15, <1>16 DEF AuctionStep

\* The listings and the other requests that only read write no file.
LEMMA ListingStepFacts ==
    ASSUME TypeInv, PlaceInv, NEW r \in Requests, ListingStep(r)
    PROVE  Others(r) /\ Writes(r) /\ Comes(r) /\ Placed(Op(r), pc'[r], cont'[r])
  <1> USE DEF TypeInv, TypeOK, ProcessTypeOK, Others, Writes, Comes, Served, Finished,
              PlaceInv, Placed, RunsIn, CriticalLabels, listingRest, userFiles,
              auctionFiles, Goto, Return, Escape, ListEntries,
              OpenLabels
  <1>1. CASE MyAuctions(r)
    BY <1>1 DEF MyAuctions
  <1>2. CASE MyBids(r)
    BY <1>2 DEF MyBids
  <1>3. CASE List(r)
    BY <1>3 DEF List
  <1>4. CASE Visit(r)
    BY <1>4, ZenonT(60) DEF Visit
  <1>5. CASE ShowRecord(r)
    BY <1>5 DEF ShowRecord
  <1>6. CASE ReadRecord(r)
    BY <1>6 DEF ReadRecord
  <1>7. CASE GetAssetDir(r)
    BY <1>7 DEF GetAssetDir
  <1>8. CASE ShowAsset(r)
    BY <1>8 DEF ShowAsset
  <1> QED
    BY <1>1, <1>2, <1>3, <1>4, <1>5, <1>6, <1>7, <1>8 DEF ListingStep

\* Nor do the semaphore operations and the reply.
LEMMA LockStepFacts ==
    ASSUME TypeInv, PlaceInv, NEW r \in Requests,
           SemaphoreWait(r) \/ SemaphorePost(r) \/ Reply(r)
    PROVE  Others(r) /\ Writes(r) /\ Comes(r) /\ Placed(Op(r), pc'[r], cont'[r])
  <1> USE DEF TypeInv, TypeOK, ProcessTypeOK, Others, Writes, Comes, Served, Finished,
              LocalsOK, PlaceInv, Placed, RunsIn, CriticalLabels, OpenLabels, Sections,
              userFiles,
              auctionFiles, locals
  <1>1. CASE SemaphoreWait(r)
    BY <1>1 DEF SemaphoreWait
  <1>2. CASE SemaphorePost(r)
    BY <1>2 DEF SemaphorePost
  <1>3. CASE Reply(r)
    <2>1. /\ pc[r] = "reply" /\ pc'[r] = "done"
          /\ UNCHANGED <<cont, res>> /\ Placed(Op(r), "done", cont[r])
      BY <1>3 DEF Reply
    <2>2. Others(r)
      BY <1>3 DEF Reply
    <2>3. UNCHANGED <<userFiles, auctionFiles, now, crashes, locals>>
      BY <1>3 DEF Reply
    <2>4. Writes(r)
      BY <1>3, <2>3
    <2>5. Comes(r)
      BY <1>3, <2>1
    <2> QED
      BY <2>1, <2>2, <2>4, <2>5
  <1> QED
    BY <1>1, <1>2, <1>3

-----------------------------------------------------------------------------
\* What a step of the process of r can change, whatever its action is.
LEMMA StepFacts ==
    ASSUME TypeInv, PlaceInv, NEW r \in Requests, Serve(r)
    PROVE  Others(r) /\ Writes(r) /\ Comes(r) /\ Placed(Op(r), pc'[r], cont'[r])
  BY AccountStepFacts, AuctionStepFacts, ListingStepFacts, LockStepFacts
     DEF Serve

\* The steps that no process takes: a request arrives, processes die, time
\* passes.  They leave every file and every result as it is.
Entered(r) ==
    /\ pc[r] = "idle" /\ pc'[r] \in {"List", "GetAssetDir", "wait"}
    /\ (pc'[r] = "List") <=> (req'[r].op = "LST")
    /\ Placed(req'[r].op, pc'[r], cont'[r])
    /\ cont'[r] \notin {"ErasePassword", "ShowAsset"}
Died(r) == /\ Served(r) /\ pc'[r] \in {"dead", "lost"}
           /\ crashes < MaxCrashes /\ crashes' = crashes + 1
           /\ req'[r] = req[r] /\ cont'[r] = cont[r]
Stayed(r) == pc'[r] = pc[r] /\ req'[r] = req[r] /\ cont'[r] = cont[r]
Quiet == /\ UNCHANGED <<userFiles, auctionFiles, locals, faults, res, reply>>
         /\ now' \in {now, now + 1}
         /\ \/ UNCHANGED <<crashes, sem>>
            \/ crashes < MaxCrashes /\ crashes' = crashes + 1
         /\ \A r \in Requests : Stayed(r) \/ Entered(r) \/ Died(r)

\* A step is one of a process, or a quiet one.
LEMMA StepKinds ==
    ASSUME TypeInv, [Next]_vars PROVE Quiet \/ \E r \in Requests : Serve(r)
  <1>0. now \in Nat
    BY BoundsAssumption DEF TypeInv, TypeOK, ProcessTypeOK, Times
  <1> USE <1>0 DEF Quiet, Stayed, userFiles, auctionFiles, locals
  <1>1. CASE \E r \in Requests : Arrive(r)
    <2> PICK r \in Requests : Arrive(r)
      BY <1>1
    <2>1. PICK m \in Menu : /\ req' = [req EXCEPT ![r] = m]
                            /\ pc' = [pc EXCEPT ![r] = Entry(m.op)]
                            /\ cont' = [cont EXCEPT ![r] = CriticalSection[m.op]]
      BY DEF Arrive
    <2>2. m.op \in UdpOps \cup TcpOps
      BY MenuAssumption DEF Message
    <2>3. /\ Entry(m.op) \in {"List", "GetAssetDir", "wait"}
          /\ (Entry(m.op) = "List") <=> (m.op = "LST")
          /\ Placed(m.op, Entry(m.op), CriticalSection[m.op])
          /\ CriticalSection[m.op] \notin {"ErasePassword", "ShowAsset"}
      BY <2>2 DEF Entry, CriticalSection, UdpOps, TcpOps, Placed, RunsIn,
         CriticalLabels
    <2>4. Entered(r)
      BY <2>1, <2>3 DEF Arrive, Entered, TypeInv, TypeOK, ProcessTypeOK
    <2>5. \A s \in Requests \ {r} : Stayed(s)
      BY <2>1 DEF TypeInv, TypeOK, ProcessTypeOK
    <2> QED
      BY <2>4, <2>5 DEF Arrive
  <1>2. CASE \E r \in Requests : Serve(r)
    BY <1>2
  <1>3. CASE \E r \in Requests : Crash(r)
    BY <1>3 DEF Crash, Served, Died, TypeInv, TypeOK, ProcessTypeOK
  <1>4. CASE Restart
    BY <1>4 DEF Restart, Served, Died, TypeInv, TypeOK, ProcessTypeOK
  <1>5. CASE Tick
    BY <1>5 DEF Tick
  <1>6. CASE UNCHANGED vars
    BY <1>6 DEF vars
  <1> QED
    BY <1>1, <1>2, <1>3, <1>4, <1>5, <1>6 DEF Next, Terminated

\* A process never leaves the functions of its request.
LEMMA PlaceInvariant == Spec => []PlaceInv
  <1>1. Init => PlaceInv
    BY DEF Init, PlaceInv, Placed, RunsIn, CriticalLabels
  <1>2. ASSUME TypeInv, PlaceInv, [Next]_vars PROVE PlaceInv'
    <2>1. CASE Quiet
      BY <1>2, <2>1 DEF Quiet, Stayed, Entered, Died, PlaceInv, Placed, RunsIn,
         CriticalLabels, Op
    <2>2. CASE \E r \in Requests : Serve(r)
      <3> PICK r \in Requests : Serve(r)
        BY <2>2
      <3>1. Others(r) /\ Placed(Op(r), pc'[r], cont'[r])
        BY <1>2, StepFacts
      <3> QED
        BY <1>2, <3>1 DEF Others, PlaceInv, Op
    <2> QED
      BY <1>2, <2>1, <2>2, StepKinds
  <1> QED
    BY <1>1, <1>2, TypeInvariant, PTL DEF Spec

-----------------------------------------------------------------------------
(* Accounts                                                                *)

\* No two UDP requests are ever served at once.
LEMMA UdpAloneStep ==
    ASSUME TypeInv, PlaceInv, UdpAlone, [Next]_vars PROVE UdpAlone'
  <1> USE DEF TypeInv, TypeOK, ProcessTypeOK, UdpAlone, Served, Finished, Op
  <1>1. CASE \E r \in Requests : Arrive(r)
    <2> PICK r \in Requests : Arrive(r)
      BY <1>1
    <2>1. PICK m \in Menu : /\ m.op \in UdpOps => ~UdpBusy
                            /\ req' = [req EXCEPT ![r] = m]
                            /\ pc' = [pc EXCEPT ![r] = Entry(m.op)]
      BY DEF Arrive
    <2>2. \A s \in Requests \ {r} : pc'[s] = pc[s] /\ req'[s] = req[s]
      BY <2>1
    <2>3. req'[r] = m
      BY <2>1
    <2>4. \A s \in Requests \ {r} :
              m.op \in UdpOps => ~(Served(s) /\ Op(s) \in UdpOps)
      BY <2>1 DEF UdpBusy
    <2> QED
      BY <2>2, <2>3, <2>4
  <1>2. CASE \E r \in Requests : Serve(r)
    <2> PICK r \in Requests : Serve(r)
      BY <1>2
    <2>1. Others(r) /\ Served(r)
      BY StepFacts DEF Comes
    <2> QED
      BY <2>1 DEF Others
  <1>3. CASE \E r \in Requests : Crash(r)
    BY <1>3 DEF Crash
  <1>4. CASE Restart
    BY <1>4 DEF Restart
  <1>5. CASE Tick \/ UNCHANGED vars
    BY <1>5 DEF Tick, vars
  <1> QED
    BY <1>1, <1>2, <1>3, <1>4, <1>5 DEF Next, Terminated

\* A step of a process keeps the accounts in order: only LIN, LOU and UNR
\* write them, and no other of these requests is then being served.
LEMMA AccountServe ==
    ASSUME TypeInv, PlaceInv, AccountInv, NEW r \in Requests, Serve(r)
    PROVE  (\A s \in Requests : KnowsUser(s))' /\ LoggedInHasPassword'
  <1> DEFINE u == Uid(r)
  <1>0. /\ Others(r) /\ Writes(r) /\ Comes(r)
        /\ u \in Users /\ req[r].pw \in Passwords
    BY StepFacts, RequestType
  <1> USE DEF TypeInv, TypeOK, FilesTypeOK, ProcessTypeOK
  <1>1. LoggedInHasPassword'
    <2> USE <1>0 DEF LoggedInHasPassword, AccountInv, KnowsUser, otherFiles
    <2>1. CASE CreateUserDir(r)
      BY <2>1 DEF CreateUserDir
    <2>2. CASE CreatePassword(r)
      BY <2>2 DEF CreatePassword
    <2>3. CASE WritePassword(r)
      BY <2>3 DEF WritePassword
    <2>4. CASE ErasePassword(r)
      BY <2>4 DEF ErasePassword
    <2>5. CASE CreateLogin(r)
      BY <2>5 DEF CreateLogin
    <2>6. CASE Logout(r)
      BY <2>6 DEF Logout
    <2> QED
      BY <2>1, <2>2, <2>3, <2>4, <2>5, <2>6 DEF Writes
  <1>2. ASSUME NEW s \in Requests \ {r}
        PROVE  /\ pc[s] \in {"CreateUserDir", "CreatePassword", "WritePassword",
                             "CreateLogin", "ErasePassword"} =>
                     UNCHANGED <<userDir, pass, login>>
               /\ pc[s] \in {"post", "wait"} /\ cont[s] = "ErasePassword" =>
                     UNCHANGED <<userDir, pass, login>>
    <2>1. UNCHANGED <<userDir, pass, login>> \/ Op(r) \in UdpOps
      BY <1>0 DEF Writes, CreateUserDir, CreatePassword, WritePassword,
         ErasePassword, CreateLogin, Logout, PlaceInv, Placed, RunsIn, OpenLabels,
         UdpOps
    <2>2. \/ pc[s] \in {"CreateUserDir", "CreatePassword", "WritePassword",
                        "CreateLogin", "ErasePassword"}
          \/ pc[s] \in {"post", "wait"} /\ cont[s] = "ErasePassword"
          => Served(s) /\ Op(s) \in UdpOps
      BY DEF PlaceInv, Placed, RunsIn, OpenLabels, UdpOps, Served, Finished
    <2>3. Served(r)
      BY <1>0 DEF Comes
    <2> QED
      BY <2>1, <2>2, <2>3 DEF AccountInv, UdpAlone
  <1>3. ASSUME NEW s \in Requests \ {r} PROVE KnowsUser(s)'
    BY <1>0, <1>2, <1>3 DEF Others, AccountInv, KnowsUser, Uid
  <1>4. KnowsUser(r)'
    <2> USE <1>0 DEF Others, KnowsUser, AccountInv, Uid
    <2>1. pc'[r] = "CreateUserDir" => u \notin login'
      <3>1. ASSUME LoginUser(r), pc'[r] = "CreateUserDir" PROVE u \notin login'
        BY <3>1 DEF LoginUser, CheckUserLoggedIn, Goto, Return
      <3>2. ASSUME CreateUserDir(r) PROVE u \notin login'
        BY <3>2 DEF CreateUserDir
      <3> QED
        BY <3>1, <3>2 DEF Comes
    <2>2. pc'[r] = "CreatePassword" => u \notin login' /\ userDir'[u] > 0
      <3>1. ASSUME LoginUser(r), pc'[r] = "CreatePassword"
            PROVE  u \notin login' /\ userDir'[u] > 0
        BY <3>1 DEF LoginUser, CheckUserLoggedIn, CheckUserExisted, Goto, Return
      <3>2. ASSUME CreateUserDir(r), pc'[r] = "CreatePassword"
            PROVE  u \notin login' /\ userDir'[u] > 0
        BY <3>2 DEF CreateUserDir, Goto, Return
      <3> QED
        BY <3>1, <3>2 DEF Comes
    <2>3. pc'[r] = "WritePassword" => u \notin login' /\ userDir'[u] > 0
      BY DEF Comes, CreatePassword
    <2>4. pc'[r] = "CreateLogin" => userDir'[u] > 0 /\ pass'[u] \in Passwords
      <3>1. ASSUME LoginUser(r), pc'[r] = "CreateLogin"
            PROVE  userDir'[u] > 0 /\ pass'[u] \in Passwords
        BY <3>1 DEF LoginUser, CheckUserExisted, CorrectPassword, Goto, Return
      <3>2. ASSUME WritePassword(r)
            PROVE  userDir'[u] > 0 /\ pass'[u] \in Passwords
        BY <3>2 DEF WritePassword
      <3> QED
        BY <3>1, <3>2 DEF Comes
    <2>5. pc'[r] = "ErasePassword" => u \notin login'
      BY DEF Comes, SemaphoreWait, userFiles
    <2>6. pc'[r] \in {"post", "wait"} /\ cont'[r] = "ErasePassword" => u \notin login'
      <3>1. ASSUME Logout(r), cont'[r] = "ErasePassword" PROVE u \notin login'
        BY <3>1 DEF Logout, Return, Reenter, PlaceInv, Placed, CriticalLabels,
           CheckUserExisted, LoggedInHasPassword
      <3>2. ASSUME SemaphorePost(r), cont'[r] = "ErasePassword"
            PROVE  u \notin login'
        BY <3>2 DEF SemaphorePost, userFiles
      <3> QED
        BY <3>1, <3>2 DEF Comes
    <2> QED
      BY <2>1, <2>2, <2>3, <2>4, <2>5, <2>6
  <1> QED
    BY <1>1, <1>3, <1>4

\* AccountInv is inductive.
LEMMA AccountInvariant == Spec => []AccountInv
  <1>1. Init => AccountInv
    <2> SUFFICES ASSUME Init PROVE AccountInv
      OBVIOUS
    <2>1. UdpAlone /\ \A r \in Requests : KnowsUser(r)
      BY DEF Init, UdpAlone, Served, KnowsUser
    <2>2. LoggedInHasPassword
      BY InitAssumption DEF Init, LoggedInHasPassword, Known
    <2> QED
      BY <2>1, <2>2 DEF AccountInv
  <1>2. ASSUME TypeInv, PlaceInv, AccountInv, [Next]_vars PROVE AccountInv'
    <2>1. UdpAlone'
      BY <1>2, UdpAloneStep DEF AccountInv
    <2>2. CASE Quiet
      BY <1>2, <2>1, <2>2 DEF Quiet, Stayed, Entered, Died, AccountInv, KnowsUser,
         LoggedInHasPassword, Uid, userFiles
    <2>3. CASE \E r \in Requests : Serve(r)
      BY <1>2, <2>1, <2>3, AccountServe DEF AccountInv
    <2> QED
      BY <1>2, <2>2, <2>3, StepKinds
  <1> QED
    BY <1>1, <1>2, TypeInvariant, PlaceInvariant, PTL DEF Spec

\* Whoever is logged in has an account with a password, whichever processes
\* of LIN, LOU and UNR die, whichever of their files cannot be made, and even
\* while LST lets others into the critical sections.
THEOREM LoginsHavePasswords == Spec => []LoggedInHasPassword
  <1>1. AccountInv => LoggedInHasPassword
    BY DEF AccountInv
  <1> QED
    BY <1>1, AccountInvariant, PTL

-----------------------------------------------------------------------------
(* Bidders                                                                 *)

\* A write to one bid leaves all others as they are.
LEMMA OneBidWritten ==
    ASSUME NEW S, NEW f \in [Aids -> [Values -> S]], NEW x,
           NEW a \in Aids, NEW v \in Values, NEW b \in Aids, NEW w \in Values
    PROVE  [f EXCEPT ![a][v] = x][b][w] = IF b = a /\ w = v THEN x ELSE f[b][w]
  OBVIOUS

\* BidderInv is inductive: nothing is ever taken from the lists of bids.
LEMMA BidderInvariant == Spec => []BidderInv
  <1> USE DEF BidderInv, BiddersListed, Written, Uid, Aid
  <1>1. Init => BidderInv
    BY DEF Init, Absent
  <1>2. ASSUME TypeInv, PlaceInv, BidderInv, [Next]_vars PROVE BidderInv'
    <2> USE <1>2 DEF TypeInv, TypeOK, FilesTypeOK, ProcessTypeOK
    <2>1. CASE Quiet
      BY <2>1 DEF Quiet, Stayed, Entered, Died, userFiles, auctionFiles
    <2>2. CASE \E r \in Requests : Serve(r)
      <3> PICK r \in Requests : Serve(r)
        BY <2>2
      <3> DEFINE u == Uid(r)
                 a == Aid(r)
                 v == req[r].value
      <3>0. /\ Others(r) /\ Writes(r) /\ Comes(r)
            /\ u \in Users /\ a \in Aids /\ v \in Values
        BY StepFacts, RequestType
      <3>1. \A w \in Users : bidded[w] \subseteq bidded'[w]
        <4>1. CASE UNCHANGED bidded
          BY <4>1
        <4>2. CASE RegisterBid(r)
          BY <3>0, <4>2 DEF RegisterBid
        <4> QED
          BY <3>0, <4>1, <4>2 DEF Writes
      <3>2. ASSUME NEW s \in Requests, pc'[s] \in {"CreateBidFile", "WriteBid"}
            PROVE  Aid(s)' \in bidded'[Uid(s)']
        <4>1. CASE s # r
          BY <3>0, <3>1, <3>2, <4>1, RequestType DEF Others
        <4>2. CASE s = r /\ RegisterBid(r)
          BY <3>0, <3>2, <4>2 DEF RegisterBid, Return, Others
        <4>3. CASE s = r /\ CreateBidFile(r)
          BY <3>0, <3>1, <4>3 DEF CreateBidFile, Others
        <4> QED
          BY <3>0, <3>2, <4>1, <4>2, <4>3 DEF Comes
      <3>3. ASSUME NEW b \in Aids, NEW w \in Values, Written(b, w)'
            PROVE  b \in bidded'[bids'[b][w].user]
        <4>1. CASE bids'[b][w] = bids[b][w]
          <5>1. bids[b][w].user \in Users /\ b \in bidded[bids[b][w].user]
            BY <3>3, <4>1 DEF BidInfo
          <5> QED
            BY <3>1, <4>1, <5>1
        <4>2. CASE CreateBidFile(r)
          <5>0. bids' = bids \/ bids' = [bids EXCEPT ![a][v] = Empty]
            BY <4>2 DEF CreateBidFile
          <5>1. bids'[b][w] = bids[b][w] \/ bids'[b][w] = Empty
            <6>1. bids \in [Aids -> [Values -> BidInfo \cup Absent]]
              OBVIOUS
            <6> HIDE DEF u, a, v
            <6> QED
              BY <3>0, <5>0, <6>1, OneBidWritten
          <5> QED
            BY <3>3, <4>1, <5>1 DEF Absent
        <4>3. CASE WriteBid(r) /\ bids'[b][w] # bids[b][w]
          <5>1. b = a /\ w = v /\ bids'[b][w] = [user |-> u, at |-> stamp[r]]
            BY <3>0, <4>3 DEF WriteBid
          <5>2. a \in bidded[u]
            BY <4>3 DEF WriteBid
          <5> QED
            BY <3>0, <3>1, <5>1, <5>2
        <4> QED
          BY <3>0, <4>1, <4>2, <4>3 DEF Writes
      <3> QED
        BY <3>2, <3>3
    <2> QED
      BY <2>1, <2>2, StepKinds
  <1> QED
    BY <1>1, <1>2, TypeInvariant, PlaceInvariant, PTL DEF Spec

\* Who has a bid in an auction finds that auction in the list of his bids,
\* wherever a process of Bid dies and whichever of its two files cannot be made.
THEOREM BidsListed == Spec => []BiddersListed
  <1>1. BidderInv => BiddersListed
    BY DEF BidderInv
  <1> QED
    BY <1>1, BidderInvariant, PTL

-----------------------------------------------------------------------------
(* Auctions                                                                *)

\* The files of an auction are written only by the request that has its id.
LEMMA OthersKeepAuction ==
    ASSUME TypeInv, PlaceInv, OpenInv, NEW r \in Requests, Serve(r),
           NEW a \in Aids, Owns(r) => target[r] # a,
           pc[r] = "CreateAuctionDir" /\ auctionDir[a] = 0 => target[r] # a
    PROVE  /\ start'[a] = start[a] /\ asset'[a] = asset[a]
           /\ auctionDir'[a] = auctionDir[a]
  <1>0. Writes(r) /\ target[r] \in Aids \cup {0}
    BY StepFacts DEF TypeInv, TypeOK, ProcessTypeOK
  <1> USE DEF TypeInv, TypeOK, FilesTypeOK
  <1>1. pc[r] \in OpenLabels \ {"CreateAuctionDir"} => Owns(r)
    BY DEF PlaceInv, Placed, RunsIn, OpenLabels, Owns
  <1>2. start'[a] = start[a]
    BY <1>0, <1>1 DEF Writes, CreateStartFile, WriteStart, OpenLabels
  <1>3. asset'[a] = asset[a]
    BY <1>0, <1>1 DEF Writes, CreateAssetFile, WriteAsset, OpenLabels
  <1>4. auctionDir'[a] = auctionDir[a]
    BY <1>0, <1>1 DEF Writes, CreateAuctionDir, CreateSubDirs, OpenLabels
  <1> QED
    BY <1>2, <1>3, <1>4

\* A directory that was made is never removed, nor is a host forgotten.
LEMMA DirectoriesStay ==
    ASSUME TypeInv, PlaceInv, NEW r \in Requests, Serve(r)
    PROVE  /\ \A a \in Aids : auctionDir[a] > 0 => auctionDir'[a] > 0
           /\ \A u \in Users : hosted[u] \subseteq hosted'[u]
  <1>0. Writes(r)
    BY StepFacts
  <1> USE DEF TypeInv, TypeOK, FilesTypeOK
  <1>1. \A a \in Aids : auctionDir[a] > 0 => auctionDir'[a] > 0
    BY <1>0 DEF Writes, CreateAuctionDir, CreateSubDirs
  <1>2. \A u \in Users : hosted[u] \subseteq hosted'[u]
    BY <1>0 DEF Writes, RegisterHost
  <1> QED
    BY <1>1, <1>2

\* A request that comes to have an id has just made its directory, or had it.
LEMMA OwnsStep ==
    ASSUME TypeInv, PlaceInv, OpenInv, NEW r \in Requests, Serve(r), Owns(r)'
    PROVE  /\ target'[r] = target[r] /\ target[r] \in Aids
           /\ Op(r) = "OPA"
           /\ auctionDir'[target[r]] > 0
           /\ Owns(r) \/ (CreateAuctionDir(r) /\ auctionDir[target[r]] = 0)
  <1>0. Others(r) /\ Writes(r) /\ Comes(r)
    BY StepFacts
  <1> USE <1>0 DEF TypeInv, TypeOK, FilesTypeOK, ProcessTypeOK
  <1>1. Op(r) = "OPA"
    BY DEF Owns, Others, Op
  <1>2. ASSUME Open(r) PROVE FALSE
    <2>1. pc'[r] \in {"post", "CreateAuctionDir"}
      BY <1>2 DEF Open, Goto, Return
    <2>2. res'[r] = "OK" /\ res[r] # "OK" /\ ~RegisterHost(r)
      BY <1>1, <1>2, <2>1 DEF Open, Return, Goto, Owns, OpenLabels, OpenInv, Builds,
         RegisterHost
    <2> QED
      BY <1>1, <2>2 DEF Comes
  <1>3. target'[r] = target[r]
    <2>1. pc[r] \notin {"CloseAuction", "Bid", "Visit", "ShowRecord"}
      BY <1>1 DEF PlaceInv, Placed, RunsIn, OpenLabels
    <2> QED
      BY <1>2, <2>1 DEF Writes, CloseAuction, Bid, Visit, ShowRecord
  <1>4. CASE Owns(r)
    BY <1>1, <1>3, <1>4, DirectoriesStay DEF OpenInv, Builds
  <1>5. CASE ~Owns(r)
    <2>1. CreateAuctionDir(r) /\ pc'[r] = "CreateSubDirs"
      BY <1>1, <1>5 DEF Owns, Others, Op, Comes, OpenLabels, RegisterHost,
         CreateSubDirs, CreateStartFile, WriteStart, CreateAssetFile, WriteAsset
    <2>2. target[r] \in Aids
      BY <2>1 DEF CreateAuctionDir, LocalsOK, TargetLabels
    <2>3. auctionDir[target[r]] = 0 /\ auctionDir'[target[r]] = 1
      BY <2>1, <2>2 DEF CreateAuctionDir, OpenFails, Return
    <2> QED
      BY <1>1, <1>3, <2>1, <2>2, <2>3
  <1> QED
    BY <1>4, <1>5

\* The request that has an id goes on with it as its functions say.
LEMMA BuildsStep ==
    ASSUME TypeInv, PlaceInv, OpenInv, NEW r \in Requests, Serve(r) PROVE Builds(r)'
  <1> DEFINE a == target[r]
  <1>0. /\ Others(r) /\ Writes(r) /\ Comes(r) /\ Placed(Op(r), pc'[r], cont'[r])
        /\ Uid(r) \in Users /\ req[r].pw \in Passwords
        /\ UNCHANGED req /\ Builds(r)
    BY StepFacts, RequestType DEF Others, OpenInv
  <1> USE DEF TypeInv, TypeOK, FilesTypeOK, ProcessTypeOK
  <1>1. pc'[r] # "idle" /\ (Op(r) = "OPA" => res'[r] # "LIST")
    BY <1>0 DEF Comes, Builds
  <1>2. Owns(r)' => /\ target'[r] = a /\ a \in Aids /\ auctionDir'[a] > 0
                    /\ Owns(r) \/ (CreateAuctionDir(r) /\ auctionDir[a] = 0)
    BY OwnsStep
  <1>3. pc'[r] \in OpenLabels \ {"CreateAuctionDir"} => Owns(r)'
    BY <1>0 DEF Placed, RunsIn, OpenLabels, Owns, Op
  <1>4. pc'[r] \in {"CreateSubDirs", "CreateStartFile"} => start'[a] = NoFile
    <2>1. pc'[r] \in {"CreateSubDirs", "CreateStartFile"} =>
              CreateAuctionDir(r) \/ CreateSubDirs(r)
      BY <1>0 DEF Comes
    <2>2. CreateAuctionDir(r) \/ CreateSubDirs(r) => UNCHANGED start
      BY DEF CreateAuctionDir, CreateSubDirs
    <2>3. CreateSubDirs(r) => start[a] = NoFile
      BY <1>0 DEF CreateSubDirs, Builds
    <2>4. CreateAuctionDir(r) /\ Owns(r)' => start[a] = NoFile
      BY <1>0, <1>2 DEF OpenInv, CreateAuctionDir, Owns, Builds, OpenLabels
    <2> QED
      BY <1>3, <2>1, <2>2, <2>3, <2>4 DEF OpenLabels
  <1>5. pc'[r] = "WriteStart" => start'[a] = Empty
    <2>1. pc'[r] = "WriteStart" =>
              start' = [start EXCEPT ![a] = Empty] /\ a \in Aids
      BY <1>0, <1>2, <1>3 DEF Comes, CreateStartFile, OpenFails, Return, OpenLabels
    <2> QED
      BY <2>1
  <1>6. /\ pc'[r] \in {"CreateAssetFile", "WriteAsset", "RegisterHost"} =>
              start'[a] \notin Absent /\ start'[a].host = Uid(r)
        /\ pc'[r] = "RegisterHost" => asset'[a] = "whole"
    <2>1. CASE WriteStart(r)
      <3>1. a \in Aids
        BY <2>1 DEF WriteStart, LocalsOK, TargetLabels
      <3>2. /\ start'[a] = [host |-> Uid(r), value |-> req[r].value,
                            timeactive |-> req[r].time, at |-> stamp[r]]
            /\ pc'[r] = "CreateAssetFile"
        BY <2>1, <3>1 DEF WriteStart, Goto
      <3>3. start'[a] \in StartInfo
        BY <1>0, <2>1, <3>2, RequestType DEF StartInfo, WriteStart, LocalsOK
      <3> QED
        BY <3>2, <3>3, AbsentAssumption
    <2>2. CASE CreateAssetFile(r)
      BY <1>0, <2>2 DEF CreateAssetFile, OpenFails, Return, Goto, Builds, Started
    <2>3. CASE WriteAsset(r)
      <3>1. a \in Aids
        BY <2>3 DEF WriteAsset, LocalsOK, TargetLabels
      <3> QED
        BY <1>0, <2>3, <3>1 DEF WriteAsset, Goto, Builds, Started
    <2> QED
      BY <1>0, <2>1, <2>2, <2>3 DEF Comes
  <1>7. ASSUME Op(r) = "OPA", res'[r] = "OK"
        PROVE  /\ start'[a] \notin Absent /\ start'[a].host = Uid(r)
               /\ Whole(a)' /\ target'[r] = a
               /\ pc'[r] \in {"post", "reply", "done", "dead", "lost"}
    <2>1. CASE RegisterHost(r)
      <3>1. a \in Aids /\ UNCHANGED <<start, asset, target>>
        BY <2>1 DEF RegisterHost, LocalsOK, TargetLabels, auctionFiles, locals
      <3>2. /\ hosted' = [hosted EXCEPT ![Uid(r)] = @ \cup {a}]
            /\ pc'[r] = "post"
        <4>1. res[r] # "OK"
          BY <1>0, <1>7, <2>1 DEF Builds, RegisterHost
        <4> QED
          BY <1>7, <2>1, <4>1 DEF RegisterHost, OpenFails, Return
      <3>3. a \in hosted'[Uid(r)]
        BY <1>0, <3>2
      <3>4. start[a] \notin Absent /\ start[a].host = Uid(r) /\ asset[a] = "whole"
        BY <1>0, <2>1 DEF RegisterHost, Builds, Started
      <3> QED
        BY <3>1, <3>2, <3>3, <3>4 DEF Whole
    <2>2. CASE res[r] = "OK"
      <3>1. pc[r] \in {"post", "reply", "done", "dead", "lost"}
        BY <1>0, <1>7, <2>2 DEF Builds
      <3>2. UNCHANGED <<start, asset, hosted, target>>
        BY <1>0, <3>1 DEF Writes, CreateStartFile, WriteStart, CreateAssetFile,
           WriteAsset, RegisterHost, Open, CloseAuction, Bid, Visit, ShowRecord
      <3>3. pc'[r] \in {"post", "reply", "done", "dead", "lost"}
        <4>1. SemaphorePost(r) \/ Reply(r)
          BY <3>1 DEF Serve, SemaphoreWait, AccountStep, AuctionStep, ListingStep,
             LoginUser, CreateUserDir, CreatePassword, WritePassword, CreateLogin,
             Logout, Unregister, ErasePassword, Open, CreateAuctionDir,
             CreateSubDirs, CreateStartFile, WriteStart, CreateAssetFile,
             WriteAsset, RegisterHost, CreateEndFile, OpenEnd, WriteEnd,
             CloseAuction, Bid, RegisterBid, CreateBidFile, WriteBid, MyAuctions,
             MyBids, List, Visit, ShowRecord, ReadRecord, GetAssetDir, ShowAsset
        <4> QED
          BY <1>7, <4>1 DEF SemaphorePost, Reply, PlaceInv, Placed
      <3> QED
        BY <1>0, <1>7, <2>2, <3>2, <3>3 DEF Builds, Started, Whole
    <2> QED
      BY <1>0, <1>7, <2>1, <2>2 DEF Comes
  <1>8. /\ Op(r) = "OPA" /\ reply'[r] = "OK" => res'[r] = "OK"
        /\ pc'[r] # "done" => reply'[r] = "none"
    <2>1. CASE UNCHANGED reply
      BY <1>0, <2>1 DEF Builds, Comes, Served, Finished
    <2>2. CASE Reply(r)
      <3>1. /\ reply'[r] \in PossibleReplies(r) /\ pc'[r] = "done"
            /\ UNCHANGED res
        BY <2>2 DEF Reply
      <3>2. ASSUME Op(r) = "OPA", reply'[r] = "OK" PROVE res[r] = "OK"
        BY <1>0, <3>1, <3>2 DEF PossibleReplies, ReplyTable, OpenReply, Builds
      <3> QED
        BY <3>1, <3>2
    <2> QED
      BY <1>0, <2>1, <2>2 DEF Writes
  <1> QED
    <2> HIDE DEF TypeInv
    <2>1. Op(r)' = Op(r) /\ Uid(r)' = Uid(r)
      BY <1>0 DEF Op, Uid
    <2>2. pc'[r] \in {"CreateSubDirs", "CreateStartFile", "WriteStart",
                      "CreateAssetFile", "WriteAsset", "RegisterHost"} =>
              target'[r] = a
      BY <1>2, <1>3 DEF OpenLabels
    <2> QED
      BY <1>1, <1>2, <1>4, <1>5, <1>6, <1>7, <1>8, <2>1, <2>2 DEF Builds, Started

\* A step of a process keeps the ids apart and all auctions as they are made.
LEMMA OpenServe ==
    ASSUME TypeInv, PlaceInv, OpenInv, NEW r \in Requests, Serve(r) PROVE OpenInv'
  <1>0. Others(r) /\ Writes(r)
    BY StepFacts
  <1>1. \A s \in Requests \ {r} : /\ Owns(s)' <=> Owns(s)
                                 /\ target'[s] = target[s]
    BY <1>0 DEF Others, Owns, Op
  <1>2. ASSUME NEW p \in Requests, NEW q \in Requests,
               Owns(p)', Owns(q)', target'[p] = target'[q]
        PROVE  p = q
    <2>1. ASSUME NEW s \in Requests \ {r}, Owns(r)', Owns(s), target[s] = target'[r]
          PROVE  FALSE
      BY <2>1, OwnsStep DEF OpenInv, Builds
    <2> QED
      BY <1>1, <1>2, <2>1 DEF OpenInv
  <1>3. ASSUME NEW a \in Aids, start'[a] # NoFile PROVE auctionDir'[a] > 0
    <2>1. CASE start'[a] = start[a]
      BY <1>3, <2>1, DirectoriesStay DEF OpenInv
    <2>2. CASE start'[a] # start[a]
      <3>1. Owns(r) => target[r] = a
        BY <2>2, OthersKeepAuction
      <3>2. pc[r] \in {"CreateStartFile", "WriteStart"}
        BY <1>0, <2>2 DEF Writes, CreateStartFile, WriteStart
      <3>3. Owns(r)
        BY <3>2 DEF PlaceInv, Placed, RunsIn, OpenLabels, Owns
      <3> QED
        BY <3>1, <3>3, DirectoriesStay DEF OpenInv, Builds
    <2> QED
      BY <2>1, <2>2
  <1>4. ASSUME NEW s \in Requests \ {r} PROVE Builds(s)'
    <2> DEFINE a == target[s]
    <2>1. /\ Builds(s) /\ Op(s)' = Op(s) /\ Uid(s)' = Uid(s)
          /\ pc'[s] = pc[s] /\ res'[s] = res[s] /\ reply'[s] = reply[s]
      BY <1>0 DEF Others, OpenInv, Op, Uid
    <2>2. pc[s] \in OpenLabels \ {"CreateAuctionDir"} => Owns(s)
      BY DEF PlaceInv, Placed, RunsIn, OpenLabels, Owns
    <2>3. ASSUME Owns(s)
          PROVE  /\ a \in Aids /\ auctionDir'[a] > 0
                 /\ start'[a] = start[a] /\ asset'[a] = asset[a]
      <3>1. a \in Aids /\ auctionDir[a] > 0 /\ (Owns(r) => target[r] # a)
        BY <2>3 DEF OpenInv, Builds
      <3> QED
        BY <3>1, OthersKeepAuction
    <2>4. \A u \in Users : hosted[u] \subseteq hosted'[u]
      BY DirectoriesStay
    <2>5. Op(s) = "OPA" /\ res[s] = "OK" => Started(s)' /\ Whole(target[s])'
      BY <1>1, <2>1, <2>3, <2>4, RequestType DEF Builds, Owns, Started, Whole
    <2> QED
      BY <1>1, <2>1, <2>2, <2>3, <2>5 DEF Builds, Started, OpenLabels
  <1> QED
    BY <1>2, <1>3, <1>4, BuildsStep DEF OpenInv

\* OpenInv is inductive.
LEMMA OpenInvariant == Spec => []OpenInv
  <1>1. Init => OpenInv
    BY InitAssumption DEF Init, OpenInv, Owns, Builds, OpenLabels
  <1>2. ASSUME TypeInv, PlaceInv, OpenInv, [Next]_vars PROVE OpenInv'
    <2>1. CASE Quiet
      <3> USE <1>2, <2>1 DEF Quiet, userFiles, auctionFiles, locals
      <3>1. \A s \in Requests : Owns(s)' => Owns(s) /\ (Stayed(s) \/ Died(s))
        BY DEF Stayed, Entered, Died, Owns, OpenInv, Builds, Op, OpenLabels
      <3>2. ASSUME NEW s \in Requests PROVE Builds(s)'
        <4>1. CASE Stayed(s)
          BY <4>1 DEF Stayed, OpenInv, Builds, Owns, Started, Whole, Op, Uid
        <4>2. CASE Entered(s)
          BY <4>2 DEF Entered, OpenInv, Builds, Owns, Op, OpenLabels
        <4>3. CASE Died(s)
          BY <4>3 DEF Died, Served, Finished, OpenInv, Builds, Owns, Started, Whole,
             Op, Uid, OpenLabels
        <4> QED
          BY <4>1, <4>2, <4>3
      <3> QED
        BY <3>1, <3>2 DEF OpenInv
    <2>2. CASE \E r \in Requests : Serve(r)
      BY <1>2, <2>2, OpenServe
    <2> QED
      BY <1>2, <2>1, <2>2, StepKinds
  <1> QED
    BY <1>1, <1>2, TypeInvariant, PlaceInvariant, PTL DEF Spec

\* What Open answers OK for is a complete auction of the user who asked, and
\* nobody else was given its id: the mkdir, not the semaphore, keeps two
\* processes of Open apart that computed the same id.
THEOREM AuctionsOpenedOnce == Spec => []OpenedOnce
  <1>1. TypeInv /\ OpenInv => OpenedOnce
    BY DEF TypeInv, OpenInv, Owns, Builds, Started, OpenedOnce
  <1> QED
    BY <1>1, TypeInvariant, OpenInvariant, PTL

-----------------------------------------------------------------------------
(* Bids and ends, as long as no LST has gone around the lock               *)

\* Between the comparison and the write, the bid of r is still the highest
\* and its auction has not ended.
Bidding(r) ==
    pc[r] \in {"RegisterBid", "CreateBidFile", "WriteBid"} =>
        /\ GetStart(Aid(r)) /\ end[Aid(r)] = NoFile
        /\ req[r].value > start[Aid(r)].value
        /\ \A w \in Values : Written(Aid(r), w) => w < req[r].value

\* Between the test for the END file and its write, nobody else has made it.
Ending(r) ==
    /\ pc[r] \in {"CreateEndFile", "OpenEnd", "WriteEnd"} => GetStart(target[r])
    /\ pc[r] = "OpenEnd" => end[target[r]] = NoFile
    /\ pc[r] = "WriteEnd" => end[target[r]] = Empty

\* Every bid that is recorded beats the start value of its auction.
BidsBeatStart ==
    \A a \in Aids, v \in Values :
        Written(a, v) => GetStart(a) /\ v > start[a].value

BookInv == BidsBeatStart /\ \A r \in Requests : Bidding(r) /\ Ending(r)
BooksKept == LockKept => LockInv /\ BookInv

-----------------------------------------------------------------------------
(* The lock as long as nobody has gone around it                           *)

\* A request is served for good: LST that went around the lock stays one.
LEMMA LockWasKept ==
    ASSUME TypeInv, PlaceInv, [Next]_vars, LockKept' PROVE LockKept
  <1>1. CASE Quiet
    BY <1>1 DEF Quiet, Stayed, Entered, Died, LockKept, Op
  <1>2. CASE \E r \in Requests : Serve(r)
    BY <1>2, StepFacts DEF Comes, Others, LockKept, Op
  <1> QED
    BY <1>1, <1>2, StepKinds

\* While one process is inside, no step of another one writes a file.
LEMMA AloneInside ==
    ASSUME TypeInv, PlaceInv, LockKept, LockInv, NEW r \in Requests, Serve(r),
           NEW s \in Requests \ {r}, pc[s] \in CriticalLabels
    PROVE  UNCHANGED <<userFiles, auctionFiles>>
  <1>1. Writes(r)
    BY StepFacts
  <1>2. pc[r] \notin CriticalLabels
    BY DEF LockKept, LockInv, MutualExclusion, InCS, CriticalLabels
  <1> QED
    BY <1>1, <1>2 DEF Writes, CreateUserDir, CreatePassword, WritePassword,
       ErasePassword, CreateLogin, Logout, RegisterHost, RegisterBid,
       CreateAuctionDir, CreateSubDirs, CreateStartFile, WriteStart,
       CreateAssetFile, WriteAsset, CreateBidFile, WriteBid, OpenEnd, WriteEnd,
       CriticalLabels, userFiles, auctionFiles

\* A START file that was written stays as it is.
LEMMA StartStands ==
    ASSUME TypeInv, PlaceInv, OpenInv, [Next]_vars, NEW a \in Aids, GetStart(a)
    PROVE  start'[a] = start[a]
  <1>1. CASE Quiet
    BY <1>1 DEF Quiet, auctionFiles
  <1>2. ASSUME NEW r \in Requests, Serve(r), start'[a] # start[a] PROVE FALSE
    <2>1. CreateStartFile(r) \/ WriteStart(r)
      BY <1>2, StepFacts DEF Writes
    <2>2. Owns(r)
      BY <2>1 DEF PlaceInv, Placed, RunsIn, OpenLabels, Owns, CreateStartFile,
         WriteStart
    <2>3. target[r] = a
      BY <1>2, <2>1, <2>2, OthersKeepAuction DEF CreateStartFile, WriteStart
    <2> QED
      BY <2>1, <2>3 DEF OpenInv, Builds, CreateStartFile, WriteStart, GetStart,
         Absent
  <1> QED
    BY <1>1, <1>2, StepKinds

-----------------------------------------------------------------------------
(* What a step of a process does to the bids and ends                      *)

\* The bids change only in the auction that r bids in, at the value it bids.
LEMMA BidWrites ==
    ASSUME TypeInv, PlaceInv, NEW r \in Requests, Serve(r),
           NEW a \in Aids, NEW v \in Values, bids'[a][v] # bids[a][v]
    PROVE  /\ a = Aid(r) /\ v = req[r].value
           /\ pc[r] \in {"CreateBidFile", "WriteBid"}
           /\ pc[r] = "CreateBidFile" => bids'[a][v] = Empty
           /\ pc[r] = "WriteBid" => bids'[a][v] = [user |-> Uid(r), at |-> stamp[r]]
  <1>0. /\ Aid(r) \in Aids /\ req[r].value \in Values
        /\ bids \in [Aids -> [Values -> BidInfo \cup Absent]]
    BY RequestType DEF TypeInv, TypeOK, FilesTypeOK
  <1>1. CASE CreateBidFile(r)
    <2>1. bids' = [bids EXCEPT ![Aid(r)][req[r].value] = Empty]
      BY <1>1 DEF CreateBidFile
    <2> QED
      BY <1>0, <1>1, <2>1, OneBidWritten DEF CreateBidFile
  <1>2. CASE WriteBid(r)
    <2> DEFINE x == [user |-> Uid(r), at |-> stamp[r]]
    <2>1. bids' = [bids EXCEPT ![Aid(r)][req[r].value] = x]
      BY <1>2 DEF WriteBid
    <2> HIDE DEF x
    <2>2. bids'[a][v] = IF a = Aid(r) /\ v = req[r].value THEN x ELSE bids[a][v]
      BY <1>0, <2>1, OneBidWritten
    <2> QED
      BY <1>2, <2>2 DEF WriteBid, x
  <1> QED
    BY <1>1, <1>2, StepFacts DEF Writes

\* The END files change only for the auction that r ends.
LEMMA EndWrites ==
    ASSUME TypeInv, PlaceInv, NEW r \in Requests, Serve(r),
           NEW a \in Aids, end'[a] # end[a]
    PROVE  /\ a = target[r] /\ pc[r] \in {"OpenEnd", "WriteEnd"}
           /\ pc[r] = "OpenEnd" => end'[a] = Empty
           /\ pc[r] = "WriteEnd" => end'[a] = stamp[r]
  BY StepFacts DEF Writes, OpenEnd, WriteEnd, TypeInv, TypeOK, FilesTypeOK

-----------------------------------------------------------------------------
(* BookInv is inductive while the lock is kept                             *)

\* A bid is compared with those on record, a step later it is still higher.
LEMMA BiddingStep ==
    ASSUME TypeInv, PlaceInv, OpenInv, LockKept, LockInv, BookInv, [Next]_vars,
           NEW r \in Requests, Serve(r)
    PROVE  Bidding(r)'
  <1> DEFINE a == Aid(r)
             v == req[r].value
  <1>0. /\ a \in Aids /\ v \in Values
        /\ v \in Nat /\ \A w \in Values : w \in Nat
        /\ Writes(r) /\ Comes(r) /\ Bidding(r)
        /\ Aid(r)' = a /\ req'[r] = req[r]
    BY StepFacts, RequestType, ValuesAssumption DEF Others, Aid, BookInv
  <1>1. GetStart(a) => start'[a] \notin Absent /\ start'[a] = start[a]
    BY <1>0, StartStands DEF GetStart
  <1> SUFFICES ASSUME pc'[r] \in {"RegisterBid", "CreateBidFile", "WriteBid"}
               PROVE  /\ start'[a] \notin Absent /\ v > start'[a].value
                      /\ end'[a] = NoFile
                      /\ \A w \in Values : bids'[a][w] \notin Absent => w < v
    BY <1>0 DEF Bidding, GetStart, Written
  <1>2. Bid(r) \/ RegisterBid(r) \/ CreateBidFile(r)
    BY <1>0 DEF Comes
  <1>3. UNCHANGED end
    BY <1>2 DEF Bid, RegisterBid, CreateBidFile, auctionFiles
  <1>4. CASE Bid(r)
    <2>1. UNCHANGED bids /\ pc'[r] # "CreateEndFile"
      BY <1>4 DEF Bid, auctionFiles
    <2>2. BidRefusal(r) = "none" /\ BidAcceptable(r)
      BY <1>4 DEF Bid, Goto, Return, Escape, TypeInv, TypeOK, ProcessTypeOK
    <2>3. GetStart(a) /\ end[a] = NoFile
      BY <2>2 DEF BidRefusal, CheckEndExists
    <2>4. BidValues(a) = {w \in Values : bids[a][w] # NoFile}
      BY <1>0 DEF BidValues, TypeInv, TypeOK, FilesTypeOK
    <2>5. start[a].value \in Values /\ start[a].value \in Nat
      BY <1>0, <2>3 DEF GetStart, TypeInv, TypeOK, FilesTypeOK, StartInfo
    <2>6. /\ BidValues(a) = {} => ~(start[a].value >= v)
          /\ \A w \in BidValues(a) : bids[a][w] # Empty => ~(w >= v)
      BY <2>2 DEF BidAcceptable, Outbid
    <2>7. \A w \in Values : Written(a, w) => w < v
      BY <1>0, <2>4, <2>6 DEF Written, Absent
    <2>8. v > start[a].value
      <3>1. CASE BidValues(a) = {}
        BY <1>0, <2>5, <2>6, <3>1
      <3>2. CASE BidValues(a) # {}
        <4>1. PICK w \in Values : Written(a, w)
          BY <2>2, <2>4, <3>2 DEF BidAcceptable, Written, Absent
        <4>2. w < v /\ w > start[a].value
          BY <1>0, <2>7, <4>1 DEF BookInv, BidsBeatStart
        <4> QED
          BY <1>0, <2>5, <4>2
      <3> QED
        BY <3>1, <3>2
    <2> QED
      BY <1>1, <1>3, <2>1, <2>3, <2>7, <2>8 DEF Written
  <1>5. CASE RegisterBid(r)
    <2>1. UNCHANGED bids
      BY <1>5 DEF RegisterBid, auctionFiles
    <2> QED
      BY <1>0, <1>1, <1>3, <1>5, <2>1 DEF RegisterBid, Bidding, Written
  <1>6. CASE CreateBidFile(r)
    <2>1. \A w \in Values : bids'[a][w] \notin Absent => Written(a, w)
      <3> SUFFICES ASSUME NEW w \in Values, bids'[a][w] # bids[a][w]
                   PROVE  bids'[a][w] = Empty
        BY DEF Written, Absent
      <3> QED
        BY <1>0, <1>6, BidWrites DEF CreateBidFile
    <2> QED
      BY <1>0, <1>1, <1>3, <1>6, <2>1 DEF CreateBidFile, Bidding
  <1> QED
    BY <1>2, <1>4, <1>5, <1>6

\* The END file that was not there is made, and then written, by r alone.
LEMMA EndingStep ==
    ASSUME TypeInv, PlaceInv, OpenInv, LockKept, LockInv, BookInv, [Next]_vars,
           NEW r \in Requests, Serve(r)
    PROVE  Ending(r)'
  <1>0. Writes(r) /\ Comes(r) /\ Ending(r)
    BY StepFacts DEF BookInv
  <1> USE DEF TypeInv, TypeOK, FilesTypeOK, ProcessTypeOK
  <1>1. pc'[r] = "CreateEndFile" => GetStart(target'[r]) /\ target'[r] \in Aids
    <2>1. Aid(r) \in Aids
      BY RequestType
    <2>2. CASE CloseAuction(r)
      BY <2>1, <2>2 DEF CloseAuction, Return, Escape
    <2>3. CASE Bid(r)
      BY <2>1, <2>3 DEF Bid, BidRefusal, Return, Escape, Goto
    <2>4. CASE ShowRecord(r)
      BY <2>1, <2>4 DEF ShowRecord, Return, Goto
    <2>5. CASE Visit(r)
      <3>1. todo[r] \subseteq Aids
        OBVIOUS
      <3> QED
        BY <2>5, <3>1 DEF Visit, Return, Goto
    <2> QED
      BY <1>0, <2>2, <2>3, <2>4, <2>5 DEF Comes
  <1>2. pc'[r] = "OpenEnd" => /\ GetStart(target'[r]) /\ target'[r] \in Aids
                              /\ end'[target'[r]] = NoFile
    BY <1>0 DEF Comes, CreateEndFile, CheckEndExists, Escape, Goto, auctionFiles,
       LocalsOK, TargetLabels
  <1>3. pc'[r] = "WriteEnd" => /\ GetStart(target'[r]) /\ target'[r] \in Aids
                               /\ end'[target'[r]] = Empty
    <2>1. ASSUME OpenEnd(r), pc'[r] = "WriteEnd"
          PROVE  target'[r] = target[r] /\ target[r] \in Aids
      BY <2>1 DEF OpenEnd, LocalsOK, TargetLabels
    <2>2. ASSUME OpenEnd(r), pc'[r] = "WriteEnd" PROVE GetStart(target[r])
      BY <1>0, <2>2 DEF OpenEnd, Ending
    <2>3. ASSUME OpenEnd(r), pc'[r] = "WriteEnd" PROVE end'[target[r]] = Empty
      BY <2>1, <2>3 DEF OpenEnd, AfterClose, Return, Escape, Goto
    <2> QED
      BY <1>0, <2>1, <2>2, <2>3 DEF Comes
  <1>4. \A a \in Aids : GetStart(a) => GetStart(a)'
    BY StartStands DEF GetStart
  <1> QED
    BY <1>1, <1>2, <1>3, <1>4 DEF Ending, GetStart

\* A step of a process keeps the books in order.
LEMMA BookServe ==
    ASSUME TypeInv, PlaceInv, OpenInv, LockKept, LockInv, BookInv, [Next]_vars,
           NEW r \in Requests, Serve(r)
    PROVE  BookInv'
  <1>0. Others(r) /\ Bidding(r)
    BY StepFacts DEF BookInv
  <1>1. ASSUME NEW s \in Requests \ {r} PROVE Bidding(s)' /\ Ending(s)'
    <2>1. /\ pc'[s] = pc[s] /\ target'[s] = target[s] /\ req' = req
          /\ Bidding(s) /\ Ending(s)
      BY <1>0, <1>1 DEF Others, BookInv
    <2>2. pc[s] \in CriticalLabels => UNCHANGED <<start, bids, end>>
      BY <1>1, AloneInside DEF auctionFiles
    <2> QED
      BY <2>1, <2>2 DEF CriticalLabels, Bidding, Ending, GetStart, Written, Aid
  <1>2. Bidding(r)' /\ Ending(r)'
    BY BiddingStep, EndingStep
  <1>3. ASSUME NEW a \in Aids, NEW v \in Values, Written(a, v)'
        PROVE  GetStart(a)' /\ v > start'[a].value
    <2>1. GetStart(a) /\ v > start[a].value
      <3>1. CASE bids'[a][v] = bids[a][v]
        BY <1>3, <3>1 DEF BookInv, BidsBeatStart, Written
      <3>2. CASE bids'[a][v] # bids[a][v]
        BY <1>0, <1>3, <3>2, BidWrites DEF Written, Absent, Bidding
      <3> QED
        BY <3>1, <3>2
    <2> QED
      BY <2>1, StartStands DEF GetStart
  <1> QED
    BY <1>1, <1>2, <1>3 DEF BookInv, BidsBeatStart

\* BooksKept is inductive.
LEMMA BooksInvariant == Spec => []BooksKept
  <1>1. Init => BooksKept
    BY InitLock DEF Init, BooksKept, BookInv, BidsBeatStart, Bidding, Ending,
       Written, Absent
  <1>2. ASSUME TypeInv, PlaceInv, OpenInv, BooksKept, [Next]_vars PROVE BooksKept'
    <2> SUFFICES ASSUME LockKept' PROVE LockInv' /\ BookInv'
      BY DEF BooksKept
    <2>1. LockKept /\ LockInv /\ BookInv
      BY <1>2, LockWasKept DEF BooksKept
    <2>2. LockInv'
      BY <1>2, <2>1, LockStep
    <2>3. CASE Quiet
      BY <2>1, <2>2, <2>3 DEF Quiet, Stayed, Entered, Died, auctionFiles, locals,
         BookInv, BidsBeatStart, Bidding, Ending, GetStart, Written, Aid
    <2>4. CASE \E r \in Requests : Serve(r)
      BY <1>2, <2>1, <2>2, <2>4, BookServe
    <2> QED
      BY <1>2, <2>2, <2>3, <2>4, StepKinds
  <1> QED
    BY <1>1, <1>2, TypeInvariant, PlaceInvariant, OpenInvariant, PTL DEF Spec

-----------------------------------------------------------------------------
(* What a step never does to the bids and the ends                         *)

\* No step changes a bid that is written or an end that is, none touches the
\* bids of an auction with an END file, and a new bid beats all there are.
LEMMA BookStep ==
    ASSUME TypeInv, PlaceInv, LockKept, LockInv, BookInv, [Next]_vars,
           NEW a \in Aids
    PROVE  /\ end[a] # NoFile => bids'[a] = bids[a]
           /\ end[a] \notin Absent => end'[a] = end[a]
           /\ \A v \in Values :
                 /\ Written(a, v) => bids'[a][v] = bids[a][v]
                 /\ ~Written(a, v) /\ Written(a, v)' =>
                       /\ v > start[a].value
                       /\ \A w \in Values : Written(a, w) => w < v
  <1>1. CASE Quiet
    BY <1>1 DEF Quiet, auctionFiles, Written
  <1>2. ASSUME NEW r \in Requests, Serve(r), end[a] # NoFile, bids'[a] # bids[a]
        PROVE  FALSE
    <2>1. CreateBidFile(r) \/ WriteBid(r)
      BY <1>2, StepFacts DEF Writes
    <2>2. a = Aid(r)
      BY <1>2, <2>1 DEF CreateBidFile, WriteBid, TypeInv, TypeOK, FilesTypeOK
    <2> QED
      BY <1>2, <2>1, <2>2 DEF CreateBidFile, WriteBid, BookInv, Bidding
  <1>3. ASSUME NEW r \in Requests, Serve(r), end[a] \notin Absent, end'[a] # end[a]
        PROVE  FALSE
    BY <1>3, EndWrites DEF BookInv, Ending, Absent
  <1>4. ASSUME NEW r \in Requests, Serve(r), NEW v \in Values,
               bids'[a][v] # bids[a][v]
        PROVE  /\ ~Written(a, v) /\ v > start[a].value
               /\ \A w \in Values : Written(a, w) => w < v
    <2>1. /\ a = Aid(r) /\ v = req[r].value
          /\ pc[r] \in {"CreateBidFile", "WriteBid"}
      BY <1>4, BidWrites, Zenon
    <2>2. v > start[a].value /\ \A w \in Values : Written(a, w) => w < v
      BY <2>1 DEF BookInv, Bidding
    <2>3. v \in Nat
      BY ValuesAssumption
    <2> QED
      BY <2>2, <2>3
  <1> QED
    BY <1>1, <1>2, <1>3, <1>4, StepKinds DEF Written

\* As long as no LST has gone around the lock, what was recorded outlives
\* failures, deaths and restarts.
THEOREM BooksOutlive == Spec => BooksSurvive
  <1>1. ASSUME TypeInv, PlaceInv, BooksKept, [Next]_vars
        PROVE  [LockKept => \A a \in Aids :
                  /\ end[a] # NoFile => bids'[a] = bids[a]
                  /\ end[a] \notin Absent => end'[a] = end[a]
                  /\ \A v \in Values :
                        /\ Written(a, v) => bids'[a][v] = bids[a][v]
                        /\ ~Written(a, v) /\ Written(a, v)' =>
                              \A w \in Values : Written(a, w) => w < v]_vars
    BY <1>1, BookStep DEF BooksKept
  <1> QED
    BY <1>1, TypeInvariant, PlaceInvariant, BooksInvariant, PTL
       DEF Spec, BooksSurvive

\* Without LST a bid that is recorded stays, and beats the start value and
\* every bid before it.
THEOREM BidsRise == ASSUME NoListRequest PROVE Spec => BidsIncrease
  <1>1. ASSUME TypeInv, PlaceInv, LockKept, BooksKept, [Next]_vars
        PROVE  [\A a \in Aids, v \in Values :
                  /\ Written(a, v) => bids'[a][v] = bids[a][v]
                  /\ ~Written(a, v) /\ Written(a, v)' =>
                        /\ v > start[a].value
                        /\ \A w \in Values : Written(a, w) => w < v]_vars
    BY <1>1, BookStep DEF BooksKept
  <1> QED
    BY <1>1, NoListKeepsLock, TypeInvariant, PlaceInvariant, BooksInvariant, PTL
       DEF Spec, BidsIncrease

\* Without LST no bid file is made or changed once the auction has an END file.
THEOREM EndedTakeNoBids == ASSUME NoListRequest PROVE Spec => NoBidAfterEnd
  <1>1. ASSUME TypeInv, PlaceInv, LockKept, BooksKept, [Next]_vars
        PROVE  [\A a \in Aids : end[a] # NoFile => bids'[a] = bids[a]]_vars
    BY <1>1, BookStep DEF BooksKept
  <1> QED
    BY <1>1, NoListKeepsLock, TypeInvariant, PlaceInvariant, BooksInvariant, PTL
       DEF Spec, NoBidAfterEnd

\* Without LST the time an auction ended at never changes.
THEOREM EndsStand == ASSUME NoListRequest PROVE Spec => EndIsFinal
  <1>1. ASSUME TypeInv, PlaceInv, LockKept, BooksKept, [Next]_vars
        PROVE  [\A a \in Aids : end[a] \notin Absent => end'[a] = end[a]]_vars
    BY <1>1, BookStep DEF BooksKept
  <1> QED
    BY <1>1, NoListKeepsLock, TypeInvariant, PlaceInvariant, BooksInvariant, PTL
       DEF Spec, EndIsFinal

-----------------------------------------------------------------------------
(* What the steps of a process are at a label                              *)

\* The label of a process tells which action it takes.
LEMMA ActionAt ==
    ASSUME NEW r \in Requests, Serve(r)
    PROVE  /\ pc[r] = "wait" => SemaphoreWait(r)
           /\ pc[r] = "post" => SemaphorePost(r)
           /\ pc[r] = "reply" => Reply(r)
           /\ pc[r] = "CreateUserDir" => CreateUserDir(r)
           /\ pc[r] = "WritePassword" => WritePassword(r)
           /\ pc[r] = "CreateAuctionDir" => CreateAuctionDir(r)
           /\ pc[r] = "CreateSubDirs" => CreateSubDirs(r)
           /\ pc[r] = "CreateStartFile" => CreateStartFile(r)
           /\ pc[r] = "WriteStart" => WriteStart(r)
           /\ pc[r] = "CreateAssetFile" => CreateAssetFile(r)
           /\ pc[r] = "WriteAsset" => WriteAsset(r)
           /\ pc[r] = "RegisterHost" => RegisterHost(r)
           /\ pc[r] = "CloseAuction" => CloseAuction(r)
           /\ pc[r] = "CreateEndFile" => CreateEndFile(r)
           /\ pc[r] = "OpenEnd" => OpenEnd(r)
           /\ pc[r] = "WriteEnd" => WriteEnd(r)
           /\ pc[r] = "Bid" => Bid(r)
           /\ pc[r] = "RegisterBid" => RegisterBid(r)
           /\ pc[r] = "CreateBidFile" => CreateBidFile(r)
           /\ pc[r] = "WriteBid" => WriteBid(r)
           /\ pc[r] = "MyAuctions" => MyAuctions(r)
           /\ pc[r] = "MyBids" => MyBids(r)
           /\ pc[r] = "Visit" => Visit(r)
           /\ pc[r] \notin {"idle", "done", "dead", "lost"}
  BY DEF Serve, SemaphoreWait, SemaphorePost, AccountStep, AuctionStep,
     ListingStep, LoginUser, CreateUserDir, CreatePassword, WritePassword,
     CreateLogin, Logout, Unregister, ErasePassword, Open, CreateAuctionDir,
     CreateSubDirs, CreateStartFile, WriteStart, CreateAssetFile, WriteAsset,
     RegisterHost, CreateEndFile, OpenEnd, WriteEnd, CloseAuction, Bid,
     RegisterBid, CreateBidFile, WriteBid, MyAuctions, MyBids, List, Visit,
     ShowRecord, ReadRecord, GetAssetDir, ShowAsset, Reply

-----------------------------------------------------------------------------
(* The files that are created and not written yet                          *)

HalfPass  == {u \in Users : pass[u] = Empty}
HalfStart == {a \in Aids : start[a] = Empty}
HalfAsset == {a \in Aids : asset[a] = "partial"}
HalfEnd   == {a \in Aids : end[a] = Empty}
HalfBids  == {b \in Aids \X Values : bids[b[1]][b[2]] = Empty}
WriterLabels == {"WritePassword", "WriteStart", "WriteAsset", "WriteEnd", "WriteBid"}

\* The file that r is about to write is there and empty.
Writing(r) ==
    /\ pc[r] = "WritePassword" => pass[Uid(r)] = Empty
    /\ pc[r] = "WriteAsset"    => asset[target[r]] = "partial"
    /\ pc[r] = "WriteBid"      => bids[Aid(r)][req[r].value] = Empty

HalvesFinite == /\ IsFiniteSet(HalfPass) /\ IsFiniteSet(HalfStart)
                /\ IsFiniteSet(HalfAsset) /\ IsFiniteSet(HalfEnd)
                /\ IsFiniteSet(HalfBids)
LossInv == /\ \A r \in Requests : Writing(r)
           /\ HalvesFinite
           /\ HalfWritten <= crashes + Cardinality(Writers)
LossesKept == LockKept => LossInv

\* Of a finite set that gets one element more, loses one or stays as it is,
\* the cardinality changes by that.
LEMMA OneMoreOrLess ==
    ASSUME NEW S, IsFiniteSet(S), NEW T, NEW x
    PROVE  /\ T \in {S, S \cup {x}, S \ {x}} => IsFiniteSet(T)
           /\ Cardinality(S) \in Nat
           /\ T \in {S, S \ {x}} => Cardinality(T) <= Cardinality(S)
           /\ T = S \cup {x} => Cardinality(T) <= Cardinality(S) + 1
           /\ T = S \ {x} /\ x \in S => Cardinality(T) = Cardinality(S) - 1
  <1>1. Cardinality(S) \in Nat
    BY FS_CardinalityType
  <1>2. /\ IsFiniteSet(S \cup {x})
        /\ Cardinality(S \cup {x}) =
              IF x \in S THEN Cardinality(S) ELSE Cardinality(S) + 1
    BY FS_AddElement
  <1>3. /\ IsFiniteSet(S \ {x})
        /\ Cardinality(S \ {x}) =
              IF x \in S THEN Cardinality(S) - 1 ELSE Cardinality(S)
    BY FS_RemoveElement
  <1> QED
    BY <1>1, <1>2, <1>3

\* What a step from label l to m does to a set of half-written files, those that
\* are created at label c and written at w: it adds one only on its way to w,
\* and takes one away at w.
Halves(l, m, c, w, x, S, T) ==
    \/ l # w /\ T \in {S, S \ {x}}
    \/ l = c /\ m = w /\ T = S \cup {x}
    \/ l = w /\ x \in S /\ T = S \ {x}

\* The same of the number of these files.
Falls(l, m, c, w, S, T) ==
    /\ Cardinality(S) \in Nat /\ Cardinality(T) \in Nat
    /\ l = w => Cardinality(T) = Cardinality(S) - 1
    /\ l # w /\ (l # c \/ m # w) => Cardinality(T) <= Cardinality(S)
    /\ Cardinality(T) <= Cardinality(S) + 1

\* Each kind of file is created at one label and written at the next.
LEMMA HalvesStep ==
    ASSUME TypeInv, PlaceInv, OpenInv, BookInv, NEW r \in Requests, Serve(r),
           Writing(r)
    PROVE  /\ Halves(pc[r], pc'[r], "CreatePassword", "WritePassword", Uid(r),
                     HalfPass, HalfPass')
           /\ Halves(pc[r], pc'[r], "CreateStartFile", "WriteStart", target[r],
                     HalfStart,
                     HalfStart')
           /\ Halves(pc[r], pc'[r], "CreateAssetFile", "WriteAsset", target[r],
                     HalfAsset,
                     HalfAsset')
           /\ Halves(pc[r], pc'[r], "OpenEnd", "WriteEnd", target[r], HalfEnd, HalfEnd')
           /\ Halves(pc[r], pc'[r], "CreateBidFile", "WriteBid", <<Aid(r),
                     req[r].value>>,
                     HalfBids, HalfBids')
  <1>0. /\ Writes(r) /\ Builds(r) /\ Ending(r) /\ Uid(r) \in Users
        /\ req[r].pw \in Passwords /\ Aid(r) \in Aids /\ req[r].value \in Values
        /\ pc[r] \in {"WriteStart", "WriteAsset", "OpenEnd", "WriteEnd"} =>
               target[r] \in Aids
    BY StepFacts, RequestType DEF OpenInv, BookInv, TypeInv, LocalsOK, TargetLabels
  <1> USE AbsentAssumption DEF TypeInv, TypeOK, FilesTypeOK, ProcessTypeOK, Absent
  <1>1. Halves(pc[r], pc'[r], "CreatePassword", "WritePassword", Uid(r), HalfPass,
               HalfPass')
    <2>1. CASE pass' = pass
      BY <1>0, <2>1, ActionAt DEF Halves, HalfPass, WritePassword, Writing
    <2>2. CASE CreatePassword(r) /\ pass' # pass
      BY <1>0, <2>2 DEF CreatePassword, Goto, HalfPass, Halves
    <2>3. CASE WritePassword(r)
      BY <1>0, <2>3 DEF WritePassword, Writing, HalfPass, Halves
    <2>4. CASE ErasePassword(r) /\ pass' # pass
      BY <1>0, <2>4 DEF ErasePassword, HalfPass, Halves
    <2> QED
      BY <1>0, <2>1, <2>2, <2>3, <2>4 DEF Writes
  <1>2. Halves(pc[r], pc'[r], "CreateStartFile", "WriteStart", target[r], HalfStart,
               HalfStart')
    <2>0. ASSUME WriteStart(r) PROVE start'[target[r]] # Empty
      <3>1. [host |-> Uid(r), value |-> req[r].value, timeactive |-> req[r].time,
             at |-> stamp[r]] \in StartInfo
        BY <1>0, <2>0, RequestType DEF WriteStart, StartInfo, LocalsOK
      <3> QED
        BY <1>0, <2>0, <3>1 DEF WriteStart
    <2>1. CASE start' = start
      BY <1>0, <2>0, <2>1, ActionAt DEF Halves, HalfStart, WriteStart, Builds
    <2>2. CASE CreateStartFile(r) /\ start' # start
      BY <1>0, <2>2 DEF CreateStartFile, Goto, HalfStart, Halves
    <2>3. CASE WriteStart(r)
      BY <1>0, <2>0, <2>3 DEF WriteStart, Builds, HalfStart, Halves
    <2> QED
      BY <1>0, <2>1, <2>2, <2>3 DEF Writes
  <1>3. Halves(pc[r], pc'[r], "CreateAssetFile", "WriteAsset", target[r], HalfAsset,
               HalfAsset')
    <2>1. CASE asset' = asset
      BY <1>0, <2>1, ActionAt DEF Halves, HalfAsset, WriteAsset, Writing
    <2>2. CASE CreateAssetFile(r) /\ asset' # asset
      BY <1>0, <2>2 DEF CreateAssetFile, Goto, HalfAsset, Halves
    <2>3. CASE WriteAsset(r)
      BY <1>0, <2>3 DEF WriteAsset, Writing, HalfAsset, Halves
    <2> QED
      BY <1>0, <2>1, <2>2, <2>3 DEF Writes
  <1>4. Halves(pc[r], pc'[r], "OpenEnd", "WriteEnd", target[r], HalfEnd, HalfEnd')
    <2>0. stamp[r] # Empty
      <3>1. stamp[r] \in Int
        OBVIOUS
      <3> QED
        BY <3>1
    <2>1. CASE end' = end
      <3>1. pc[r] # "WriteEnd"
        <4>1. ASSUME WriteEnd(r) PROVE end'[target[r]] # Empty
          BY <1>0, <2>0, <4>1 DEF WriteEnd
        <4>2. pc[r] = "WriteEnd" => WriteEnd(r) /\ end[target[r]] = Empty
          BY <1>0, ActionAt DEF Ending
        <4> QED
          BY <2>1, <4>1, <4>2
      <3> QED
        BY <2>1, <3>1 DEF Halves, HalfEnd
    <2>2. CASE OpenEnd(r) /\ end' # end
      <3>1. /\ pc[r] = "OpenEnd" /\ pc'[r] = "WriteEnd"
            /\ end' = [end EXCEPT ![target[r]] = Empty]
        BY <2>2 DEF OpenEnd, Goto
      <3>2. HalfEnd' = HalfEnd \cup {target[r]}
        BY <1>0, <3>1 DEF HalfEnd
      <3> QED
        BY <3>1, <3>2 DEF Halves
    <2>3. CASE WriteEnd(r)
      BY <1>0, <2>3 DEF WriteEnd, Ending, HalfEnd, Halves
    <2> QED
      BY <1>0, <2>1, <2>2, <2>3 DEF Writes
  <1>5. Halves(pc[r], pc'[r], "CreateBidFile", "WriteBid", <<Aid(r), req[r].value>>,
               HalfBids,
               HalfBids')
    <2> DEFINE a == Aid(r)
               v == req[r].value
    <2>1. CASE bids' = bids
      <3>1. pc[r] # "WriteBid"
        <4>1. ASSUME WriteBid(r) PROVE bids'[a][v] # Empty
          <5>1. [user |-> Uid(r), at |-> stamp[r]] \in BidInfo
            BY <1>0 DEF BidInfo
          <5> QED
            BY <1>0, <4>1, <5>1, BidWrites DEF WriteBid, Writing
        <4> QED
          BY <1>0, <2>1, <4>1, ActionAt DEF Writing
      <3> QED
        BY <2>1, <3>1 DEF Halves, HalfBids
    <2>2. CASE CreateBidFile(r) /\ bids' # bids
      <3>1. /\ pc[r] = "CreateBidFile" /\ pc'[r] = "WriteBid"
            /\ bids' = [bids EXCEPT ![a][v] = Empty]
        BY <2>2 DEF CreateBidFile, Goto
      <3>2. ASSUME NEW b \in Aids, NEW w \in Values
            PROVE  bids'[b][w] = IF b = a /\ w = v THEN Empty ELSE bids[b][w]
        BY <1>0, <3>1, OneBidWritten
      <3>3. HalfBids' = HalfBids \cup {<<a, v>>}
        BY <1>0, <3>2 DEF HalfBids
      <3> QED
        BY <3>1, <3>3 DEF Halves
    <2>3. CASE WriteBid(r)
      <3> DEFINE bid == [user |-> Uid(r), at |-> stamp[r]]
      <3>1. pc[r] = "WriteBid" /\ bid # Empty /\ bids[a][v] = Empty
        <4>1. bid \in BidInfo
          BY <1>0 DEF BidInfo
        <4> QED
          BY <2>3, <4>1 DEF WriteBid, Writing
      <3>2. ASSUME NEW b \in Aids, NEW w \in Values
            PROVE  bids'[b][w] = IF b = a /\ w = v THEN bid ELSE bids[b][w]
        BY <1>0, <2>3, OneBidWritten DEF WriteBid
      <3>3. HalfBids' = HalfBids \ {<<a, v>>} /\ <<a, v>> \in HalfBids
        BY <1>0, <3>1, <3>2, SMTT(60) DEF HalfBids
      <3> QED
        BY <3>1, <3>3 DEF Halves
    <2> QED
      BY <1>0, <2>1, <2>2, <2>3 DEF Writes
  <1> QED
    BY <1>1, <1>2, <1>3, <1>4, <1>5

\* What Halves says of the cardinalities.
LEMMA HalvesCount ==
    ASSUME NEW l, NEW m, NEW c, NEW w, c # w, NEW x, NEW S, NEW T,
           IsFiniteSet(S), Halves(l, m, c, w, x, S, T)
    PROVE  IsFiniteSet(T) /\ Falls(l, m, c, w, S, T)
  <1>1. IsFiniteSet(T)
    BY OneMoreOrLess DEF Halves
  <1>2. Cardinality(S) \in Nat /\ Cardinality(T) \in Nat
    BY <1>1, FS_CardinalityType
  <1>3. /\ T \in {S, S \ {x}} => Cardinality(T) <= Cardinality(S)
        /\ T = S \cup {x} => Cardinality(T) <= Cardinality(S) + 1
        /\ T = S \ {x} /\ x \in S => Cardinality(T) = Cardinality(S) - 1
    BY OneMoreOrLess
  <1>4. CASE l # w /\ T \in {S, S \ {x}}
    BY <1>1, <1>2, <1>3, <1>4 DEF Falls
  <1>5. CASE l = c /\ m = w /\ T = S \cup {x}
    BY <1>1, <1>2, <1>3, <1>5 DEF Falls
  <1>6. CASE l = w /\ x \in S /\ T = S \ {x}
    BY <1>1, <1>2, <1>3, <1>6 DEF Falls
  <1> QED
    BY <1>4, <1>5, <1>6 DEF Halves

\* A set of at most one element has cardinality 0 or 1.
LEMMA OneAtMost ==
    ASSUME NEW S, \A x, y \in S : x = y
    PROVE  /\ Cardinality(S) \in {0, 1}
           /\ Cardinality(S) = 0 <=> S = {}
  <1>1. S = {} \/ \E x \in S : S = {x}
    OBVIOUS
  <1> QED
    BY <1>1, FS_EmptySet, FS_Singleton

\* A step of a process leaves no more half-written files than it says.
LEMMA LossStep ==
    ASSUME TypeInv, PlaceInv, OpenInv, LockKept, LockInv, LockInv', LockKept',
           BookInv, LossInv, NEW r \in Requests, Serve(r)
    PROVE  LossInv'
  <1>0. /\ Writes(r) /\ Comes(r) /\ Others(r) /\ Writing(r) /\ HalvesFinite
        /\ HalfWritten <= crashes + Cardinality(Writers)
        /\ UNCHANGED crashes /\ crashes \in Nat
    BY StepFacts, BoundsAssumption DEF LossInv, Writes, TypeInv, TypeOK, ProcessTypeOK
  <1>1. ASSUME NEW s \in Requests PROVE Writing(s)'
    <2>1. CASE s # r
      <3>1. Writing(s) /\ pc'[s] = pc[s] /\ target'[s] = target[s] /\ req' = req
        BY <1>0, <2>1 DEF LossInv, Others
      <3>2. pc[s] \in CriticalLabels => UNCHANGED <<pass, asset, bids>>
        BY <2>1, AloneInside DEF userFiles, auctionFiles
      <3> QED
        BY <3>1, <3>2 DEF Writing, CriticalLabels, Uid, Aid
    <2>2. CASE s = r
      <3>1. /\ Uid(r) \in Users /\ Aid(r) \in Aids /\ req[r].value \in Values
            /\ pc[r] = "CreateAssetFile" => target[r] \in Aids
        BY RequestType DEF TypeInv, LocalsOK, TargetLabels
      <3>2. pc'[r] = "WritePassword" => pass'[Uid(r)] = Empty
        BY <1>0, <3>1 DEF Comes, CreatePassword, Return, TypeInv, TypeOK, FilesTypeOK,
           ProcessTypeOK
      <3>3. pc'[r] = "WriteAsset" => asset'[target[r]] = "partial"
                                     /\ target'[r] = target[r]
        BY <1>0, <3>1 DEF Comes, CreateAssetFile, OpenFails, Return, locals, TypeInv,
           TypeOK, FilesTypeOK, ProcessTypeOK
      <3>4. pc'[r] = "WriteBid" => bids'[Aid(r)][req[r].value] = Empty
        <4>1. pc'[r] = "WriteBid" =>
                  bids' = [bids EXCEPT ![Aid(r)][req[r].value] = Empty]
          BY <1>0 DEF Comes, CreateBidFile, Escape, Return, TypeInv, TypeOK,
             ProcessTypeOK
        <4> QED
          BY <3>1, <4>1, OneBidWritten DEF TypeInv, TypeOK, FilesTypeOK
      <3> QED
        BY <1>0, <2>2, <3>2, <3>3, <3>4 DEF Writing, Others, Uid, Aid
    <2> QED
      BY <2>1, <2>2
  <1>2. /\ HalvesFinite'
        /\ HalfWritten \in Int /\ HalfWritten' \in Int
        /\ HalfWritten' <= HalfWritten + 1
        /\ pc'[r] \notin WriterLabels => HalfWritten' <= HalfWritten
        /\ pc[r] \in WriterLabels /\ pc'[r] \notin WriterLabels =>
               HalfWritten' <= HalfWritten - 1
    <2>1. /\ IsFiniteSet(HalfPass')
          /\ Falls(pc[r], pc'[r], "CreatePassword", "WritePassword", HalfPass, HalfPass')
      BY <1>0, HalvesStep, HalvesCount DEF HalvesFinite
    <2>2. /\ IsFiniteSet(HalfStart')
          /\ Falls(pc[r], pc'[r], "CreateStartFile", "WriteStart", HalfStart, HalfStart')
      BY <1>0, HalvesStep, HalvesCount DEF HalvesFinite
    <2>3. /\ IsFiniteSet(HalfAsset')
          /\ Falls(pc[r], pc'[r], "CreateAssetFile", "WriteAsset", HalfAsset, HalfAsset')
      BY <1>0, HalvesStep, HalvesCount DEF HalvesFinite
    <2>4. /\ IsFiniteSet(HalfEnd')
          /\ Falls(pc[r], pc'[r], "OpenEnd", "WriteEnd", HalfEnd, HalfEnd')
      BY <1>0, HalvesStep, HalvesCount DEF HalvesFinite
    <2>5. /\ IsFiniteSet(HalfBids')
          /\ Falls(pc[r], pc'[r], "CreateBidFile", "WriteBid", HalfBids, HalfBids')
      BY <1>0, HalvesStep, HalvesCount DEF HalvesFinite
    <2>6. /\ HalfWritten = Cardinality(HalfPass) + Cardinality(HalfStart)
                 + Cardinality(HalfAsset) + Cardinality(HalfEnd)
                 + Cardinality(HalfBids)
          /\ HalfWritten' = Cardinality(HalfPass') + Cardinality(HalfStart')
                 + Cardinality(HalfAsset') + Cardinality(HalfEnd')
                 + Cardinality(HalfBids')
      BY DEF HalfWritten, HalfPass, HalfStart, HalfAsset, HalfEnd, HalfBids
    <2> QED
      BY <2>1, <2>2, <2>3, <2>4, <2>5, <2>6 DEF HalvesFinite, WriterLabels, Falls
  <1>3. /\ Cardinality(Writers) \in {0, 1} /\ Cardinality(Writers') \in {0, 1}
        /\ Cardinality(Writers) = 0 <=> Writers = {}
        /\ Cardinality(Writers') = 0 <=> Writers' = {}
    <2> USE DEF Writers, LockKept, LockInv, MutualExclusion, InCS, CriticalLabels
    <2>1. \A s, t \in Writers : s = t
      OBVIOUS
    <2>2. \A s, t \in Writers' : s = t
      OBVIOUS
    <2> HIDE DEF Writers
    <2> QED
      BY <2>1, <2>2, OneAtMost
  <1>4. CASE pc'[r] \in WriterLabels
    <2>1. pc[r] \in CriticalLabels \ WriterLabels
      BY <1>0, <1>4 DEF Comes, WriterLabels, CriticalLabels, CreatePassword,
         CreateStartFile, CreateAssetFile, OpenEnd, CreateBidFile
    <2>2. Writers = {} /\ r \in Writers'
      BY <1>4, <2>1 DEF WriterLabels, Writers, CriticalLabels, LockKept, LockInv,
         MutualExclusion, InCS
    <2> QED
      BY <1>0, <1>1, <1>2, <1>3, <2>2 DEF LossInv
  <1>5. CASE pc[r] \in WriterLabels /\ pc'[r] \notin WriterLabels
    <2>1. r \in Writers
      BY <1>5 DEF Writers, WriterLabels
    <2> QED
      BY <1>0, <1>1, <1>2, <1>3, <1>5, <2>1 DEF LossInv
  <1>6. CASE pc[r] \notin WriterLabels /\ pc'[r] \notin WriterLabels
    <2>1. Writers' = Writers
      BY <1>0, <1>6 DEF Writers, WriterLabels, Others
    <2> QED
      BY <1>0, <1>1, <1>2, <1>3, <1>6, <2>1 DEF LossInv
  <1> QED
    BY <1>4, <1>5, <1>6

\* A death or a restart takes away at most the one process about to write.
LEMMA LossQuiet ==
    ASSUME TypeInv, LockKept, LockInv, LossInv, Quiet PROVE LossInv'
  <1>1. \A s \in Requests : Writing(s)'
    BY DEF Quiet, Stayed, Entered, Died, LossInv, Writing, userFiles, auctionFiles,
       locals, Uid, Aid
  <1>2. HalvesFinite' /\ HalfWritten' = HalfWritten
    BY DEF Quiet, userFiles, auctionFiles, LossInv, HalvesFinite, HalfPass,
       HalfStart, HalfAsset, HalfEnd, HalfBids, HalfWritten
  <1>3. /\ Writers' \subseteq Writers
        /\ Writers' = Writers \/ crashes' = crashes + 1
    BY DEF Quiet, Stayed, Entered, Died, Writers
  <1>4. \A s, t \in Writers : s = t
    BY DEF Writers, LockKept, LockInv, MutualExclusion, InCS, CriticalLabels
  <1>5. /\ Cardinality(Writers) \in {0, 1} /\ Cardinality(Writers') \in {0, 1}
        /\ Writers' = Writers => Cardinality(Writers') = Cardinality(Writers)
    BY <1>3, <1>4, OneAtMost
  <1>6. /\ crashes \in Nat /\ crashes' \in {crashes, crashes + 1}
        /\ HalfWritten <= crashes + Cardinality(Writers)
    BY BoundsAssumption DEF TypeInv, TypeOK, ProcessTypeOK, Quiet, LossInv
  <1>7. HalfWritten \in Int
    BY FS_CardinalityType DEF LossInv, HalvesFinite, HalfPass, HalfStart, HalfAsset,
       HalfEnd, HalfBids, HalfWritten
  <1> HIDE DEF HalfWritten, Writers
  <1>8. HalfWritten' <= crashes' + Cardinality(Writers')
    BY <1>2, <1>3, <1>5, <1>6, <1>7
  <1> QED
    BY <1>1, <1>2, <1>8 DEF LossInv

\* LossesKept is inductive.
LEMMA LossInvariant == Spec => []LossesKept
  <1>1. Init => LossesKept
    <2> SUFFICES ASSUME Init PROVE LossInv
      BY DEF LossesKept
    <2>1. /\ HalfPass = {} /\ HalfStart = {} /\ HalfAsset = {} /\ HalfEnd = {}
          /\ HalfBids = {} /\ Writers = {}
      BY InitAssumption, AbsentAssumption DEF Init, HalfPass, HalfStart, HalfAsset,
         HalfEnd, HalfBids, Writers, Absent
    <2>2. HalfWritten = Cardinality(HalfPass) + Cardinality(HalfStart)
              + Cardinality(HalfAsset) + Cardinality(HalfEnd) + Cardinality(HalfBids)
      BY DEF HalfWritten, HalfPass, HalfStart, HalfAsset, HalfEnd, HalfBids
    <2>3. HalfWritten = 0 /\ Cardinality(Writers) = 0 /\ HalvesFinite
      BY <2>1, <2>2, FS_EmptySet DEF HalvesFinite
    <2> QED
      BY <2>3 DEF Init, LossInv, Writing
  <1>2. ASSUME TypeInv, PlaceInv, OpenInv, BooksKept, BooksKept', LossesKept,
               [Next]_vars
        PROVE  LossesKept'
    <2> SUFFICES ASSUME LockKept' PROVE LossInv'
      BY DEF LossesKept
    <2>1. LockKept /\ LockInv /\ BookInv /\ LockInv' /\ LossInv
      BY <1>2, LockWasKept DEF BooksKept, LossesKept
    <2>2. CASE Quiet
      BY <1>2, <2>1, <2>2, LossQuiet
    <2>3. CASE \E r \in Requests : Serve(r)
      <3>1. PICK r \in Requests : Serve(r)
        BY <2>3
      <3> QED
        BY <1>2, <2>1, <3>1, LossStep
    <2> QED
      BY <1>2, <2>2, <2>3, StepKinds
  <1> QED
    BY <1>1, <1>2, TypeInvariant, PlaceInvariant, OpenInvariant, BooksInvariant, PTL
       DEF Spec

\* As long as no LST has gone around the lock, each death or restart costs at
\* most one file, the one that its process was about to write.
THEOREM LossesAreBounded == Spec => []LossesBounded
  <1>1. LossesKept => LossesBounded
    BY DEF LossesKept, LossInv, LossesBounded
  <1> QED
    BY <1>1, LossInvariant, PTL

=============================================================================
