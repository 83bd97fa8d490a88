------------------------- MODULE AuctionServer_calm -------------------------
(***************************************************************************)
(* What the server does while nothing goes wrong, for every value of the   *)
(* constants: no LST, no creation that fails and, from the second part on, *)
(* no process that dies.  Then every file that a request leaves behind is  *)
(* complete.                                                               *)
(***************************************************************************)
EXTENDS AuctionServer_house

-----------------------------------------------------------------------------
(* The inductive invariant on a disk on which no creation fails            *)

\* Menus without LST, on a disk that makes every file it is asked for.
SoundDisk == NoListRequest /\ MaxFaults = 0
Calm == SoundDisk /\ MaxCrashes = 0

\* Where CLS has got: OK once its END file is made, and no other result of
\* Close, since nothing fails.
Closes(r) ==
    Op(r) = "CLS" =>
        /\ pc[r] \in {"idle", "wait", "CloseAuction"} => res[r] = "none"
        /\ pc[r] \in {"CreateEndFile", "OpenEnd", "WriteEnd"} => target[r] = Aid(r)
        /\ pc[r] \in {"post", "reply", "done"} /\ res[r] = "OK" =>
               end[Aid(r)] \notin Absent
        /\ res[r] \notin {"CLOSE_NOK", "LIST"}
        /\ reply[r] = "OK" => pc[r] = "done" /\ res[r] = "OK"

\* The auctions that LMA or LMB lists, and what it says of a set of them.
Listed(r) == IF Op(r) = "LMA" THEN hosted[Uid(r)] ELSE bidded[Uid(r)]
Told(as)  == {<<a, end[a] = NoFile>> : a \in as}

\* A listing has told the truth about the auctions it has visited.
Lists(r) ==
    /\ pc[r] = "idle" => out[r] = {}
    /\ Op(r) \in {"LMA", "LMB"} =>
        /\ pc[r] \in {"wait", "MyAuctions", "MyBids"} => out[r] = {}
        /\ pc[r] \in {"Visit", "CreateEndFile", "OpenEnd", "WriteEnd"} =>
               todo[r] \subseteq Listed(r)
        /\ pc[r] = "Visit" => out[r] = Told(Listed(r) \ todo[r])
        /\ pc[r] \in {"CreateEndFile", "OpenEnd", "WriteEnd"} =>
               /\ target[r] \in Listed(r) \ todo[r]
               /\ out[r] = Told((Listed(r) \ todo[r]) \ {target[r]})
        /\ pc[r] = "post" /\ res[r] = "LIST" => out[r] = Told(Listed(r))

SoundInv == \A r \in Requests : Closes(r) /\ Lists(r)

-----------------------------------------------------------------------------
(* The inductive invariants while nobody dies either                       *)

\* A user has all of his directories or none, and a password only with them.
DirInv ==
    /\ \A u \in Users :
          /\ userDir[u] \in {0, 3} \/ \E r \in Requests :
                                          pc[r] = "CreateUserDir" /\ Uid(r) = u
          /\ pass[u] # NoFile => userDir[u] = 3
    /\ \A r \in Requests :
          pc[r] \in {"CreatePassword", "WritePassword"} => userDir[Uid(r)] = 3

\* An auction is complete, or Open is at work on it, or there is nothing but
\* the directory that an OPA for no time has left.
MakingLabels   == OpenLabels \ {"CreateAuctionDir"}
InTheMaking(a) == \E r \in Requests : pc[r] \in MakingLabels /\ target[r] = a
TimesGiven     == \A m \in Menu : m.op = "OPA" => m.time # 0
Bare(a)        == /\ start[a] = NoFile /\ asset[a] = "none"
                  /\ auctionDir[a] = 0 \/ ~TimesGiven
Settled        == \A a \in Aids : Whole(a) \/ Bare(a) \/ InTheMaking(a)
Starting(r)    == pc[r] \in {"CreateSubDirs", "CreateStartFile"} =>
                      asset[target[r]] = "none"

\* No bid is on an auction of the bidder's own, although the file that says
\* who hosts an auction is the last one that Open creates.
NoSelfBid == \A a \in Aids, v \in Values :
    Written(a, v) => start[a] \notin Absent /\ bids[a][v].user # start[a].host

\* Only the process that writes an END or a bid file finds it empty.
FilesWritten ==
    /\ \A a \in Aids : end[a] = Empty =>
           \E r \in Requests : pc[r] = "WriteEnd" /\ target[r] = a
    /\ \A a \in Aids, v \in Values : bids[a][v] = Empty =>
           \E r \in Requests : /\ pc[r] = "WriteBid"
                               /\ Aid(r) = a /\ req[r].value = v

\* ACCEPT and nothing else is answered ACC, and no reader has met an empty
\* file or found an END file that is not there.
Answered(r) ==
    /\ res[r] # "REFUSE"
    /\ reply[r] = "ACC" => res[r] = "ACCEPT"
    /\ pc[r] = "ReadRecord" => end[target[r]] # NoFile
    /\ "ShowAsset" \in {pc[r], cont[r]} => asset[Aid(r)] # "none"
    /\ res[r] # "TORN"

CalmInv ==
    /\ DirInv /\ Settled /\ FilesWritten /\ NoSelfBid
    /\ \A r \in Requests : Starting(r) /\ Answered(r)
BeforeCalm == Before /\ CalmInv

-----------------------------------------------------------------------------
(* While no creation fails                                                 *)

\* No creation fails where none may.
LEMMA NothingFails == ASSUME MaxFaults = 0, TypeInv PROVE ~Fail
  BY DEF TypeInv, TypeOK, ProcessTypeOK, Fail

\* CLS makes its END file before it returns OK.
LEMMA ClosesStep ==
    ASSUME MaxFaults = 0, TypeInv, PlaceInv, NEW r \in Requests, Serve(r),
           Closes(r), Op(r) = "CLS"
    PROVE  Closes(r)'
  <1>0. /\ ~Fail /\ Aid(r) \in Aids /\ Placed(Op(r), pc[r], cont[r])
        /\ UNCHANGED req /\ Placed(Op(r), pc'[r], cont'[r])
    BY StepFacts, NothingFails, RequestType DEF PlaceInv, Others
  <1> USE DEF TypeInv, TypeOK, FilesTypeOK, ProcessTypeOK, LocalsOK, Closes, Aid, Op
  <1>1. pc[r] \in {"wait", "post", "reply", "CloseAuction", "CreateEndFile",
                   "OpenEnd", "WriteEnd"}
    BY <1>0, ActionAt DEF Placed, RunsIn, OpenLabels, Labels, CriticalLabels
  <1>2. CASE pc[r] = "wait"
    BY <1>0, <1>2, ActionAt DEF SemaphoreWait, locals, Placed, RunsIn, Sections,
       OpenLabels
  <1>3. CASE pc[r] = "post"
    BY <1>0, <1>3, ActionAt DEF SemaphorePost, auctionFiles, locals, Placed
  <1>4. CASE pc[r] = "reply"
    <2>1. /\ reply'[r] \in PossibleReplies(r) /\ pc'[r] = "done"
          /\ UNCHANGED <<end, res>>
      BY <1>4, ActionAt DEF Reply, auctionFiles
    <2>2. reply'[r] = "OK" => res[r] = "OK"
      BY <2>1 DEF PossibleReplies, ReplyTable, CloseReply
    <2> QED
      BY <1>0, <1>4, <2>1, <2>2
  <1>5. CASE pc[r] = "CloseAuction"
    <2>1. CloseAuction(r) /\ UNCHANGED reply
      BY <1>5, ActionAt DEF CloseAuction, Return, Escape
    <2>2. \/ /\ pc'[r] \in {"post", "reply"}
             /\ res'[r] \notin {"OK", "CLOSE_NOK", "LIST"}
          \/ /\ pc'[r] = "CreateEndFile" /\ target'[r] = Aid(r)
             /\ res'[r] \notin {"CLOSE_NOK", "LIST"}
      BY <2>1 DEF CloseAuction, Return, Escape
    <2> QED
      BY <1>0, <1>5, <2>1, <2>2
  <1>6. CASE pc[r] = "CreateEndFile"
    BY <1>0, <1>6, ActionAt DEF CreateEndFile, Goto, Escape, TargetLabels
  <1>7. CASE pc[r] = "OpenEnd"
    BY <1>0, <1>7, ActionAt, ZenonT(60) DEF OpenEnd, Goto, TargetLabels
  <1>8. CASE pc[r] = "WriteEnd"
    <2>1. WriteEnd(r) /\ target[r] = Aid(r)
      BY <1>8, ActionAt
    <2>2. end'[Aid(r)] \in Int
      BY <1>0, <2>1 DEF WriteEnd
    <2>3. pc'[r] = "post" /\ res'[r] = res[r] /\ UNCHANGED reply
      BY <2>1 DEF WriteEnd, AfterClose, Return
    <2> QED
      BY <1>0, <1>8, <2>2, <2>3, AbsentAssumption DEF Absent
  <1> QED
    BY <1>1, <1>2, <1>3, <1>4, <1>5, <1>6, <1>7, <1>8

\* What is told of a set of auctions, when one more is visited and when the
\* END files of others are made.
LEMMA ToldMore ==
    ASSUME NEW S, NEW a, NEW e, NEW f, \A b \in S : (f[b] = NoFile) <=> (e[b] = NoFile)
    PROVE  {<<b, f[b] = NoFile>> : b \in S \cup {a}}
           = {<<b, e[b] = NoFile>> : b \in S} \cup {<<a, f[a] = NoFile>>}
  <1>1. \A b \in S : <<b, f[b] = NoFile>> = <<b, e[b] = NoFile>>
    BY Zenon
  <1>2. {<<b, f[b] = NoFile>> : b \in S} = {<<b, e[b] = NoFile>> : b \in S}
    BY <1>1, Zenon
  <1>3. {<<b, f[b] = NoFile>> : b \in S \cup {a}}
        = {<<b, f[b] = NoFile>> : b \in S} \cup {<<a, f[a] = NoFile>>}
    OBVIOUS
  <1> QED
    BY <1>2, <1>3

\* A listing goes on telling the truth.
LEMMA ListsStep ==
    ASSUME MaxFaults = 0, TypeInv, PlaceInv, BookInv, NEW r \in Requests,
           Serve(r), Lists(r), Op(r) \in {"LMA", "LMB"}
    PROVE  Lists(r)'
  <1> DEFINE L == Listed(r)
             a == target[r]
  <1>0. /\ ~Fail /\ UNCHANGED req /\ Placed(Op(r), pc[r], cont[r])
        /\ Placed(Op(r), pc'[r], cont'[r]) /\ pc'[r] # "idle"
    BY StepFacts, NothingFails DEF PlaceInv, Others, Comes
  <1> USE DEF TypeInv, TypeOK, FilesTypeOK, ProcessTypeOK, LocalsOK
  <1>1. pc[r] \in {"wait", "post", "reply", "MyAuctions", "MyBids", "Visit",
                   "CreateEndFile", "OpenEnd", "WriteEnd"}
    BY <1>0, ActionAt DEF Placed, RunsIn, OpenLabels, Labels, CriticalLabels
  <1>2. UNCHANGED <<hosted, bidded>>
    BY <1>1, ActionAt DEF SemaphoreWait, SemaphorePost, Reply, MyAuctions, MyBids,
       Visit, CreateEndFile, OpenEnd, WriteEnd, userFiles, listingRest
  <1>3. /\ L \subseteq Aids /\ Op(r)' = Op(r) /\ Listed(r)' = L
    BY <1>0, <1>2, RequestType DEF Listed, Op, Uid
  <1> HIDE DEF L
  <1>4. SUFFICES
          /\ pc'[r] \in {"wait", "MyAuctions", "MyBids"} => out'[r] = {}
          /\ pc'[r] \in {"Visit", "CreateEndFile", "OpenEnd", "WriteEnd"} =>
                 todo'[r] \subseteq L
          /\ pc'[r] = "Visit" =>
                 out'[r] = {<<b, end'[b] = NoFile>> : b \in L \ todo'[r]}
          /\ pc'[r] \in {"CreateEndFile", "OpenEnd", "WriteEnd"} =>
                 /\ target'[r] \in L \ todo'[r]
                 /\ out'[r] = {<<b, end'[b] = NoFile>> :
                               b \in (L \ todo'[r]) \ {target'[r]}}
          /\ pc'[r] = "post" /\ res'[r] = "LIST" =>
                 out'[r] = {<<b, end'[b] = NoFile>> : b \in L}
    BY <1>0, <1>3 DEF Lists, Told
  <1>5. CASE pc[r] \in {"wait", "post", "reply"}
    BY <1>0, <1>5, ActionAt DEF SemaphoreWait, SemaphorePost, Reply, locals,
       auctionFiles, Placed, RunsIn, Sections, OpenLabels, Lists, Told, L
  <1>6. CASE pc[r] \in {"MyAuctions", "MyBids"}
    <2>1. out[r] = {} /\ UNCHANGED <<out, end>>
      BY <1>6, ActionAt DEF Lists, MyAuctions, MyBids, listingRest, auctionFiles
    <2>2. \/ pc'[r] = "reply"
          \/ pc'[r] = "post" /\ L = {}
          \/ pc'[r] = "Visit" /\ todo'[r] = L
      BY <1>0, <1>6, ActionAt DEF MyAuctions, MyBids, ListEntries, Escape, Return,
         Goto, Placed, RunsIn, OpenLabels, Listed, L
    <2> QED
      BY <2>1, <2>2
  <1>7. CASE pc[r] = "Visit"
    <2>1. /\ todo[r] \subseteq L /\ UNCHANGED end
          /\ out[r] = {<<b, end[b] = NoFile>> : b \in L \ todo[r]}
      BY <1>7, ActionAt DEF Lists, Told, L, Visit, listingRest, auctionFiles
    <2>2. CASE todo[r] = {}
      <3>1. pc'[r] = "post" /\ UNCHANGED out
        BY <1>7, <2>2, ActionAt, ZenonT(60) DEF Visit, Return
      <3>2. L \ todo[r] = L
        BY <2>2
      <3> QED
        BY <2>1, <3>1, <3>2
    <2>3. CASE todo[r] # {}
      <3>0. PICK b \in todo[r] :
              /\ todo' = [todo EXCEPT ![r] = @ \ {b}]
              /\ \/ /\ end[b] # NoFile
                    /\ out' = [out EXCEPT ![r] = @ \cup {<<b, FALSE>>}]
                    /\ Goto(r, "Visit")
                 \/ Return(r, "AuctionNotFound")
                 \/ /\ target' = [target EXCEPT ![r] = b]
                    /\ Goto(r, "CreateEndFile") /\ UNCHANGED out
                 \/ /\ end[b] = NoFile
                    /\ out' = [out EXCEPT ![r] = @ \cup {<<b, TRUE>>}]
                    /\ Goto(r, "Visit")
        <4>1. Visit(r)
          BY <1>7, ActionAt
        <4> QED
          BY <2>3, <4>1, Zenon DEF Visit, CheckEndExists
      <3>1. /\ todo'[r] = todo[r] \ {b}
            /\ \/ /\ end[b] # NoFile /\ pc'[r] = "Visit"
                  /\ out'[r] = out[r] \cup {<<b, FALSE>>}
               \/ pc'[r] = "post" /\ res'[r] # "LIST"
               \/ /\ pc'[r] = "CreateEndFile" /\ target'[r] = b
                  /\ out'[r] = out[r]
               \/ /\ end[b] = NoFile /\ pc'[r] = "Visit"
                  /\ out'[r] = out[r] \cup {<<b, TRUE>>}
        BY <3>0 DEF Return, Goto
      <3>2. /\ L \ todo'[r] = (L \ todo[r]) \cup {b}
            /\ (L \ todo'[r]) \ {b} = L \ todo[r]
            /\ b \in L \ todo'[r] /\ todo'[r] \subseteq L
        BY <2>1, <3>1
      <3>3. {<<c, end[c] = NoFile>> : c \in L \ todo'[r]}
            = out[r] \cup {<<b, end[b] = NoFile>>}
        BY <2>1, <3>2, ToldMore
      <3>4. CASE pc'[r] = "Visit"
        <4>1. out'[r] = out[r] \cup {<<b, end[b] = NoFile>>}
          <5>1. /\ end[b] # NoFile => (end[b] = NoFile) = FALSE
                /\ end[b] = NoFile => (end[b] = NoFile) = TRUE
            OBVIOUS
          <5> QED
            BY <3>1, <3>4, <5>1
        <4> QED
          BY <2>1, <3>2, <3>3, <3>4, <4>1
      <3>5. CASE pc'[r] = "CreateEndFile"
        <4>1. target'[r] = b /\ out'[r] = out[r]
          BY <3>1, <3>5
        <4>2. (L \ todo'[r]) \ {target'[r]} = L \ todo[r]
          BY <3>2, <4>1
        <4> QED
          BY <2>1, <3>2, <3>5, <4>1, <4>2
      <3> QED
        BY <3>1, <3>4, <3>5
    <2> QED
      BY <2>2, <2>3
  <1>8. CASE pc[r] = "CreateEndFile"
    BY <1>8, ActionAt DEF CreateEndFile, Escape, Goto, Lists, Told, L, sharedRest,
       auctionFiles
  <1>9. CASE pc[r] = "OpenEnd"
    <2>1. /\ todo[r] \subseteq L /\ a \in L \ todo[r]
          /\ out[r] = {<<b, end[b] = NoFile>> : b \in (L \ todo[r]) \ {a}}
          /\ pc'[r] = "WriteEnd" /\ UNCHANGED <<target, todo, out>>
          /\ end' = [end EXCEPT ![a] = Empty]
      BY <1>0, <1>9, ActionAt DEF Lists, Told, L, OpenEnd, Goto, sharedRest
    <2>2. \A b \in (L \ todo[r]) \ {a} : end'[b] = end[b]
      BY <1>3, <2>1
    <2>3. {<<b, end'[b] = NoFile>> : b \in (L \ todo[r]) \ {a}}
          = {<<b, end[b] = NoFile>> : b \in (L \ todo[r]) \ {a}}
      BY <2>2
    <2> QED
      BY <2>1, <2>3
  <1>10. CASE pc[r] = "WriteEnd"
    <2>1. /\ todo[r] \subseteq L /\ a \in L \ todo[r]
          /\ out[r] = {<<b, end[b] = NoFile>> : b \in (L \ todo[r]) \ {a}}
          /\ end' = [end EXCEPT ![a] = stamp[r]] /\ UNCHANGED todo
          /\ pc'[r] = "Visit" /\ out'[r] = out[r] \cup {<<a, FALSE>>}
      <3>1. WriteEnd(r)
        BY <1>10, ActionAt
      <3>2. /\ todo[r] \subseteq L /\ a \in L \ todo[r]
            /\ out[r] = {<<b, end[b] = NoFile>> : b \in (L \ todo[r]) \ {a}}
        BY <1>10 DEF Lists, Told, L
      <3>3. /\ end' = [end EXCEPT ![a] = stamp[r]] /\ AfterClose(r, TRUE)
            /\ UNCHANGED todo
        BY <3>1 DEF WriteEnd, sharedRest
      <3>4. pc'[r] = "Visit" /\ out'[r] = out[r] \cup {<<a, FALSE>>}
        BY <3>3 DEF AfterClose, Goto
      <3> QED
        BY <3>2, <3>3, <3>4
    <2>2. end'[a] # NoFile /\ \A b \in (L \ todo[r]) \ {a} : end'[b] = end[b]
      BY <1>3, <2>1, AbsentAssumption DEF Absent
    <2>3. L \ todo[r] = ((L \ todo[r]) \ {a}) \cup {a}
      BY <2>1
    <2>4. {<<b, end'[b] = NoFile>> : b \in L \ todo[r]}
          = out[r] \cup {<<a, end'[a] = NoFile>>}
      <3> DEFINE S == (L \ todo[r]) \ {a}
      <3>1. {<<b, end'[b] = NoFile>> : b \in S \cup {a}}
            = {<<b, end[b] = NoFile>> : b \in S} \cup {<<a, end'[a] = NoFile>>}
        BY <2>2, ToldMore
      <3> QED
        BY <2>1, <2>3, <3>1
    <2>5. (end'[a] = NoFile) = FALSE
      BY <2>2
    <2> QED
      BY <2>1, <2>4, <2>5
  <1> QED
    BY <1>1, <1>5, <1>6, <1>7, <1>8, <1>9, <1>10

\* SoundInv is inductive on such a disk, without LST.
LEMMA SoundInvariant == ASSUME SoundDisk PROVE Spec => []SoundInv
  <1>1. Init => SoundInv
    BY DEF Init, SoundInv, Closes, Lists, Listed, Told
  <1>2. ASSUME TypeInv, PlaceInv, OpenInv, LockKept, BooksKept, SoundInv, [Next]_vars
        PROVE  SoundInv'
    <2>0. LockInv /\ BookInv /\ MaxFaults = 0
      BY <1>2 DEF BooksKept, SoundDisk
    <2>1. CASE Quiet
      <3> USE <1>2, <2>1 DEF Quiet, Stayed, Entered, Died, auctionFiles, userFiles,
              locals, Closes, Lists, Listed, Told, Aid, Uid, Op
      <3>1. \A r \in Requests : Closes(r)'
        BY DEF SoundInv, OpenInv, Builds, Served, Finished
      <3>2. \A r \in Requests : Lists(r)'
        BY DEF SoundInv, Placed
      <3> QED
        BY <3>1, <3>2 DEF SoundInv
    <2>2. CASE \E r \in Requests : Serve(r)
      <3> PICK r \in Requests : Serve(r)
        BY <2>2
      <3>0. Others(r) /\ pc'[r] # "idle" /\ \A a \in Aids :
                end[a] \notin Absent => end'[a] = end[a]
        BY <1>2, <2>0, StepFacts, BookStep DEF Comes
      <3>1. ASSUME NEW s \in Requests PROVE Closes(s)'
        <4>1. CASE s # r
          BY <1>2, <3>0, <4>1, RequestType DEF Others, SoundInv, Closes, Aid, Op
        <4>2. CASE s = r
          BY <1>2, <2>0, <3>0, <4>2, ClosesStep DEF SoundInv, Others, Closes, Op
        <4> QED
          BY <4>1, <4>2
      <3>2. ASSUME NEW s \in Requests PROVE Lists(s)'
        <4>1. CASE s # r
          <5>1. pc[s] \in CriticalLabels => UNCHANGED <<hosted, bidded, end>>
            BY <1>2, <2>0, <4>1, AloneInside DEF userFiles, auctionFiles
          <5>2. Lists(s) /\ pc'[s] = pc[s] /\ res'[s] = res[s] /\ UNCHANGED req
                /\ target'[s] = target[s] /\ todo'[s] = todo[s] /\ out'[s] = out[s]
            BY <1>2, <3>0, <4>1 DEF Others, SoundInv
          <5>3. CASE pc[s] \in CriticalLabels
            BY <5>1, <5>2, <5>3 DEF Lists, Listed, Told, Uid, Op
          <5>4. CASE pc[s] \notin CriticalLabels
            BY <5>2, <5>4 DEF Lists, CriticalLabels, Op
          <5> QED
            BY <5>3, <5>4
        <4>2. CASE s = r
          BY <1>2, <2>0, <3>0, <4>2, ListsStep DEF SoundInv, Others, Lists, Op
        <4> QED
          BY <4>1, <4>2
      <3> QED
        BY <3>1, <3>2 DEF SoundInv
    <2> QED
      BY <1>2, <2>1, <2>2, StepKinds
  <1>3. NoListRequest
    BY DEF SoundDisk
  <1> QED
    BY <1>1, <1>2, <1>3, NoListKeepsLock, TypeInvariant, PlaceInvariant,
       OpenInvariant, BooksInvariant, PTL DEF Spec

\* A close that is answered OK has ended the auction, wherever other processes
\* die: the answer says nothing that the END file does not.
THEOREM ClosesEnd == ASSUME SoundDisk PROVE Spec => []ClosedAuctionsEnded
  <1>1. SoundInv => ClosedAuctionsEnded
    BY DEF SoundInv, Closes, ClosedAuctionsEnded
  <1> QED
    BY <1>1, SoundInvariant, PTL

\* What LMA and LMB list are all auctions of the user, each with the flag that
\* its END file calls for, although the listing makes END files as it goes.
THEOREM ListingsTell == ASSUME SoundDisk PROVE Spec => []ListingsTrue
  <1>1. SoundInv => ListingsTrue
    BY DEF SoundInv, Lists, Listed, Told, ListingsTrue
  <1> QED
    BY <1>1, SoundInvariant, PTL

-----------------------------------------------------------------------------
(* While nobody dies either: what the invariants say together              *)

\* Who is logged in has all of his directories.
LEMMA LoggedInDirs == ASSUME BeforeCalm, NEW u \in login PROVE userDir[u] = 3
  BY AbsentAssumption DEF BeforeCalm, Before, TypeInv, TypeOK, FilesTypeOK, AccountInv,
     LoggedInHasPassword, CalmInv, DirInv, Absent

\* Inside the lock nobody else is seen at work: only one process is there.
LEMMA OneInside ==
    ASSUME BeforeCalm, NEW r \in Requests, NEW s \in Requests,
           pc[r] \in CriticalLabels, pc[s] \in CriticalLabels
    PROVE  r = s
  BY DEF BeforeCalm, Before, LockKept, LockInv, MutualExclusion, InCS, CriticalLabels

\* A process inside the lock, other than Open's, finds complete auctions and
\* no bid or END file but its own that is empty.
LEMMA InsideWhole ==
    ASSUME BeforeCalm, NEW r \in Requests, pc[r] \in CriticalLabels, NEW a \in Aids
    PROVE  /\ pc[r] \notin MakingLabels => Whole(a) \/ Bare(a)
           /\ pc[r] # "WriteEnd" => end[a] # Empty
           /\ pc[r] # "WriteBid" => \A v \in Values : bids[a][v] # Empty
  <1>1. MakingLabels \cup {"WriteEnd", "WriteBid"} \subseteq CriticalLabels
    BY DEF MakingLabels, OpenLabels, CriticalLabels
  <1>2. pc[r] \notin MakingLabels => Whole(a) \/ Bare(a)
    BY <1>1, OneInside DEF BeforeCalm, Before, CalmInv, Settled, InTheMaking
  <1>3. /\ pc[r] # "WriteEnd" => end[a] # Empty
        /\ pc[r] # "WriteBid" => \A v \in Values : bids[a][v] # Empty
    BY <1>1, OneInside DEF BeforeCalm, Before, CalmInv, FilesWritten
  <1> QED
    BY <1>2, <1>3

-----------------------------------------------------------------------------
(* While nobody dies either: what a step of a process does                 *)

\* What the steps below need of every step of a process.
LEMMA CalmBasics ==
    ASSUME MaxFaults = 0, BeforeCalm, [Next]_vars, NEW r \in Requests, Serve(r)
    PROVE  /\ Others(r) /\ Writes(r) /\ Comes(r) /\ ~Fail
           /\ Placed(Op(r), pc[r], cont[r])
           /\ Uid(r) \in Users /\ Aid(r) \in Aids /\ req[r].value \in Values
           /\ Uid(r)' = Uid(r) /\ Aid(r)' = Aid(r) /\ Op(r)' = Op(r)
           /\ Opening(r) /\ Bidder(r) /\ Builds(r) /\ Bidding(r) /\ Ending(r)
           /\ Starting(r) /\ Answered(r)
           /\ \A a \in Aids : GetStart(a) => start'[a] = start[a]
           /\ \A u \in Users : hosted[u] \subseteq hosted'[u]
  <1>1. ~Fail
    BY NothingFails DEF BeforeCalm, Before
  <1>2. Starting(r) /\ Answered(r)
    BY DEF BeforeCalm, CalmInv
  <1> QED
    BY <1>1, <1>2, StepBasics DEF BeforeCalm

\* A user's directories are made before his password, all three in one go.
LEMMA DirStep ==
    ASSUME MaxFaults = 0, BeforeCalm, NEW r \in Requests, Serve(r) PROVE DirInv'
  <1> DEFINE u == Uid(r)
  <1>0. /\ Others(r) /\ Writes(r) /\ Comes(r) /\ ~Fail /\ u \in Users
        /\ req[r].pw \in Passwords /\ Uid(r)' = u /\ DirInv
    BY StepFacts, NothingFails, RequestType DEF BeforeCalm, Before, CalmInv, Others, Uid
  <1> USE DEF TypeInv, TypeOK, FilesTypeOK, ProcessTypeOK
  <1>1. ASSUME NEW s \in Requests \ {r},
               pc[s] \in {"CreateUserDir", "CreatePassword", "WritePassword"}
        PROVE  UNCHANGED <<userDir, pass>>
    BY <1>1, AloneInside DEF BeforeCalm, Before, userFiles, CriticalLabels
  <1>2. ASSUME LoginUser(r), userDir[u] > 0 PROVE userDir[u] = 3
    <2>1. \A s \in Requests : pc[s] # "CreateUserDir"
      BY <1>2, OneInside DEF LoginUser, CriticalLabels
    <2> QED
      BY <1>0, <1>2, <2>1 DEF DirInv
  <1>4. pc'[r] = "CreatePassword" => userDir'[u] = 3
    <2>1. ASSUME LoginUser(r), pc'[r] = "CreatePassword" PROVE userDir'[u] = 3
      BY <1>0, <1>2, <2>1 DEF LoginUser, Goto, Return, CheckUserExisted, BeforeCalm, Before
    <2>2. ASSUME CreateUserDir(r), pc'[r] = "CreatePassword"
          PROVE  userDir'[u] = 3
      BY <1>0, <2>2 DEF CreateUserDir, Goto, BeforeCalm, Before
    <2> QED
      BY <1>0, <2>1, <2>2 DEF Comes
  <1>5. pc'[r] = "WritePassword" => userDir'[u] = 3
    BY <1>0 DEF Comes, CreatePassword, DirInv, BeforeCalm, Before
  <1>6. ASSUME NEW w \in Users
        PROVE  \/ userDir'[w] \in {0, 3}
               \/ \E s \in Requests : pc'[s] = "CreateUserDir" /\ Uid(s)' = w
    <2>1. CASE CreateUserDir(r)
      <3>1. userDir' = [userDir EXCEPT ![u] = @ + 1] /\ userDir[u] < 3
            /\ pc'[r] = IF userDir[u] = 2 THEN "CreatePassword" ELSE "CreateUserDir"
        BY <1>0, <2>1 DEF CreateUserDir, Goto, BeforeCalm, Before
      <3>2. CASE w = u
        BY <1>0, <3>1, <3>2 DEF BeforeCalm, Before
      <3>3. CASE w # u
        <4>1. \A s \in Requests : pc[s] = "CreateUserDir" => s = r
          BY <2>1, OneInside DEF CreateUserDir, CriticalLabels
        <4> QED
          BY <1>0, <3>1, <3>3, <4>1 DEF DirInv, BeforeCalm, Before
      <3> QED
        BY <3>2, <3>3
    <2>2. CASE ~CreateUserDir(r)
      <3>1. UNCHANGED userDir /\ pc[r] # "CreateUserDir"
        BY <1>0, <2>2, ActionAt DEF Writes
      <3> QED
        BY <1>0, <3>1 DEF DirInv, Others, Uid
    <2> QED
      BY <2>1, <2>2
  <1>7. ASSUME NEW w \in Users, pass'[w] # NoFile PROVE userDir'[w] = 3
    <2>1. CASE pass'[w] = pass[w]
      BY <1>0, <1>7, <2>1 DEF DirInv, Writes, CreateUserDir, BeforeCalm, Before
    <2>2. CASE pass'[w] # pass[w]
      BY <1>0, <1>7, <2>2 DEF Writes, CreatePassword, WritePassword, ErasePassword,
         DirInv, otherFiles, BeforeCalm, Before
    <2> QED
      BY <2>1, <2>2
  <1>8. ASSUME NEW s \in Requests
        PROVE  pc'[s] \in {"CreatePassword", "WritePassword"} =>
                   userDir'[Uid(s)'] = 3
    <2>1. CASE s = r
      BY <1>0, <1>4, <1>5, <2>1
    <2>2. CASE s # r
      BY <1>0, <1>1, <2>2 DEF Others, DirInv, Uid
    <2> QED
      BY <2>1, <2>2
  <1> QED
    BY <1>6, <1>7, <1>8 DEF DirInv

\* Open goes through to the end, and leaves its auction complete; an OPA for
\* no time leaves the directory.
LEMMA SettledStep ==
    ASSUME MaxFaults = 0, BeforeCalm, [Next]_vars, NEW r \in Requests, Serve(r)
    PROVE  Settled'
  <1> DEFINE t == target[r]
  <1>0. /\ Others(r) /\ Writes(r) /\ Comes(r) /\ ~Fail /\ Uid(r) \in Users
        /\ Opening(r) /\ Starting(r) /\ Builds(r)
        /\ Placed(Op(r), pc[r], cont[r])
        /\ \A a \in Aids : GetStart(a) => start'[a] = start[a]
        /\ \A u \in Users : hosted[u] \subseteq hosted'[u]
    BY CalmBasics
  <1> USE DEF BeforeCalm, Before, TypeInv, TypeOK, FilesTypeOK, ProcessTypeOK
  <1>1. pc[r] \in OpenLabels => t \in Aids
    BY DEF LocalsOK, TargetLabels, OpenLabels
  <1>2. CASE pc[r] \in OpenLabels /\ pc'[r] \in MakingLabels
    <2>1. target'[r] = t
      BY <1>0, <1>2 DEF Writes, Open, CloseAuction, Bid, Visit, ShowRecord, OpenLabels
    <2>2. \A a \in Aids : a # t => UNCHANGED <<start[a], asset[a], auctionDir[a]>>
      BY OthersKeepAuction
    <2>3. ASSUME NEW a \in Aids PROVE (Whole(a) \/ Bare(a) \/ InTheMaking(a))'
      <3>1. CASE a = t
        BY <1>2, <2>1, <3>1 DEF InTheMaking
      <3>2. CASE a # t
        <4>1. Whole(a) => Whole(a)'
          BY <1>0, <2>2, <3>2 DEF Whole, GetStart, StartInfo
        <4>2. Bare(a) => Bare(a)'
          BY <2>2, <3>2 DEF Bare
        <4>3. InTheMaking(a) => InTheMaking(a)'
          BY <1>0, <3>2 DEF InTheMaking, Others
        <4> QED
          BY <4>1, <4>2, <4>3 DEF CalmInv, Settled
      <3> QED
        BY <3>1, <3>2
    <2> QED
      BY <2>3 DEF Settled
  <1>3. CASE pc[r] \in OpenLabels /\ pc'[r] \notin MakingLabels
    <2>1. \/ CreateAuctionDir(r) /\ UNCHANGED auctionFiles
          \/ CreateStartFile(r) /\ req[r].time = 0 /\ UNCHANGED auctionFiles
          \/ RegisterHost(r)
      <3>1. CreateAuctionDir(r) \/ CreateSubDirs(r) \/ CreateStartFile(r)
            \/ WriteStart(r) \/ CreateAssetFile(r) \/ WriteAsset(r)
            \/ RegisterHost(r)
        BY <1>3, ActionAt DEF OpenLabels
      <3> QED
        BY <1>0, <1>3, <3>1 DEF CreateAuctionDir, CreateSubDirs, CreateStartFile,
           WriteStart, CreateAssetFile, WriteAsset, RegisterHost, OpenFails, Goto,
           Return, MakingLabels, OpenLabels, auctionFiles
    <2>2. UNCHANGED <<start, asset, auctionDir>>
      BY <2>1 DEF RegisterHost, auctionFiles
    <2>3. ASSUME NEW a \in Aids, pc[r] \in MakingLabels => a # t
          PROVE  (Whole(a) \/ Bare(a) \/ InTheMaking(a))'
      <3>1. Whole(a) => Whole(a)'
        BY <1>0, <2>2 DEF Whole, StartInfo
      <3>2. Bare(a) => Bare(a)'
        BY <2>2 DEF Bare
      <3>3. InTheMaking(a) => InTheMaking(a)'
        BY <1>0, <2>3 DEF InTheMaking, Others
      <3> QED
        BY <3>1, <3>2, <3>3 DEF CalmInv, Settled
    <2>4. CASE CreateAuctionDir(r)
      BY <2>3, <2>4 DEF CreateAuctionDir, MakingLabels, Settled
    <2>5. CASE CreateStartFile(r) /\ req[r].time = 0
      <3>1. start[t] = NoFile /\ asset[t] = "none" /\ t \in Aids
        BY <1>0, <1>1, <2>5 DEF Builds, Starting, CreateStartFile, OpenLabels
      <3>2. ~TimesGiven
        BY <1>0, <2>5 DEF TimesGiven, CreateStartFile, Placed, RunsIn, OpenLabels, Op
      <3>3. ASSUME NEW a \in Aids, a = t PROVE Bare(a)'
        BY <2>2, <3>1, <3>2, <3>3 DEF Bare, TimesGiven
      <3> QED
        BY <2>3, <3>3 DEF Settled
    <2>6. CASE RegisterHost(r)
      <3>1. /\ start[t] \notin Absent /\ start[t].host = Uid(r)
            /\ asset[t] = "whole" /\ Uid(r) \in login
        BY <1>0, <2>6 DEF Builds, Started, Opening, RegisterHost, OpenLabels
      <3>2. hosted' = [hosted EXCEPT ![Uid(r)] = @ \cup {t}]
        BY <1>0, <2>6, <3>1, LoggedInDirs DEF RegisterHost, OpenFails
      <3>3. ASSUME NEW a \in Aids, a = t PROVE Whole(a)'
        BY <1>0, <2>2, <3>1, <3>2, <3>3 DEF Whole
      <3> QED
        BY <2>3, <3>3 DEF Settled
    <2> QED
      BY <2>1, <2>4, <2>5, <2>6
  <1>4. CASE pc[r] \notin OpenLabels
    <2>1. UNCHANGED <<start, asset, auctionDir>>
      BY <1>0, <1>4 DEF Writes, CreateStartFile, WriteStart, CreateAssetFile,
         WriteAsset, CreateAuctionDir, CreateSubDirs, OpenLabels
    <2>2. \A a \in Aids : InTheMaking(a) => InTheMaking(a)'
      BY <1>0, <1>4 DEF InTheMaking, MakingLabels, Others
    <2> QED
      BY <1>0, <2>1, <2>2 DEF CalmInv, Settled, Whole, Bare, StartInfo
  <1> QED
    BY <1>2, <1>3, <1>4

\* Open makes the START file of an auction that has no asset.
LEMMA StartingStep ==
    ASSUME MaxFaults = 0, BeforeCalm, [Next]_vars, NEW r \in Requests, Serve(r)
    PROVE  Starting(r)'
  <1> DEFINE t == target[r]
  <1>0. /\ Comes(r) /\ Starting(r) /\ ~Fail
    BY CalmBasics
  <1> USE DEF BeforeCalm, Before, TypeInv, TypeOK, FilesTypeOK, ProcessTypeOK
  <1>1. ASSUME CreateAuctionDir(r), pc'[r] = "CreateSubDirs"
        PROVE  asset'[target'[r]] = "none"
    <2>1. /\ auctionDir[t] = 0 /\ t \in Aids /\ pc[r] = "CreateAuctionDir"
          /\ UNCHANGED <<asset, target>>
      BY <1>1 DEF CreateAuctionDir, Return, OpenFails, LocalsOK, TargetLabels,
         OpenLabels, sharedRest, locals
    <2>2. ~Whole(t)
      BY <2>1 DEF Whole, OpenInv, Absent
    <2>3. Bare(t)
      BY <2>1, <2>2, InsideWhole DEF MakingLabels, CriticalLabels
    <2> QED
      BY <2>1, <2>3 DEF Bare
  <1>2. ASSUME CreateSubDirs(r) PROVE asset'[target'[r]] = "none"
    BY <1>0, <1>2 DEF CreateSubDirs, Starting, sharedRest, locals
  <1> QED
    BY <1>0, <1>1, <1>2 DEF Comes, Starting

\* An END or bid file that was made is written by the next step of its process.
LEMMA FilesStep ==
    ASSUME MaxFaults = 0, BeforeCalm, [Next]_vars, NEW r \in Requests, Serve(r)
    PROVE  FilesWritten'
  <1>0. /\ Others(r) /\ Writes(r) /\ ~Fail
        /\ Aid(r) \in Aids /\ req[r].value \in Values
        /\ UNCHANGED req /\ FilesWritten
    BY CalmBasics DEF Others, BeforeCalm, Before, CalmInv
  <1>1. \A a \in Aids, v \in Values : bids'[a][v] # bids[a][v] =>
            /\ a = Aid(r) /\ v = req[r].value
            /\ pc[r] \in {"CreateBidFile", "WriteBid"}
    BY BidWrites DEF BeforeCalm, Before
  <1> USE DEF BeforeCalm, Before, TypeInv, TypeOK, FilesTypeOK, ProcessTypeOK
  <1>2. ASSUME NEW a \in Aids, end'[a] = Empty
        PROVE  \E s \in Requests : pc'[s] = "WriteEnd" /\ target'[s] = a
    <2>1. CASE end'[a] = end[a]
      <3>1. PICK s \in Requests : pc[s] = "WriteEnd" /\ target[s] = a
        BY <1>0, <1>2, <2>1 DEF FilesWritten
      <3>2. s # r
        <4>1. ASSUME WriteEnd(r), target[r] = a PROVE FALSE
          BY <1>2, <4>1, AbsentAssumption DEF WriteEnd, Absent
        <4> QED
          BY <3>1, <4>1, ActionAt
      <3> QED
        BY <1>0, <3>1, <3>2 DEF Others
    <2>2. CASE end'[a] # end[a]
      <3>1. a = target[r] /\ (OpenEnd(r) \/ WriteEnd(r))
        BY <1>0, <2>2, EndWrites DEF Writes
      <3>2. ~WriteEnd(r)
        BY <1>2, <3>1, AbsentAssumption DEF WriteEnd, Absent
      <3> QED
        BY <1>0, <3>1, <3>2 DEF OpenEnd, Goto
    <2> QED
      BY <2>1, <2>2
  <1>3. ASSUME NEW a \in Aids, NEW v \in Values, bids'[a][v] = Empty
        PROVE  \E s \in Requests : /\ pc'[s] = "WriteBid"
                                   /\ Aid(s)' = a /\ req'[s].value = v
    <2>0. ASSUME WriteBid(r), a = Aid(r), v = req[r].value PROVE FALSE
      <3>1. bids'[a][v] = [user |-> Uid(r), at |-> stamp[r]]
        BY <1>0, <2>0 DEF WriteBid
      <3>2. bids'[a][v] \in BidInfo
        BY <3>1, RequestType DEF BidInfo
      <3> QED
        BY <1>3, <3>2, AbsentAssumption DEF Absent
    <2>1. CASE bids'[a][v] = bids[a][v]
      <3>1. PICK s \in Requests : /\ pc[s] = "WriteBid"
                                 /\ Aid(s) = a /\ req[s].value = v
        BY <1>0, <1>3, <2>1 DEF FilesWritten
      <3>2. s # r
        BY <2>0, <3>1, ActionAt
      <3> QED
        BY <1>0, <3>1, <3>2 DEF Others, Aid
    <2>2. CASE bids'[a][v] # bids[a][v]
      <3>1. /\ a = Aid(r) /\ v = req[r].value
            /\ pc[r] \in {"CreateBidFile", "WriteBid"}
        BY <1>1, <1>3, <2>2
      <3>2. CreateBidFile(r)
        BY <2>0, <3>1, ActionAt
      <3>3. pc'[r] = "WriteBid"
        BY <1>0, <2>2, <3>2 DEF CreateBidFile, Goto
      <3> QED
        BY <1>0, <3>1, <3>3 DEF Aid
    <2> QED
      BY <2>1, <2>2
  <1> QED
    BY <1>2, <1>3 DEF FilesWritten

\* The bid that is written is on a complete auction of somebody else.
LEMMA SelfBidStep ==
    ASSUME MaxFaults = 0, BeforeCalm, [Next]_vars, NEW r \in Requests, Serve(r)
    PROVE  NoSelfBid'
  <1>0. /\ Bidder(r) /\ Bidding(r) /\ Uid(r) \in Users /\ Aid(r) \in Aids
        /\ \A a \in Aids : GetStart(a) => start'[a] = start[a]
    BY CalmBasics
  <1>1. ASSUME NEW a \in Aids, NEW v \in Values, Written(a, v)'
        PROVE  GetStart(a) /\ bids'[a][v].user # start[a].host
    <2>1. CASE bids'[a][v] = bids[a][v]
      BY <1>1, <2>1 DEF BeforeCalm, Before, CalmInv, NoSelfBid, Written, GetStart
    <2>2. CASE bids'[a][v] # bids[a][v]
      <3>1. /\ a = Aid(r) /\ pc[r] \in {"CreateBidFile", "WriteBid"}
            /\ pc[r] = "CreateBidFile" => bids'[a][v] = Empty
            /\ pc[r] = "WriteBid" =>
                   bids'[a][v] = [user |-> Uid(r), at |-> stamp[r]]
        BY <2>2, BidWrites DEF BeforeCalm, Before
      <3>2. pc[r] = "WriteBid"
        BY <1>1, <3>1 DEF Written, Absent
      <3>3. bids'[a][v].user = Uid(r)
        BY <3>1, <3>2
      <3>4. GetStart(a) /\ a \notin hosted[Uid(r)]
        BY <1>0, <3>1, <3>2 DEF Bidder, Bidding
      <3>5. Whole(a)
        BY <3>2, <3>4, InsideWhole DEF Bare, GetStart, Absent, MakingLabels,
           OpenLabels, CriticalLabels
      <3> QED
        BY <3>3, <3>4, <3>5 DEF Whole
    <2> QED
      BY <2>1, <2>2
  <1> QED
    BY <1>0, <1>1 DEF NoSelfBid, GetStart

\* Only BID is answered ACC, and only for the results ACCEPT and REFUSE.
LEMMA AcceptsBids ==
    ASSUME TypeInv, NEW r \in Requests, "ACC" \in PossibleReplies(r)
    PROVE  res[r] \in {"ACCEPT", "REFUSE"}
  <1>1. Op(r) \in UdpOps \cup TcpOps
    BY RequestType
  <1>2. /\ res[r] \in DOMAIN ReplyTable[Op(r)]
        /\ ReplyTable[Op(r)][res[r]] = "ACC"
    BY DEF PossibleReplies, UninitialisedClose, ListingStatus
  <1>3. CASE Op(r) \in {"LIN", "LOU", "UNR", "OPA"}
    BY <1>2, <1>3 DEF ReplyTable, LoginReply, LogoutReply, UnregisterReply, OpenReply
  <1>4. CASE Op(r) \in {"LMA", "LMB", "LST", "SAS"}
    BY <1>2, <1>4 DEF ReplyTable, ListReply, AssetReply
  <1>5. CASE Op(r) = "SRC"
    BY <1>2, <1>5 DEF ReplyTable, RecordReply
  <1>6. CASE Op(r) = "CLS"
    BY <1>2, <1>6 DEF ReplyTable, CloseReply
  <1>7. CASE Op(r) = "BID"
    BY <1>2, <1>7 DEF ReplyTable, BidReply
  <1> QED
    BY <1>1, <1>3, <1>4, <1>5, <1>6, <1>7 DEF UdpOps, TcpOps

\* Only ACCEPT is answered ACC, and what a reader opens is complete.
LEMMA AnsweredStep ==
    ASSUME MaxFaults = 0, BeforeCalm, [Next]_vars, NEW r \in Requests, Serve(r)
    PROVE  Answered(r)'
  <1>0. /\ Others(r) /\ Writes(r) /\ Comes(r) /\ ~Fail
        /\ Uid(r) \in Users /\ Aid(r) \in Aids /\ req[r].value \in Values
        /\ Uid(r)' = Uid(r) /\ Aid(r)' = Aid(r) /\ Op(r)' = Op(r)
        /\ UNCHANGED req /\ Answered(r) /\ Bidder(r) /\ Builds(r)
        /\ Placed(Op(r), pc[r], cont[r])
    BY CalmBasics DEF Others
  <1>2. \A a \in Aids : pc[r] \in CriticalLabels =>
            /\ pc[r] \notin MakingLabels => Whole(a) \/ Bare(a)
            /\ pc[r] # "WriteEnd" => end[a] # Empty
            /\ pc[r] # "WriteBid" => ~BidsTorn(a)
    BY InsideWhole DEF BidsTorn, BidValues, BeforeCalm, Before, TypeInv, TypeOK, FilesTypeOK
  <1> USE DEF BeforeCalm, Before, TypeInv, TypeOK, FilesTypeOK, ProcessTypeOK
  <1>4. res'[r] # "REFUSE"
    <2>1. ASSUME RegisterBid(r) PROVE res'[r] # "REFUSE"
      <3>1. userDir[Uid(r)] = 3
        BY <1>0, <2>1, LoggedInDirs DEF Bidder, RegisterBid
      <3> QED
        BY <1>0, <2>1, <3>1 DEF RegisterBid, Goto, Answered
    <2>2. ASSUME CreateBidFile(r) PROVE res'[r] # "REFUSE"
      BY <1>0, <2>2 DEF CreateBidFile, Goto, Escape, Answered
    <2> QED
      BY <1>0, <2>1, <2>2 DEF Comes, Answered
  <1>5. reply'[r] = "ACC" => res'[r] = "ACCEPT"
    <2>1. CASE UNCHANGED reply
      BY <1>0, <2>1 DEF Builds, Comes, Served, Finished
    <2>2. CASE Reply(r)
      <3>1. reply'[r] \in PossibleReplies(r) /\ UNCHANGED res
        BY <2>2 DEF Reply
      <3>2. ASSUME "ACC" \in PossibleReplies(r) PROVE res[r] \in {"ACCEPT", "REFUSE"}
        BY <3>2, AcceptsBids
      <3> QED
        BY <1>0, <3>1, <3>2 DEF Answered
    <2> QED
      BY <1>0, <2>1, <2>2 DEF Writes
  <1>6. pc'[r] = "ReadRecord" => end'[target'[r]] # NoFile
    <2>1. ASSUME ShowRecord(r), pc'[r] = "ReadRecord" PROVE end'[target'[r]] # NoFile
      BY <1>0, <2>1 DEF ShowRecord, Return, Goto, CheckEndExists, listingRest,
         auctionFiles
    <2>2. ASSUME OpenEnd(r), pc'[r] = "ReadRecord" PROVE FALSE
      BY <1>0, <2>2 DEF OpenEnd, Goto
    <2>3. ASSUME WriteEnd(r), pc'[r] = "ReadRecord" PROVE end'[target'[r]] # NoFile
      BY <2>3, AbsentAssumption DEF WriteEnd, LocalsOK, TargetLabels, Absent
    <2> QED
      BY <1>0, <2>1, <2>2, <2>3 DEF Comes
  <1>7. "ShowAsset" \in {pc'[r], cont'[r]} => asset'[Aid(r)] # "none"
    <2>1. asset[Aid(r)] # "none" => asset'[Aid(r)] # "none"
      BY <1>0 DEF Writes, CreateAssetFile, WriteAsset
    <2>2. "ShowAsset" \in {pc'[r], cont'[r]} =>
              "ShowAsset" \in {pc[r], cont[r]} \/ GetAssetDir(r)
      BY <1>0 DEF Comes, SemaphoreWait
    <2>3. ASSUME GetAssetDir(r), "ShowAsset" \in {pc'[r], cont'[r]}
          PROVE  asset[Aid(r)] # "none"
      BY <1>0, <2>3 DEF GetAssetDir, Escape, Answered
    <2> QED
      BY <1>0, <2>1, <2>2, <2>3 DEF Answered
  <1>8. res'[r] # "TORN"
    <2>1. ASSUME ShowRecord(r) PROVE res'[r] # "TORN"
      BY <1>0, <1>2, <2>1 DEF ShowRecord, Return, Goto, Answered, CriticalLabels
    <2>2. ASSUME ReadRecord(r) PROVE res'[r] # "TORN"
      BY <1>0, <1>2, <2>2 DEF ReadRecord, Return, Answered, CriticalLabels,
         LocalsOK, TargetLabels, Absent
    <2>3. ASSUME ShowAsset(r) PROVE res'[r] # "TORN"
      <3>1. Whole(Aid(r)) \/ Bare(Aid(r))
        BY <1>0, <1>2, <2>3 DEF ShowAsset, CriticalLabels, MakingLabels, OpenLabels
      <3> QED
        BY <1>0, <2>3, <3>1 DEF ShowAsset, Return, Answered, Whole, Bare
    <2> QED
      BY <1>0, <2>1, <2>2, <2>3 DEF Comes, Answered
  <1> QED
    BY <1>0, <1>4, <1>5, <1>6, <1>7, <1>8 DEF Answered

\* What the other processes have found stays so: they are outside the lock,
\* or nothing changes, and no asset that was made goes away.
LEMMA CalmOthers ==
    ASSUME MaxFaults = 0, BeforeCalm, [Next]_vars, NEW r \in Requests, Serve(r),
           NEW s \in Requests \ {r}
    PROVE  Starting(s)' /\ Answered(s)'
  <1>0. Starting(s) /\ Answered(s) /\ Aid(s) \in Aids
    BY RequestType DEF BeforeCalm, Before, CalmInv
  <1>1. /\ pc'[s] = pc[s] /\ cont'[s] = cont[s] /\ res'[s] = res[s]
        /\ reply'[s] = reply[s] /\ target'[s] = target[s] /\ Aid(s)' = Aid(s)
    BY CalmBasics DEF Others, Aid
  <1>2. pc[s] \in CriticalLabels => UNCHANGED <<asset, end>>
    BY AloneInside DEF auctionFiles, BeforeCalm, Before
  <1>3. asset[Aid(s)] # "none" => asset'[Aid(s)] # "none"
    BY <1>0, CalmBasics DEF Writes, CreateAssetFile, WriteAsset, BeforeCalm, Before,
       TypeInv, TypeOK, FilesTypeOK
  <1>4. Starting(s)'
    BY <1>0, <1>1, <1>2 DEF Starting, CriticalLabels
  <1>5. Answered(s)'
    BY <1>0, <1>1, <1>2, <1>3 DEF Answered, CriticalLabels
  <1> QED
    BY <1>4, <1>5

\* While nobody dies a request that arrives, and time, keep the invariants.
LEMMA CalmQuiet ==
    ASSUME MaxCrashes = 0, BeforeCalm, Quiet PROVE CalmInv'
  <1>0. /\ \A r \in Requests : Stayed(r) \/ Entered(r)
        /\ UNCHANGED <<userDir, pass, login, hosted, auctionDir, start, asset, bids,
                       end, res, reply, target>>
    BY DEF BeforeCalm, Before, TypeInv, TypeOK, ProcessTypeOK, Quiet, Died,
       userFiles, auctionFiles, locals
  <1>1. \A r \in Requests :
            \/ pc'[r] = pc[r] /\ cont'[r] = cont[r] /\ req'[r] = req[r]
            \/ /\ pc[r] = "idle" /\ pc'[r] \in {"List", "GetAssetDir", "wait"}
               /\ cont'[r] # "ShowAsset" /\ res[r] = "none" /\ reply[r] = "none"
    BY <1>0 DEF Stayed, Entered, BeforeCalm, Before, OpenInv, Builds
  <1>2. DirInv'
    BY <1>0, <1>1 DEF BeforeCalm, CalmInv, DirInv, Uid
  <1>3. Settled' /\ NoSelfBid'
    <2>1. \A a \in Aids : InTheMaking(a) => InTheMaking(a)'
      BY <1>0, <1>1 DEF InTheMaking, MakingLabels, OpenLabels
    <2> QED
      BY <1>0, <2>1 DEF BeforeCalm, CalmInv, Settled, Whole, Bare, NoSelfBid, Written
  <1>4. FilesWritten'
    BY <1>0, <1>1 DEF BeforeCalm, CalmInv, FilesWritten, Aid
  <1>5. ASSUME NEW r \in Requests PROVE Starting(r)' /\ Answered(r)'
    BY <1>0, <1>1 DEF BeforeCalm, CalmInv, Starting, Answered, Aid
  <1> QED
    BY <1>2, <1>3, <1>4, <1>5 DEF CalmInv

\* CalmInv holds when the server starts.
LEMMA CalmAtFirst == Init => CalmInv
  <1> SUFFICES ASSUME Init PROVE CalmInv
    OBVIOUS
  <1> USE DEF Init
  <1>1. \A r \in Requests : /\ pc[r] = "idle" /\ cont[r] = "none"
                            /\ res[r] = "none" /\ reply[r] = "none"
    OBVIOUS
  <1>2. \A a \in Aids : end[a] = NoFile /\ \A v \in Values : bids[a][v] = NoFile
    OBVIOUS
  <1>3. DirInv
    BY <1>1, InitAssumption DEF DirInv, Known
  <1>4. \A a \in Aids : start[a] # NoFile => start[a] \notin Absent
                                          /\ start[a].host \in Users
    BY InitAssumption, AbsentAssumption DEF StartInfo, Absent
  <1>5. Settled
    BY <1>4 DEF Settled, Whole, Bare
  <1>6. FilesWritten /\ NoSelfBid
    BY <1>2, AbsentAssumption DEF FilesWritten, NoSelfBid, Written, Absent
  <1>7. \A r \in Requests : Starting(r) /\ Answered(r)
    BY <1>1 DEF Starting, Answered
  <1> QED
    BY <1>3, <1>5, <1>6, <1>7 DEF CalmInv

\* CalmInv is inductive.
LEMMA CalmInvariant == ASSUME Calm PROVE Spec => []CalmInv
  <1>0. MaxFaults = 0 /\ MaxCrashes = 0 /\ NoListRequest
    BY DEF Calm, SoundDisk
  <1>1. ASSUME Before, CalmInv, [Next]_vars PROVE CalmInv'
    <2>1. BeforeCalm
      BY <1>1 DEF BeforeCalm
    <2>2. CASE Quiet
      BY <1>0, <2>1, <2>2, CalmQuiet
    <2>3. ASSUME NEW r \in Requests, Serve(r) PROVE CalmInv'
      <3>1. DirInv' /\ Settled' /\ FilesWritten' /\ NoSelfBid'
        BY <1>0, <1>1, <2>1, <2>3, DirStep, SettledStep, FilesStep, SelfBidStep
      <3>2. Starting(r)' /\ Answered(r)'
        BY <1>0, <1>1, <2>1, <2>3, StartingStep, AnsweredStep
      <3>3. \A s \in Requests \ {r} : Starting(s)' /\ Answered(s)'
        BY <1>0, <1>1, <2>1, <2>3, CalmOthers
      <3> QED
        BY <3>1, <3>2, <3>3 DEF CalmInv
    <2> QED
      BY <1>1, <2>2, <2>3, StepKinds DEF Before
  <1> QED
    BY <1>0, <1>1, CalmAtFirst, BeforeInvariant, PTL DEF Spec

\* All of the invariants together hold in every reachable state.
LEMMA CalmBeforeInvariant == ASSUME Calm PROVE Spec => []BeforeCalm
  <1>1. NoListRequest
    BY DEF Calm, SoundDisk
  <1> QED
    BY <1>1, BeforeInvariant, CalmInvariant, PTL DEF BeforeCalm

\* Nobody ever bids on an auction of his own.
THEOREM NobodyBidsOnOwn == ASSUME Calm PROVE Spec => []NoSelfBid
  <1>1. CalmInv => NoSelfBid
    BY DEF CalmInv
  <1> QED
    BY <1>1, CalmInvariant, PTL

\* A bid that was answered ACC is recorded, under the name of who sent it.
THEOREM AcceptedStand == ASSUME Calm PROVE Spec => []AcceptedBidsStand
  <1>1. BeforeCalm => AcceptedBidsStand
    BY DEF BeforeCalm, Before, HouseInv, Recorded, CalmInv, Answered, AcceptedBidsStand
  <1> QED
    BY <1>1, CalmBeforeInvariant, PTL

\* No request is shown a file that is still being written.
THEOREM NothingReadTorn == ASSUME Calm PROVE Spec => []NothingTorn
  <1>1. CalmInv => NothingTorn
    BY DEF CalmInv, Answered, NothingTorn
  <1> QED
    BY <1>1, CalmInvariant, PTL

\* Whenever no process holds the lock every auction with a directory is
\* complete, unless an OPA for no time has left its directory behind.
THEOREM AuctionsComplete ==
    ASSUME Calm, TimesGiven PROVE Spec => []AuctionsWhole
  <1>1. ASSUME BeforeCalm PROVE AuctionsWhole
    <2> SUFFICES ASSUME LockFree, NEW a \in AuctionDirs PROVE Whole(a)
      BY DEF AuctionsWhole
    <2>1. a \in Aids /\ auctionDir[a] # 0
      BY <1>1 DEF AuctionDirs, CheckAuctionExists, BeforeCalm, Before, TypeInv, TypeOK,
         FilesTypeOK
    <2>2. ~InTheMaking(a)
      BY <1>1 DEF BeforeCalm, Before, LockKept, LockFree, InCS, InTheMaking, MakingLabels,
         OpenLabels, CriticalLabels
    <2> QED
      BY <1>1, <2>1, <2>2 DEF BeforeCalm, Before, CalmInv, Settled, Bare
  <1> QED
    BY <1>1, CalmBeforeInvariant, PTL

-----------------------------------------------------------------------------
(* The semaphore is lost to exceptions only                                *)

\* A request has ended, or may have, by one of the exceptions that leave a
\* database function without a sem_post: BID or CLS finds out that the auction
\* has ended, LMA or LMB that the user has no directories.
Breaks(r) == \/ Op(r) \in {"BID", "CLS"} /\ res[r] = "AuctionAlreadyClosed"
             \/ Op(r) \in {"LMA", "LMB"} /\ res[r] = "filesystem_error"

\* The result of a request is final, but for the one CLS sets before it makes
\* the END file; only CLS tries to end an auction that has ended.
Unbroken(r) ==
    /\ Breaks(r) => \/ pc[r] \in {"post", "reply", "done"}
                    \/ Op(r) = "CLS" /\ pc[r] \in {"CreateEndFile", "OpenEnd", "WriteEnd"}
    /\ pc[r] = "CreateEndFile" /\ Op(r) # "CLS" => end[target[r]] = NoFile

NoneBreaks == \A r \in Requests : ~Breaks(r)
LeakInv == (\A r \in Requests : Unbroken(r)) /\ (NoneBreaks => NoLeak)

\* A function sets its result as it returns, CloseAuction and WritePassword
\* set it earlier.
LEMMA ResultSet ==
    ASSUME TypeInv, NEW r \in Requests, Serve(r), res'[r] # res[r],
           pc'[r] \notin {"post", "reply"}
    PROVE  CloseAuction(r) \/ WritePassword(r)
  <1> USE DEF TypeInv, TypeOK, ProcessTypeOK, Goto, Return, Reenter, Escape
  <1>1. CASE AccountStep(r)
    BY <1>1 DEF AccountStep, LoginUser, CreateUserDir, CreatePassword, CreateLogin,
       Logout, Unregister, ErasePassword
  <1>2. CASE AuctionStep(r)
    BY <1>2 DEF AuctionStep, Open, OpenFails, CreateAuctionDir, CreateSubDirs,
       CreateStartFile, WriteStart, CreateAssetFile, WriteAsset, RegisterHost,
       CreateEndFile, OpenEnd, WriteEnd, AfterClose, Bid, RegisterBid,
       CreateBidFile, WriteBid
  <1>3. CASE ListingStep(r)
    BY <1>3 DEF ListingStep, MyAuctions, MyBids, List, ListEntries, Visit, ShowRecord,
       ReadRecord, GetAssetDir, ShowAsset
  <1>4. CASE SemaphoreWait(r) \/ SemaphorePost(r) \/ Reply(r)
    BY <1>4 DEF SemaphoreWait, SemaphorePost, Reply
  <1> QED
    BY <1>1, <1>2, <1>3, <1>4 DEF Serve

\* Who leaves the lock without a sem_post has met one of these exceptions.
LEMMA EscapeBreaks ==
    ASSUME MaxFaults = 0, BeforeCalm, [Next]_vars, NEW r \in Requests, Serve(r),
           Unbroken(r), pc[r] \in CriticalLabels \ {"post"}, pc'[r] = "reply"
    PROVE  Breaks(r)'
  <1>0. /\ ~Fail /\ UNCHANGED req /\ Op(r)' = Op(r) /\ Placed(Op(r), pc[r], cont[r])
        /\ Uid(r) \in Users /\ Aid(r) \in Aids /\ req[r].value \in Values
        /\ Ending(r) /\ Bidding(r) /\ Op(r) # "LST"
    BY CalmBasics, ActionAt DEF Others, BeforeCalm, Before, LockKept
  <1>1. CheckUserLoggedIn(Uid(r)) => userDir[Uid(r)] = 3
    BY <1>0, LoggedInDirs DEF CheckUserLoggedIn
  <1>2. pc[r] = "Bid" => ~BidUnreadable(Aid(r))
    BY <1>0, InsideWhole DEF BidUnreadable, BidValues, BeforeCalm, Before, TypeInv, TypeOK,
       FilesTypeOK, CriticalLabels
  <1> USE DEF BeforeCalm, Before, TypeInv, TypeOK, ProcessTypeOK, Goto, Return, Reenter, Escape
  <1>3. CASE AccountStep(r)
    BY <1>3 DEF AccountStep, LoginUser, CreateUserDir, CreatePassword, CreateLogin,
       Logout, Unregister, ErasePassword, WritePassword
  <1>4. CASE AuctionStep(r)
    <2>1. pc[r] \in {"CreateEndFile", "WriteEnd", "OpenEnd", "CloseAuction", "Bid",
                     "CreateBidFile"}
      BY <1>4 DEF AuctionStep, Open, OpenFails, CreateAuctionDir, CreateSubDirs,
         CreateStartFile, WriteStart, CreateAssetFile, WriteAsset, RegisterHost,
         CreateEndFile, OpenEnd, WriteEnd, AfterClose, Bid, RegisterBid,
         CreateBidFile, WriteBid, CloseAuction
    <2>2. CASE pc[r] = "CreateEndFile"
      BY <1>0, <2>2, ActionAt DEF CreateEndFile, Ending, Unbroken, Placed, RunsIn,
         OpenLabels, CheckEndExists, Breaks
    <2>3. CASE pc[r] = "WriteEnd"
      BY <1>0, <2>3, ActionAt DEF WriteEnd, AfterClose, Breaks
    <2>4. CASE pc[r] = "OpenEnd"
      BY <1>0, <2>4, ActionAt DEF OpenEnd, AfterClose, Breaks
    <2>5. CASE pc[r] = "CloseAuction"
      BY <1>0, <1>1, <2>5, ActionAt DEF CloseAuction, HostedUnreadable
    <2>6. CASE pc[r] = "Bid"
      <3>1. BidRefusal(r) # "filesystem_error"
        BY <1>1 DEF BidRefusal, HostedUnreadable
      <3>2. Bid(r)
        BY <2>6, ActionAt
      <3> QED
        BY <1>2, <2>6, <3>1, <3>2 DEF Bid
    <2>7. CASE pc[r] = "CreateBidFile"
      BY <1>0, <2>7, ActionAt DEF CreateBidFile, Bidding
    <2> QED
      BY <2>1, <2>2, <2>3, <2>4, <2>5, <2>6, <2>7
  <1>5. CASE ListingStep(r)
    <2>1. MyAuctions(r) \/ MyBids(r)
      BY <1>0, <1>5 DEF ListingStep, List, Visit, ShowRecord, ReadRecord, GetAssetDir,
         ShowAsset, CriticalLabels
    <2>2. Op(r) \in {"LMA", "LMB"}
      BY <1>0, <2>1 DEF MyAuctions, MyBids, Placed, RunsIn, OpenLabels
    <2> QED
      BY <1>0, <2>1, <2>2 DEF MyAuctions, MyBids, ListEntries, Breaks
  <1> QED
    BY <1>3, <1>4, <1>5 DEF Serve, SemaphoreWait, SemaphorePost, Reply, CriticalLabels

\* A result that breaks the lock is final, and only CLS may find an auction
\* ended that it wants to end.
LEMMA UnbrokenStep ==
    ASSUME MaxFaults = 0, BeforeCalm, [Next]_vars, NEW r \in Requests, Serve(r),
           Unbroken(r)
    PROVE  Unbroken(r)' /\ (Breaks(r) => Breaks(r)')
  <1>0. /\ Writes(r) /\ Comes(r) /\ ~Fail /\ UNCHANGED req /\ Op(r)' = Op(r)
        /\ Placed(Op(r), pc[r], cont[r]) /\ Ending(r)
    BY CalmBasics DEF Others
  <1> USE DEF BeforeCalm, Before, TypeInv, TypeOK, ProcessTypeOK
  <1>1. ASSUME Breaks(r)
        PROVE  /\ Breaks(r)'
               /\ \/ pc'[r] \in {"post", "reply", "done"}
                  \/ Op(r) = "CLS" /\ pc'[r] \in {"OpenEnd", "WriteEnd"}
    <2>1. CASE pc[r] = "post"
      BY <1>0, <1>1, <2>1, ActionAt DEF SemaphorePost, Breaks, Placed
    <2>2. CASE pc[r] = "reply"
      BY <1>0, <1>1, <2>2, ActionAt DEF Reply, Breaks
    <2>3. CASE Op(r) = "CLS" /\ pc[r] = "CreateEndFile"
      BY <1>0, <1>1, <2>3, ActionAt DEF CreateEndFile, Ending, Goto, Escape, Breaks
    <2>4. CASE Op(r) = "CLS" /\ pc[r] = "OpenEnd"
      BY <1>0, <1>1, <2>4, ActionAt DEF OpenEnd, Goto, Breaks
    <2>5. CASE Op(r) = "CLS" /\ pc[r] = "WriteEnd"
      BY <1>0, <1>1, <2>5, ActionAt DEF WriteEnd, AfterClose, Return, Breaks
    <2>6. pc[r] # "done"
      BY ActionAt
    <2> QED
      BY <1>1, <2>1, <2>2, <2>3, <2>4, <2>5, <2>6 DEF Unbroken
  <1>2. ~Breaks(r) /\ Breaks(r)' =>
            \/ pc'[r] \in {"post", "reply"}
            \/ Op(r) = "CLS" /\ pc'[r] = "CreateEndFile"
    <2>1. ~Breaks(r) /\ Breaks(r)' => res'[r] # res[r]
      BY <1>0 DEF Breaks
    <2>2. CloseAuction(r) /\ pc'[r] \notin {"post", "reply"} =>
              Op(r) = "CLS" /\ pc'[r] = "CreateEndFile"
      BY <1>0 DEF CloseAuction, Return, Escape, Placed, RunsIn, OpenLabels
    <2>3. WritePassword(r) => ~Breaks(r)'
      BY DEF WritePassword, Breaks
    <2> QED
      BY <2>1, <2>2, <2>3, ResultSet
  <1>3. ASSUME pc'[r] = "CreateEndFile", Op(r) # "CLS"
        PROVE  end'[target'[r]] = NoFile
    <2>1. CASE CloseAuction(r)
      BY <1>0, <1>3, <2>1 DEF CloseAuction, Placed, RunsIn, OpenLabels
    <2>2. CASE Bid(r)
      <3>1. target' = [target EXCEPT ![r] = Aid(r)] /\ BidRefusal(r) = "none"
        BY <1>3, <2>2 DEF Bid, Return, Escape, Goto
      <3>2. end[Aid(r)] = NoFile
        BY <3>1 DEF BidRefusal, CheckEndExists
      <3> QED
        BY <2>2, <3>1, <3>2 DEF Bid, auctionFiles
    <2>3. CASE ShowRecord(r)
      BY <1>3, <2>3 DEF ShowRecord, Return, Goto, CheckEndExists, listingRest,
         auctionFiles
    <2>4. CASE Visit(r)
      BY <1>3, <2>4 DEF Visit, Return, Goto, CheckEndExists, listingRest,
         auctionFiles
    <2> QED
      BY <1>0, <1>3, <2>1, <2>2, <2>3, <2>4 DEF Comes
  <1> QED
    BY <1>0, <1>1, <1>2, <1>3 DEF Unbroken

\* LeakInv is inductive while nothing fails.
LEMMA LeakInvariant == ASSUME Calm PROVE Spec => []LeakInv
  <1>0. MaxFaults = 0 /\ MaxCrashes = 0
    BY DEF Calm, SoundDisk
  <1>1. Init => LeakInv
    BY DEF Init, LeakInv, Unbroken, Breaks, NoLeak
  <1>2. ASSUME BeforeCalm, TypeInv', LeakInv, [Next]_vars PROVE LeakInv'
    <2>1. CASE Quiet
      <3>0. UNCHANGED <<sem, end, res, target>>
            /\ \A r \in Requests : Stayed(r) \/ Entered(r)
        BY <1>0, <1>2, <2>1 DEF Quiet, Died, BeforeCalm, Before, TypeInv, TypeOK, ProcessTypeOK,
           auctionFiles, locals
      <3>1. ASSUME NEW r \in Requests
            PROVE  Unbroken(r)' /\ (Breaks(r) => Breaks(r)')
        BY <1>2, <3>0 DEF LeakInv, Stayed, Entered, BeforeCalm, Before, OpenInv, Builds, Unbroken,
           Breaks, Op
      <3>2. LockFree' => LockFree
        BY <3>0 DEF Stayed, Entered, LockFree, InCS, CriticalLabels, Op
      <3> QED
        BY <1>2, <3>0, <3>1, <3>2 DEF LeakInv, NoneBreaks, NoLeak
    <2>2. ASSUME NEW r \in Requests, Serve(r) PROVE LeakInv'
      <3>0. Others(r) /\ Unbroken(r)' /\ (Breaks(r) => Breaks(r)')
        BY <1>0, <1>2, <2>2, CalmBasics, UnbrokenStep DEF LeakInv
      <3>1. ASSUME NEW s \in Requests \ {r}
            PROVE  Unbroken(s)' /\ (Breaks(s) => Breaks(s)')
        <4>1. /\ pc'[s] = pc[s] /\ res'[s] = res[s] /\ target'[s] = target[s]
              /\ Op(s)' = Op(s) /\ Unbroken(s)
          BY <1>2, <3>0 DEF Others, LeakInv, Op
        <4>2. pc[s] = "CreateEndFile" => UNCHANGED end
          BY <1>2, <2>2, AloneInside DEF BeforeCalm, Before, auctionFiles, CriticalLabels
        <4> QED
          BY <4>1, <4>2 DEF Unbroken, Breaks
      <3>2. ASSUME NoneBreaks', LockFree' PROVE sem' = 1
        <4>0. /\ pc[r] # "List" /\ LockInv /\ UNCHANGED req
              /\ pc \in [Requests -> Labels] /\ pc' \in [Requests -> Labels]
              /\ pc[r] # "idle" /\ Op(r) # "LST"
          BY <1>2, <2>2, <3>0, ActionAt DEF BeforeCalm, Before, LockInv, TypeInv, TypeOK,
             ProcessTypeOK, Others, LockKept
        <4>1. LockFree => sem = 1
          BY <1>2, <3>0, <3>1, <3>2 DEF LeakInv, NoneBreaks, NoLeak
        <4>2. pc'[r] \notin CriticalLabels
          BY <3>2, <4>0 DEF LockFree, InCS, Op
        <4>3. CASE pc[r] \notin CriticalLabels
          <5>1. LockFree
            BY <3>0, <3>2, <4>0, <4>3 DEF Others, LockFree, InCS, Op
          <5>2. ~SemaphoreWait(r)
            BY <1>2, <4>0, <4>2 DEF SemaphoreWait, BeforeCalm, Before, PlaceInv, Placed, RunsIn,
               OpenLabels, TypeInv, LocalsOK, TypeOK, ProcessTypeOK, Sections,
               CriticalLabels
          <5>3. sem' = sem
            BY <2>2, <4>0, <4>3, <5>2, AccountStepLocal, AuctionStepLocal,
               ListingStepLocal
               DEF Serve, LocalStep, SemaphorePost, Reply, CriticalLabels
          <5> QED
            BY <4>1, <5>1, <5>3
        <4>4. CASE pc[r] = "post"
          <5>1. ~LockFree
            BY <4>0, <4>4 DEF LockFree, InCS, CriticalLabels
          <5> QED
            BY <2>2, <4>0, <4>4, <5>1, ActionAt DEF SemaphorePost, LockInv
        <4>5. CASE pc[r] \in CriticalLabels \ {"post"}
          <5>1. LocalStep(r)
            BY <2>2, <4>0, <4>5, AccountStepLocal, AuctionStepLocal, ListingStepLocal
               DEF Serve, SemaphoreWait, SemaphorePost, Reply, CriticalLabels
          <5>2. pc'[r] = "reply"
            BY <4>0, <4>2, <4>5, <5>1 DEF LocalStep, CriticalLabels
          <5>3. Breaks(r)'
            BY <1>0, <1>2, <2>2, <4>5, <5>2, EscapeBreaks DEF LeakInv
          <5> QED
            BY <3>2, <5>3 DEF NoneBreaks
        <4> QED
          BY <4>3, <4>4, <4>5
      <3> QED
        BY <3>0, <3>1, <3>2 DEF LeakInv, NoLeak
    <2> QED
      BY <1>2, <2>1, <2>2, StepKinds DEF BeforeCalm, Before
  <1>3. Spec => []TypeInv
    BY TypeInvariant
  <1> QED
    BY <1>1, <1>2, <1>3, CalmBeforeInvariant, PTL DEF Spec

\* While nothing fails every way through a critical section gives the semaphore
\* back once, but for these exceptions: as long as no request has met one of
\* them nobody waits for a semaphore that nobody holds.
THEOREM ExceptionsLeakOnly ==
    ASSUME Calm PROVE Spec => [](NoneBreaks => NoLeak)
  <1>1. LeakInv => (NoneBreaks => NoLeak)
    BY DEF LeakInv
  <1> QED
    BY <1>1, LeakInvariant, PTL

=============================================================================
