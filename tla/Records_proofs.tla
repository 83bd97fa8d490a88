--------------------------- MODULE Records_proofs ---------------------------
(***************************************************************************)
(* Five theorems about the record of an auction, for any offers, bidders,  *)
(* values, clock and length of the list.  For the first two, how the list  *)
(* is sorted and cut plays no part: it is a function of the files.  The    *)
(* others say what the list holds, and what the client reads of it.        *)
(***************************************************************************)
EXTENDS Records, Messages_proofs, SequenceTheorems, FiniteSetTheorems

\* The record that ShowRecord would make if no auction had to be closed.
RecordOfFiles ==
    [start |-> start,
     list |-> NewestBids(Sorted(bids)), end |-> end]

\* The clock does not go back between two readings.
LEMMA StampsFacts ==
    ASSUME NEW t, NEW st \in Stamps(t), t \in Nat
    PROVE  /\ st[1] \in Nat /\ st[2] \in Nat
           /\ t <= st[1] /\ st[1] <= st[2]
BY RecordsAssumption DEF Stamps

\* The duration of an auction is a number.
LEMMA OfferTime == \A o \in Offers : o.time \in Nat
BY RecordsAssumption DEF Offer

-----------------------------------------------------------------------------
(* Bids and the end.                                                       *)

\* The clock has passed every stamp in the files.
Stamped ==
    /\ now \in Nat
    /\ start = None => bids = {} /\ end = None
    /\ start # None => /\ start.offer \in Offers
                       /\ start.at \in Nat /\ start.at <= now
    /\ \A b \in bids : b.time \in Nat /\ b.time <= Elapsed(now)

BooksInv == Stamped /\ BidsPrecedeEnd

\* At first nothing is stamped.
LEMMA BooksInit == Init => BooksInv
BY RecordsAssumption
   DEF Init, BooksInv, Stamped, BidsPrecedeEnd

\* Close keeps the invariant, whenever its caller read the clock.
LEMMA ClosePreserves ==
    ASSUME BooksInv, start # None, NEW t \in Nat, now <= t, Close(t)
    PROVE  BooksInv'
<1>1. PICK st \in Stamps(t) :
         /\ end' = IF EndToBeMade THEN EndFile(st) ELSE end
         /\ now' = st[2]
         /\ UNCHANGED <<start, bids>>
  BY DEF Close
<1>2. st[2] \in Nat /\ now <= st[2] /\ now \in Nat
  BY StampsFacts DEF BooksInv, Stamped
<1>3. start.offer.time \in Nat /\ start.at \in Nat
  BY OfferTime DEF BooksInv, Stamped
<1>4. Stamped'
  BY <1>1, <1>2, <1>3 DEF BooksInv, Stamped, Elapsed
<1>5. BidsPrecedeEnd'
  <2>1. CASE EndToBeMade
    <3>1. \A b \in bids : b.time \in Nat /\ b.time <= now - start.at
      BY DEF BooksInv, Stamped, Elapsed
    <3>2. end'.time = IF st[2] - start.at > start.offer.time
                      THEN start.offer.time ELSE st[2] - start.at
      BY <1>1, <2>1 DEF EndFile, Elapsed
    <3>3. \A b \in bids' : b.time <= end'.time \/ end'.time = start'.offer.time
      BY <1>1, <1>2, <1>3, <3>1, <3>2
    <3> QED  BY <3>3 DEF BidsPrecedeEnd
  <2>2. CASE ~EndToBeMade
    BY <1>1, <2>2 DEF BooksInv, BidsPrecedeEnd
  <2> QED  BY <2>1, <2>2
<1> QED  BY <1>4, <1>5 DEF BooksInv

\* No request puts a stamp before the clock or a bid past the end.
LEMMA BooksStep == BooksInv /\ [Next]_vars => BooksInv'
<1> SUFFICES ASSUME BooksInv, [Next]_vars
             PROVE  BooksInv'
  OBVIOUS
<1>0. now \in Nat
  BY DEF BooksInv, Stamped
<1>1. ASSUME NEW o \in Offers, Open(o)
      PROVE  BooksInv'
  <2>1. PICK st \in Stamps(now) :
           /\ start' = [offer |-> o, date |-> st[1], at |-> st[2]]
           /\ now' = st[2]
    BY <1>1 DEF Open
  <2>2. bids' = {} /\ end' = None
    BY <1>1 DEF Open, BooksInv, Stamped
  <2>3. now' \in Nat /\ start'.at = now' /\ start'.offer = o
    BY <1>0, <2>1, StampsFacts
  <2> QED  BY <2>2, <2>3 DEF BooksInv, Stamped, BidsPrecedeEnd
<1>2. ASSUME NEW u \in Bidders, NEW v \in Values, Bid(u, v)
      PROVE  BooksInv'
  <2>1. PICK t \in Times :
           /\ t >= now /\ start # None /\ end = None
           /\ \/ Close(t)
              \/ /\ \E st \in Stamps(t) :
                       LET b == [uid |-> u, value |-> v, date |-> st[1],
                                 time |-> Elapsed(st[2])] IN
                       /\ bids' = bids \cup {b}
                       /\ now' = st[2]
                 /\ UNCHANGED <<start, end>>
    BY <1>2 DEF Bid, BidsAllowed
  <2>2. t \in Nat /\ now <= t
    BY <1>0, <2>1, RecordsAssumption
  <2>3. CASE Close(t)
    BY <2>1, <2>2, <2>3, ClosePreserves
  <2>4. ASSUME NEW st \in Stamps(t),
               bids' = bids \cup {[uid |-> u, value |-> v, date |-> st[1],
                                   time |-> Elapsed(st[2])]},
               now' = st[2], UNCHANGED <<start, end>>
        PROVE  BooksInv'
    <3>1. st[2] \in Nat /\ now <= st[2]
      BY <1>0, <2>2, StampsFacts
    <3>2. start.at \in Nat /\ start.at <= now /\ start.offer \in Offers
      BY <2>1 DEF BooksInv, Stamped
    <3>3. \A b \in bids : b.time \in Nat /\ b.time <= now - start.at
      BY DEF BooksInv, Stamped, Elapsed
    <3>4. \A b \in bids' : b.time \in Nat /\ b.time <= now' - start'.at
      <4>1. st[2] - start.at \in Nat
        BY <1>0, <3>1, <3>2
      <4>2. \A b \in bids : b.time <= st[2] - start.at
        BY <1>0, <3>1, <3>2, <3>3
      <4> QED  BY <2>4, <3>3, <4>1, <4>2 DEF Elapsed
    <3>5. Stamped'
      <4>1. start' = start /\ end' = end /\ start # None /\ now' = st[2]
        BY <2>1, <2>4
      <4>2. now' \in Nat /\ start'.at <= now'
        BY <1>0, <3>1, <3>2, <4>1
      <4> QED  BY <3>2, <3>4, <4>1, <4>2 DEF Stamped, Elapsed
    <3>6. BidsPrecedeEnd'
      BY <2>1, <2>4 DEF BidsPrecedeEnd
    <3> QED  BY <3>5, <3>6 DEF BooksInv
  <2> QED  BY <2>1, <2>3, <2>4
<1>3. CASE CloseAuction
  BY <1>0, <1>3, ClosePreserves DEF CloseAuction
<1>4. CASE ShowRecord
  <2>1. PICK t \in Times :
           /\ t >= now /\ start # None
           /\ Close(t) \/ (now' = t /\ UNCHANGED files)
    BY <1>4 DEF ShowRecord
  <2>2. t \in Nat /\ now <= t
    BY <1>0, <2>1, RecordsAssumption
  <2>3. CASE Close(t)
    BY <2>1, <2>2, <2>3, ClosePreserves
  <2>4. CASE now' = t /\ UNCHANGED files
    <3>1. start.at \in Nat /\ start.at <= now /\ start.offer \in Offers
      BY <2>1 DEF BooksInv, Stamped
    <3>2. \A b \in bids : b.time \in Nat /\ b.time <= t - start.at
      BY <1>0, <2>2, <3>1 DEF BooksInv, Stamped, Elapsed
    <3> QED  BY <1>0, <2>1, <2>2, <2>4, <3>1, <3>2
             DEF BooksInv, Stamped, BidsPrecedeEnd, files, Elapsed
  <2> QED  BY <2>1, <2>3, <2>4
<1>5. CASE Receive
  BY <1>5 DEF Receive, BooksInv, Stamped, BidsPrecedeEnd, files, Elapsed
<1>6. CASE UNCHANGED vars
  BY <1>6 DEF vars, BooksInv, Stamped, BidsPrecedeEnd, files, Elapsed
<1> QED  BY <1>1, <1>2, <1>3, <1>4, <1>5, <1>6 DEF Next

\* A bid's elapsed time is past that of the end only if the auction ended by
\* its duration, however long Bid takes between its check and its file.
THEOREM BidsBeforeEnd == Spec => []BidsPrecedeEnd
<1>1. BooksInv => BidsPrecedeEnd
  BY DEF BooksInv
<1> QED  BY <1>1, BooksInit, BooksStep, PTL DEF Spec

-----------------------------------------------------------------------------
(* What the client shows of an auction that is over.                       *)

\* A record that has the end is that of the files, and stays it; a screen
\* that shows the end was made of such a record.
ScreenInv ==
    /\ start = None => end = None
    /\ (asked \/ (shown # None /\ Closed(shown))) /\ record.end # None =>
          record = RecordOfFiles
    /\ shown # None /\ Closed(shown) =>
          /\ record.end # None
          /\ shown = IF RecordUnreadable(recordMessage(record)) THEN None
                     ELSE readRecord(recordMessage(record))

\* At first there is no record and no screen.
LEMMA ScreenInit == Init => ScreenInv
BY DEF Init, ScreenInv

\* A record that has the end stays that of the files.
LEMMA ScreenStep == ScreenInv /\ [Next]_vars =>
                        /\ ScreenInv'
                        /\ shown # None /\ Closed(shown) => shown' = shown
<1> SUFFICES ASSUME ScreenInv, [Next]_vars
             PROVE  /\ ScreenInv'
                    /\ shown # None /\ Closed(shown) => shown' = shown
  OBVIOUS
<1> DEFINE ended == (asked \/ (shown # None /\ Closed(shown)))
                    /\ record.end # None
<1>0. ended => end # None
  BY DEF ScreenInv, RecordOfFiles
\* Files and screen of an auction that has not ended are free to change.
<1>1. ASSUME end = None, start' = None => end' = None,
             UNCHANGED <<record, asked, shown>>
      PROVE  ScreenInv' /\ shown' = shown
  <2>1. ~ended /\ ~(shown # None /\ Closed(shown))
    BY <1>0, <1>1 DEF ScreenInv
  <2> QED  BY <1>1, <2>1 DEF ScreenInv, Closed
<1>2. ASSUME UNCHANGED <<files, record, asked, shown>>
      PROVE  ScreenInv' /\ shown' = shown
  BY <1>2 DEF files, ScreenInv, RecordOfFiles, Closed
<1>3. ASSUME NEW o \in Offers, Open(o)
      PROVE  ScreenInv' /\ shown' = shown
  <2>1. end = None /\ end' = None /\ UNCHANGED <<record, asked, shown>>
    BY <1>3 DEF Open, ScreenInv
  <2> QED  BY <1>1, <2>1
<1>4. ASSUME NEW u \in Bidders, NEW v \in Values, Bid(u, v)
      PROVE  ScreenInv' /\ shown' = shown
  <2>1. /\ end = None /\ start # None /\ start' = start
        /\ UNCHANGED <<record, asked, shown>>
    BY <1>4 DEF Bid, BidsAllowed, Close
  <2> QED  BY <1>1, <2>1
<1>5. CASE CloseAuction
  <2>1. /\ start # None /\ UNCHANGED <<start, bids, record, asked, shown>>
        /\ end # None => end' = end
    BY <1>5 DEF CloseAuction, Close, EndToBeMade
  <2>2. CASE end = None
    BY <1>1, <2>1, <2>2
  <2>3. CASE end # None
    BY <1>2, <2>1, <2>3 DEF files
  <2> QED  BY <2>2, <2>3
<1>6. CASE ShowRecord
  <2>1. /\ start # None /\ UNCHANGED <<start, bids, shown>>
        /\ end # None => end' = end
        /\ record' = [start |-> start,
                      list |-> NewestBids(Sorted(bids)),
                      end |-> end']
    BY <1>6 DEF ShowRecord, Close, files
  <2>2. record' = RecordOfFiles'
    BY <2>1 DEF RecordOfFiles
  <2>3. shown # None /\ Closed(shown) => record' = record
    BY <1>0, <2>1 DEF ScreenInv, RecordOfFiles
  <2> QED  BY <2>1, <2>2, <2>3 DEF ScreenInv, Closed
<1>7. CASE Receive
  <2> DEFINE screen == IF RecordUnreadable(recordMessage(record)) THEN None
                       ELSE readRecord(recordMessage(record))
  <2>1. /\ asked /\ ~asked' /\ shown' = screen
        /\ UNCHANGED <<files, record>>
    BY <1>7 DEF Receive
  <2>2. screen # None /\ Closed(screen) => record.end # None
    BY DEF Closed, readRecord, EndRead, recordMessage
  <2>3. shown # None /\ Closed(shown) => shown' = shown
    BY <2>1 DEF ScreenInv
  <2>4. RecordOfFiles' = RecordOfFiles /\ (start' = None => end' = None)
    BY <2>1 DEF RecordOfFiles, files, ScreenInv
  <2>5. (shown' # None /\ Closed(shown)') =>
            /\ record'.end # None
            /\ record' = RecordOfFiles'
            /\ shown' = screen'
    BY <2>1, <2>2, <2>4 DEF ScreenInv, Closed
  <2> QED  BY <2>1, <2>3, <2>4, <2>5 DEF ScreenInv
<1>8. CASE UNCHANGED vars
  BY <1>2, <1>8 DEF vars
<1> QED  BY <1>3, <1>4, <1>5, <1>6, <1>7, <1>8 DEF Next

\* A client that has shown an auction as closed shows the same end, the same
\* bids and the same host ever after.
THEOREM ShownClosedForGood == Spec => ClosedForGood
<1>1. ScreenInv /\ [Next]_vars =>
          [shown # None /\ Closed(shown) => shown' = shown]_vars
  BY ScreenStep
<1> QED  BY <1>1, ScreenInit, ScreenStep, PTL DEF Spec, ClosedForGood

-----------------------------------------------------------------------------
(* The list of a record                                                    *)

Rising(list) == \A i, j \in DOMAIN list : i < j => list[i].value < list[j].value

\* The bids in the order they were accepted are a list of the files in BIDS,
\* each higher than those before, and there is no other one that is ordered.
PlacedInv ==
    /\ placed \in Seq(BidFiles) /\ Rising(placed)
    /\ bids = {placed[i] : i \in 1 .. Len(placed)}
    /\ IsFiniteSet(bids) /\ Cardinality(bids) = Len(placed)
    /\ \A list \in SetToSeqs(bids) : Ordered(list) => list = placed

\* The lists of a set's elements, each of them once.
LEMMA SeqsOf ==
    ASSUME NEW S, NEW list
    PROVE  list \in SetToSeqs(S) <=>
              /\ list \in [1 .. Cardinality(S) -> S]
              /\ \A i, j \in 1 .. Cardinality(S) : i # j => list[i] # list[j]
BY DEF SetToSeqs

\* Whatever order the directory is read in, sorting gives the order of the bids.
LEMMA SortedPlaced ==
    ASSUME PlacedInv PROVE Sorted(bids) = placed
<1> DEFINE n == Len(placed)
<1>0. placed \in Seq(BidFiles)
  BY DEF PlacedInv
<1>1. n \in Nat /\ placed \in [1 .. n -> BidFiles] /\ DOMAIN placed = 1 .. n
  BY <1>0
<1>2. \A b \in BidFiles : b.value \in Int
  BY RecordsAssumption DEF BidFiles
<1>3. \A i, j \in 1 .. n : i < j => placed[i].value < placed[j].value
  BY <1>1 DEF PlacedInv, Rising
<1>4. \A i \in 1 .. n : placed[i].value \in Int /\ i \in Int
  BY <1>1, <1>2
<1>5. placed \in SetToSeqs(bids)
  <2>1. placed \in [1 .. n -> bids]
    BY <1>1 DEF PlacedInv
  <2>2. \A i, j \in 1 .. n : i # j => placed[i] # placed[j]
    BY <1>3, <1>4
  <2>. QED
    BY <2>1, <2>2, SeqsOf DEF PlacedInv
<1>6. Ordered(placed)
  BY <1>1, <1>3, <1>4 DEF Ordered, CompareByValue
<1>. QED
  BY <1>5, <1>6 DEF Sorted, PlacedInv

\* A bid that is higher than the others comes last in every ordered list.
LEMMA PlacedGrows ==
    ASSUME PlacedInv, NEW b \in BidFiles, \A a \in bids : a.value < b.value,
           NEW more, more = bids \cup {b}, NEW list, list = Append(placed, b)
    PROVE  /\ list \in Seq(BidFiles) /\ Rising(list)
           /\ more = {list[i] : i \in 1 .. Len(list)}
           /\ IsFiniteSet(more) /\ Cardinality(more) = Len(list)
           /\ \A s \in SetToSeqs(more) : Ordered(s) => s = list
<1> DEFINE n == Len(placed)
<1>0. \A a \in BidFiles : a.value \in Int
  BY RecordsAssumption DEF BidFiles
<1>1. /\ n \in Nat /\ placed \in Seq(BidFiles) /\ DOMAIN placed = 1 .. n
      /\ \A i \in 1 .. n : placed[i] \in BidFiles /\ placed[i] \in bids
      /\ bids \subseteq BidFiles
  <2>1. placed \in Seq(BidFiles) /\ bids = {placed[i] : i \in 1 .. n}
    BY DEF PlacedInv
  <2>2. \A i \in 1 .. n : placed[i] \in BidFiles /\ placed[i] \in bids
    BY <2>1
  <2>. QED
    BY <2>1, <2>2
<1>2. /\ list \in Seq(BidFiles) /\ Len(list) = n + 1 /\ list[n + 1] = b
      /\ \A i \in 1 .. n : list[i] = placed[i]
      /\ DOMAIN list = 1 .. n + 1
  BY <1>1
<1>3. \A i \in 1 .. n + 1 : i \in 1 .. n \/ i = n + 1
  BY <1>1
<1>4. Rising(list)
  <2>1. ASSUME NEW i \in 1 .. n + 1, NEW j \in 1 .. n + 1, i < j
        PROVE  list[i].value < list[j].value
    <3>1. i \in 1 .. n
      BY <1>1, <2>1
    <3>2. CASE j \in 1 .. n
      BY <1>1, <1>2, <2>1, <3>1, <3>2 DEF PlacedInv, Rising
    <3>3. CASE j = n + 1
      BY <1>1, <1>2, <3>1, <3>3
    <3>. QED
      BY <1>3, <3>2, <3>3
  <2>. QED
    BY <1>2, <2>1 DEF Rising
<1>5. more = {list[i] : i \in 1 .. Len(list)}
  <2>1. \A i \in 1 .. n : i \in 1 .. n + 1
    BY <1>1
  <2>2. n + 1 \in 1 .. n + 1
    BY <1>1
  <2>3. bids = {list[i] : i \in 1 .. n}
    BY <1>2 DEF PlacedInv
  <2>. QED
    BY <1>2, <1>3, <2>1, <2>2, <2>3
<1>6. b \notin bids
  BY <1>0, <1>1
<1>7. IsFiniteSet(more) /\ Cardinality(more) = n + 1
  BY <1>6, FS_AddElement DEF PlacedInv
<1>8. ASSUME NEW s \in SetToSeqs(more), Ordered(s)
      PROVE  s = list
  <2>1. /\ s \in [1 .. n + 1 -> more]
        /\ \A i, j \in 1 .. n + 1 : i # j => s[i] # s[j]
    BY <1>7, SeqsOf
  <2>2. /\ \A i \in 1 .. n + 1 : s[i] \in BidFiles /\ s[i].value \in Int
        /\ DOMAIN s = 1 .. n + 1
    BY <1>0, <1>1, <2>1
  <2>3. \E k \in 1 .. n + 1 : s[k] = b
    <3>1. SUFFICES ASSUME \A k \in 1 .. n + 1 : s[k] # b PROVE FALSE
      OBVIOUS
    <3>2. s \in [1 .. n + 1 -> bids]
      BY <2>1, <3>1
    <3>3. IsFiniteSet(1 .. n + 1) /\ Cardinality(1 .. n + 1) = n + 1
      <4>1. 1 \in Int /\ n + 1 \in Int /\ 1 <= n + 1
        BY <1>1
      <4>. QED
        BY <1>1, <4>1, FS_Interval
    <3>4. IsFiniteSet(bids) /\ Cardinality(bids) < Cardinality(1 .. n + 1)
      <4>1. IsFiniteSet(bids) /\ Cardinality(bids) = n
        BY DEF PlacedInv
      <4>. QED
        BY <1>1, <3>3, <4>1
    <3>5. \E x, y \in 1 .. n + 1 : x # y /\ s[x] = s[y]
      BY <3>2, <3>3, <3>4, FS_PigeonHole
    <3>. QED
      BY <2>1, <3>5
  <2>4. s[n + 1] = b
    <3>1. PICK k \in 1 .. n + 1 : s[k] = b
      BY <2>3
    <3>2. CASE k \in 1 .. n
      <4>1. k < n + 1 /\ k # n + 1 /\ n + 1 \in 1 .. n + 1
        BY <1>1, <3>2
      <4>2. s[n + 1] # b /\ s[n + 1] \in bids
        BY <2>1, <3>1, <4>1
      <4>3. ~(s[n + 1].value < b.value)
        BY <1>8, <2>2, <3>1, <4>1 DEF Ordered, CompareByValue
      <4>. QED
        BY <4>2, <4>3
    <3>. QED
      BY <1>3, <3>1, <3>2
  <2> DEFINE t == [i \in 1 .. n |-> s[i]]
  <2>5. t \in SetToSeqs(bids)
    <3>1. \A i \in 1 .. n : i \in 1 .. n + 1 /\ i # n + 1 /\ n + 1 \in 1 .. n + 1
      BY <1>1
    <3>2. \A i \in 1 .. n : s[i] \in bids
      BY <2>1, <2>4, <3>1
    <3>3. t \in [1 .. n -> bids]
      BY <3>2
    <3>4. \A i, j \in 1 .. n : i # j => t[i] # t[j]
      BY <2>1, <3>1
    <3>. QED
      BY <3>3, <3>4, SeqsOf DEF PlacedInv
  <2>6. Ordered(t)
    <3>1. \A i \in 1 .. n : i \in 1 .. n + 1
      BY <1>1
    <3>. QED
      BY <1>8, <2>2, <3>1 DEF Ordered
  <2>7. t = placed
    BY <2>5, <2>6 DEF PlacedInv
  <2>8. \A i \in 1 .. n + 1 : s[i] = list[i]
    <3>1. \A i \in 1 .. n : t[i] = s[i]
      OBVIOUS
    <3> HIDE DEF t
    <3>. QED
      BY <1>2, <1>3, <2>4, <2>7, <3>1
  <2>. QED
    BY <1>2, <2>1, <2>8
<1>. QED
  BY <1>2, <1>4, <1>5, <1>7, <1>8

-----------------------------------------------------------------------------
(* The text of a record                                                    *)

\* The client's reader of elapsed times, which stops after five digits.
LEMMA TimeRead ==
    ASSUME NEW n \in Nat
    PROVE  LET w == Printed(n) IN
           /\ w \in Word /\ w.num = n /\ w.len = Digits(n)
           /\ Fits(w, 5) <=> n <= 99999
           /\ readString(w, 5).num \in Nat
           /\ n <= 99999 => readString(w, 5).num = n
<1> DEFINE w == Printed(n)
<1>1. Digits(n) \in 1 .. 10 /\ n \in Int
  BY DigitsOf
<1>2. w = [len |-> Digits(n), num |-> n] /\ w.len = Digits(n) /\ w.num = n
  BY DEF Printed
<1>3. 5 \in 1 .. 9 /\ 10^5 = 100000
  OBVIOUS
<1>4. Digits(n) <= 5 <=> n < 10^5
  BY <1>1, <1>3, DigitsOf
<1>5. Fits(w, 5) <=> n <= 99999
  BY <1>2, <1>3, <1>4 DEF Fits
<1>6. n <= 99999 => readString(w, 5) = w
  BY <1>1, <1>2, <1>3, <1>4, readWhole
<1>7. readString(w, 5).num \in Nat
  <2>1. CASE Digits(n) <= 5
    BY <1>2, <1>3, <1>4, <1>6, <2>1
  <2>2. CASE ~(Digits(n) <= 5)
    <3>1. /\ Digits(n) - 5 \in {1, 2, 3, 4, 5}
          /\ Lower(w.len, 5) = 5
      BY <1>1, <1>2, <2>2 DEF Lower
    <3>2. readString(w, 5).num = n \div 10^(Digits(n) - 5)
      BY <1>2, <3>1 DEF readString
    <3>3. ASSUME NEW k \in {1, 2, 3, 4, 5} PROVE n \div 10^k \in Nat
      <4>1. \A p \in Nat \ {0} : n \div p \in Nat
        OBVIOUS
      <4>2. 10^k \in Nat \ {0}
        <5>1. CASE k = 1
          <6>1. 10^k = 10
            BY <5>1
          <6>. QED
            BY <6>1
        <5>2. CASE k = 2
          <6>1. 10^k = 100
            BY <5>2
          <6>. QED
            BY <6>1
        <5>3. CASE k = 3
          <6>1. 10^k = 1000
            BY <5>3
          <6>. QED
            BY <6>1
        <5>4. CASE k = 4
          <6>1. 10^k = 10000
            BY <5>4
          <6>. QED
            BY <6>1
        <5>5. CASE k = 5
          <6>1. 10^k = 100000
            BY <5>5
          <6>. QED
            BY <6>1
        <5>. QED
          BY <5>1, <5>2, <5>3, <5>4, <5>5
      <4>. QED
        BY <4>1, <4>2
    <3>. QED
      BY <3>1, <3>2, <3>3
  <2>. QED
    BY <2>1, <2>2
<1>. QED
  BY <1>1, <1>2, <1>5, <1>6, <1>7 DEF Word

\* What the server has accepted for an auction fits the fields of a record.
LEMMA OffersRead ==
    ASSUME NEW o \in Offers
    PROVE  /\ o \in Offer /\ o.time <= 99999 /\ o.time \in Nat
           /\ Readable("uid", Printed(o.host))
           /\ Readable("title", o.title) /\ Readable("fname", o.fname)
           /\ Readable("value", Printed(o.value))
<1>1. o \in Offer /\ Readable("time", Printed(o.time)) /\ o.time \in Nat
  BY RecordsAssumption DEF Offer
<1>2. o.time < 10^5 /\ 10^5 = 100000
  BY <1>1, FieldsReadable
<1>. QED
  BY <1>1, <1>2, RecordsAssumption

\* So do the fields of a bid, but for its elapsed time.
LEMMA BidsFit ==
    ASSUME NEW b \in BidFiles
    PROVE  /\ Readable("uid", Printed(b.uid)) /\ b.uid \in Nat
           /\ Fits(Printed(b.value), ValueSize) /\ b.value \in Nat
           /\ b.time \in Nat
<1>1. b.uid \in Bidders /\ b.value \in Values /\ b.time \in Nat
  BY DEF BidFiles
<1>2. Readable("value", Printed(b.value)) /\ b.value \in Nat
  BY <1>1, RecordsAssumption
<1>3. Printed(b.value) = [len |-> Digits(b.value), num |-> b.value]
      /\ Digits(b.value) \in Nat
  BY <1>2, DigitsOf DEF Printed
<1>4. ValueSize \in Nat /\ ReadLimit["value"] = ValueSize
  BY WidthAssumption DEF ReadLimit
<1>5. readString(Printed(b.value), ValueSize).len = Printed(b.value).len
  BY <1>2, <1>4 DEF Readable
<1>6. Digits(b.value) <= ValueSize
  BY <1>2, <1>3, <1>4, <1>5, readWhole
<1>. QED
  BY <1>1, <1>2, <1>3, <1>6, RecordsAssumption DEF Fits

\* What readMessage on the client makes of a record: it reads it without an
\* error, and rightly but for the two exceptions of ReadBack.
ReadRightly(r) ==
    LET m == recordMessage(r)
        s == readRecord(m)
    IN  /\ ~RecordUnreadable(m) /\ s \in Screens /\ s # None
        /\ [host |-> s.host, title |-> s.title, fname |-> s.fname,
            value |-> s.value, time |-> s.time] = r.start.offer
        /\ s.date = r.start.date
        /\ (\A i \in DOMAIN r.list : r.list[i].time <= 99999) =>
              /\ s.bids = r.list
              /\ \/ s.end = r.end
                 \/ r.end.time = 0 /\ s.end = None
        /\ Closed(s) => s.end = r.end

LEMMA RecordRead ==
    ASSUME NEW r \in AuctionRecords,
           r.end # None => r.end.time <= r.start.offer.time
    PROVE  ReadRightly(r)
<1> DEFINE m == recordMessage(r)
           s == readRecord(m)
           o == r.start.offer
           n == Len(r.list)
<1>1. /\ r.start \in StartFiles /\ r.list \in Seq(BidFiles)
      /\ r.end \in EndFiles \cup {None} /\ None \notin EndFiles
      /\ o \in Offers /\ r.start.date \in Times
  BY RecordsAssumption DEF AuctionRecords, StartFiles
<1>2. /\ n \in Nat /\ DOMAIN r.list = 1 .. n
      /\ \A i \in 1 .. n : r.list[i] \in BidFiles
  BY <1>1
<1>3. /\ o.host \in Nat /\ o.title \in Word /\ o.fname \in Word /\ o.value \in Nat
      /\ o.time \in Nat /\ o.time <= 99999
      /\ o = [host |-> o.host, title |-> o.title, fname |-> o.fname,
              value |-> o.value, time |-> o.time]
  BY <1>1, OffersRead DEF Offer
<1>4. /\ m.host = Printed(o.host) /\ m.title = o.title /\ m.fname = o.fname
      /\ m.value = Printed(o.value) /\ m.date = r.start.date
      /\ m.time = Printed(o.time)
      /\ m.B = [i \in DOMAIN r.list |->
               [uid |-> Printed(r.list[i].uid),
                value |-> Printed(r.list[i].value), date |-> r.list[i].date,
                time |-> Printed(r.list[i].time)]]
      /\ m.E = IF r.end # None /\ r.end.time > 0
               THEN [date |-> r.end.date, time |-> Printed(r.end.time)] ELSE None
  BY DEF recordMessage
<1>5. /\ DOMAIN m.B = 1 .. n
      /\ \A i \in 1 .. n : /\ m.B[i].uid = Printed(r.list[i].uid)
                           /\ m.B[i].value = Printed(r.list[i].value)
                           /\ m.B[i].date = r.list[i].date
                           /\ m.B[i].time = Printed(r.list[i].time)
  BY <1>2, <1>4
<1> HIDE DEF m
<1>6. MAX_LENGTH_TIMEACTIVE = 5
  BY DEF MAX_LENGTH_TIMEACTIVE
<1>7. \A i \in 1 .. n : i \in Overlong(m.B) <=> ~(r.list[i].time <= 99999)
  BY <1>2, <1>5, <1>6, BidsFit, TimeRead DEF Overlong
<1> DEFINE R == {i \in DOMAIN m.B : \A j \in Overlong(m.B) : i <= j}
           k == BidsRead(m.B)
<1>8. /\ k \in 0 .. n
      /\ Overlong(m.B) = {} => k = n
  <2>1. IsFiniteSet(1 .. n) /\ Cardinality(1 .. n) = n
    BY <1>2, FS_Interval
  <2>2. R \in SUBSET (1 .. n)
    BY <1>5
  <2>3. k = Cardinality(R)
    BY DEF BidsRead
  <2>4. Overlong(m.B) = {} => R = 1 .. n
    BY <1>5
  <2> HIDE DEF R, k
  <2>5. IsFiniteSet(R) /\ Cardinality(R) <= n
    BY <2>1, <2>2, FS_Subset
  <2>. QED
    BY <1>2, <2>1, <2>3, <2>4, <2>5, FS_CardinalityType
<1> HIDE DEF R, k
<1>9. \A i \in 1 .. k : i \in 1 .. n
  BY <1>2, <1>8
<1>10. /\ r.end # None => /\ r.end.date \in Nat /\ r.end.time \in Nat
                          /\ r.end.time <= 99999
                          /\ r.end = [date |-> r.end.date, time |-> r.end.time]
  <2>1. SUFFICES ASSUME r.end # None
                 PROVE  /\ r.end.date \in Nat /\ r.end.time \in Nat
                        /\ r.end.time <= 99999
                        /\ r.end = [date |-> r.end.date, time |-> r.end.time]
    OBVIOUS
  <2>2. r.end \in EndFiles
    BY <1>1, <2>1
  <2>3. r.end.time <= o.time
    BY <2>1
  <2>. QED
    BY <1>3, <2>2, <2>3 DEF EndFiles
<1>11. m.E # None <=> r.end # None /\ r.end.time > 0
  <2>1. CASE r.end # None /\ r.end.time > 0
    <3>1. m.E \in EndTexts
      BY <1>4, <1>10, <2>1, TimeRead DEF EndTexts
    <3>. QED
      BY <2>1, <3>1, RecordsAssumption
  <2>2. CASE ~(r.end # None /\ r.end.time > 0)
    BY <1>4, <2>2
  <2>. QED
    BY <2>1, <2>2
<1>12. ~RecordUnreadable(m)
  <2>1. /\ Readable("uid", m.host) /\ Readable("title", m.title)
        /\ Readable("fname", m.fname) /\ Readable("value", m.value)
    BY <1>1, <1>4, OffersRead
  <2>2. Fits(m.time, MAX_TIMEACTIVE_SIZE)
    <3>1. /\ m.time.len = Digits(o.time) /\ Digits(o.time) \in Nat
          /\ Fits(m.time, 5)
      BY <1>3, <1>4, TimeRead, DigitsOf, SMTT(60)
    <3>. QED
      BY <3>1 DEF Fits, MAX_TIMEACTIVE_SIZE
  <2>3. \A i \in 1 .. k : /\ Readable("uid", m.B[i].uid)
                          /\ Fits(m.B[i].value, ValueSize)
    BY <1>2, <1>5, <1>9, BidsFit
  <2>4. EndRead(m) => Fits(m.E.time, MAX_LENGTH_TIMEACTIVE)
    <3>1. SUFFICES ASSUME m.E # None PROVE Fits(m.E.time, 5)
      BY <1>6 DEF EndRead
    <3>2. m.E.time = Printed(r.end.time)
      BY <1>4, <1>11, <3>1
    <3>. QED
      BY <1>10, <1>11, <3>1, <3>2, TimeRead
  <2>. QED
    BY <2>1, <2>2, <2>3, <2>4 DEF RecordUnreadable, k
<1>13. /\ s.host = o.host /\ s.title = o.title /\ s.fname = o.fname
       /\ s.value = o.value /\ s.time = o.time /\ s.date = r.start.date
  BY <1>4 DEF readRecord, Printed
<1>14. s.bids = [i \in 1 .. k |->
                  [uid |-> m.B[i].uid.num, value |-> m.B[i].value.num,
                   date |-> m.B[i].date,
                   time |-> readString(m.B[i].time, 5).num]]
  BY <1>6 DEF readRecord, k
<1>15. s.end = IF EndRead(m) THEN [date |-> m.E.date, time |-> m.E.time.num]
                             ELSE None
  BY DEF readRecord
<1>16. ASSUME NEW i \in 1 .. k
       PROVE  /\ s.bids[i] \in BidFiles
              /\ r.list[i].time <= 99999 => s.bids[i] = r.list[i]
  <2> DEFINE b == r.list[i]
             t == readString(Printed(b.time), 5).num
  <2>1. b \in BidFiles /\ i \in 1 .. n
    BY <1>2, <1>9
  <2>2. s.bids[i] = [uid |-> b.uid, value |-> b.value, date |-> b.date, time |-> t]
    <3>1. \A x : Printed(x).num = x
      BY DEF Printed
    <3>2. /\ m.B[i].uid.num = b.uid /\ m.B[i].value.num = b.value
          /\ m.B[i].date = b.date
          /\ readString(m.B[i].time, 5).num = t
      BY <1>5, <2>1, <3>1
    <3>3. s.bids[i] = [uid |-> m.B[i].uid.num, value |-> m.B[i].value.num,
                       date |-> m.B[i].date,
                       time |-> readString(m.B[i].time, 5).num]
      <4> HIDE DEF s, k
      <4>. QED
        BY <1>14
    <3> HIDE DEF s, b, t
    <3>. QED
      BY <3>2, <3>3
  <2>3. t \in Nat /\ (b.time <= 99999 => t = b.time)
    BY <2>1, BidsFit, TimeRead
  <2> HIDE DEF b, t
  <2>4. s.bids[i] \in BidFiles /\ (t = b.time => s.bids[i] = b)
    BY <2>1, <2>2, <2>3 DEF BidFiles
  <2>. QED
    BY <2>3, <2>4 DEF b
<1>17. s.bids \in Seq(BidFiles)
  <2>1. k \in Nat
    BY <1>2, <1>8
  <2>2. s.bids \in [1 .. k -> BidFiles]
    BY <1>14, <1>16
  <2>. QED
    BY <2>1, <2>2
<1>18. EndRead(m) => s.end = r.end /\ s.end # None
  <2>1. SUFFICES ASSUME EndRead(m) PROVE s.end = r.end /\ s.end # None
    OBVIOUS
  <2>2. r.end # None /\ r.end.time > 0
    BY <1>11, <2>1 DEF EndRead
  <2>3. m.E.date = r.end.date /\ m.E.time.num = r.end.time
    BY <1>4, <2>2 DEF Printed
  <2>. QED
    BY <1>10, <1>15, <2>1, <2>2, <2>3
<1>19. ~EndRead(m) => s.end = None
  BY <1>15
<1>20. s \in Screens /\ s # None
  <2>1. s.end \in EndFiles \cup {None}
    BY <1>1, <1>18, <1>19
  <2>2. s = [host |-> s.host, title |-> s.title, fname |-> s.fname,
             value |-> s.value, date |-> s.date, time |-> s.time,
             bids |-> s.bids, end |-> s.end]
    BY DEF readRecord
  <2> HIDE DEF s
  <2>3. s \in Screens
    BY <1>1, <1>3, <1>13, <1>17, <2>1, <2>2 DEF Screens
  <2>. QED
    BY <2>3, RecordsAssumption
<1>21. ASSUME \A i \in DOMAIN r.list : r.list[i].time <= 99999
       PROVE  /\ s.bids = r.list
              /\ \/ s.end = r.end
                 \/ r.end.time = 0 /\ s.end = None
  <2>1. Overlong(m.B) = {}
    BY <1>2, <1>5, <1>7, <1>21 DEF Overlong
  <2>2. k = n
    BY <1>8, <2>1
  <2>3. s.bids = r.list
    <3>1. DOMAIN s.bids = 1 .. n
      BY <1>14, <2>2
    <3>2. \A i \in 1 .. n : s.bids[i] = r.list[i]
      BY <1>2, <1>16, <1>21, <2>2
    <3>. QED
      BY <1>1, <1>2, <1>17, <3>1, <3>2
  <2>4. EndRead(m) <=> r.end # None /\ r.end.time > 0
    BY <1>11, <2>1 DEF EndRead
  <2>5. r.end # None => r.end.time > 0 \/ r.end.time = 0
    BY <1>10
  <2>. QED
    BY <1>18, <1>19, <2>3, <2>4, <2>5
<1>22. Closed(s) => s.end = r.end
  BY <1>18, <1>19 DEF Closed
<1>. QED
  BY <1>3, <1>12, <1>13, <1>20, <1>21, <1>22 DEF m, ReadRightly

-----------------------------------------------------------------------------
(* The types, and the bids of a record                                     *)

\* What the list of a record is: the bids accepted last before it was made.
LEMMA NewestOf ==
    ASSUME NEW list \in Seq(BidFiles)
    PROVE  LET n == Len(list) IN
           /\ NewestBids(list) = SubSeq(list, Higher(0, n - MaxShown) + 1, n)
           /\ NewestBids(list) \in Seq(BidFiles)
           /\ Len(NewestBids(list)) <= MaxShown
<1> DEFINE n == Len(list)
           m == Higher(1, n - MaxShown + 1)
<1>1. n \in Nat /\ MaxShown \in Nat \ {0}
      /\ \A i \in 1 .. n : list[i] \in BidFiles
  BY RecordsAssumption
<1> HIDE DEF n
<1>2. /\ m \in Int /\ m >= 1 /\ n - m + 1 <= MaxShown
      /\ m = Higher(0, n - MaxShown) + 1
  BY <1>1 DEF Higher
<1> HIDE DEF m
<1>3. \A i \in m .. n : list[i] \in BidFiles
  <2>1. \A i \in m .. n : i \in 1 .. n
    BY <1>1, <1>2
  <2>. QED
    BY <1>1, <2>1
<1>4. /\ SubSeq(list, m, n) \in Seq(BidFiles)
      /\ Len(SubSeq(list, m, n)) = IF m <= n THEN n - m + 1 ELSE 0
  BY <1>1, <1>2, <1>3, SubSeqProperties
<1>5. NewestBids(list) = SubSeq(list, m, n)
  BY DEF NewestBids, n, m
<1>6. Len(SubSeq(list, m, n)) <= MaxShown
  BY <1>1, <1>2, <1>4
<1>. QED
  BY <1>2, <1>4, <1>5, <1>6 DEF n

\* A bid more at the end of a list leaves what was cut from it before.
LEMMA CutKept ==
    ASSUME NEW list \in Seq(BidFiles), NEW b \in BidFiles,
           NEW m \in Nat \ {0}, NEW k \in 0 .. Len(list)
    PROVE  SubSeq(Append(list, b), m, k) = SubSeq(list, m, k)
<1> DEFINE n == Len(list)
           more == Append(list, b)
<1>1. /\ n \in Nat /\ k \in Int /\ m \in Int
      /\ \A i \in m .. k : list[i] \in BidFiles /\ more[i] = list[i]
  <2>1. n \in Nat
    OBVIOUS
  <2>2. \A i \in m .. k : i \in 1 .. n
    BY <2>1
  <2>3. \A i \in 1 .. n : list[i] \in BidFiles /\ more[i] = list[i]
    BY AppendProperties
  <2>. QED
    BY <2>1, <2>2, <2>3
<1> HIDE DEF more
<1> DEFINE A == SubSeq(more, m, k)
           B == SubSeq(list, m, k)
<1>2. /\ B \in Seq(BidFiles) /\ Len(B) = IF m <= k THEN k - m + 1 ELSE 0
      /\ \A i \in 1 .. k - m + 1 : B[i] = list[m + i - 1]
  BY <1>1, SubSeqProperties
<1>3. /\ A \in Seq(BidFiles) /\ Len(A) = IF m <= k THEN k - m + 1 ELSE 0
      /\ \A i \in 1 .. k - m + 1 : A[i] = more[m + i - 1]
  <2>1. \A i \in m .. k : more[i] \in BidFiles
    BY <1>1
  <2>. QED
    BY <1>1, <2>1, SubSeqProperties
<1> HIDE DEF A, B
<1>4. \A i \in 1 .. Len(B) : A[i] = B[i]
  <2>1. \A i \in 1 .. Len(B) : i \in 1 .. k - m + 1 /\ m + i - 1 \in m .. k
    BY <1>1, <1>2
  <2>. QED
    BY <1>1, <1>2, <1>3, <2>1
<1>5. A = B
  BY <1>2, <1>3, <1>4, SeqEqual
<1>. QED
  BY <1>5 DEF A, B, more

\* A record was cut when seen bids had been accepted.
SeenInv == seen \in 0 .. Len(placed) /\ RecordNewest

RecordInv == BooksInv /\ TypeOK /\ PlacedInv /\ SeenInv /\ ReadBack

\* An auction that is not open yet has no record.
LEMMA RecordInit == Init => RecordInv
<1>. SUFFICES ASSUME Init PROVE RecordInv
  OBVIOUS
<1>1. BooksInv
  BY BooksInit
<1>2. TypeOK /\ ReadBack
  <2>1. /\ now \in Times /\ asked = FALSE /\ start = None /\ end = None
        /\ record = None /\ shown = None /\ bids \subseteq BidFiles
    BY DEF Init
  <2>2. TypeOK
    BY <2>1 DEF TypeOK
  <2>3. ReadBack
    BY <2>1 DEF ReadBack
  <2>. QED
    BY <2>2, <2>3
<1>3. /\ placed = <<>> /\ bids = {} /\ seen = 0 /\ record = None
      /\ Len(placed) = 0 /\ placed \in Seq(BidFiles)
  BY DEF Init
<1>4. SeenInv
  BY <1>3 DEF SeenInv, RecordNewest
<1>5. PlacedInv
  <2>1. IsFiniteSet(bids) /\ Cardinality(bids) = 0
    BY <1>3, FS_EmptySet
  <2>2. bids = {placed[i] : i \in 1 .. Len(placed)}
    BY <1>3
  <2>3. ASSUME NEW list \in SetToSeqs(bids) PROVE list = placed
    <3>1. list \in [1 .. 0 -> bids]
      BY <2>1, SeqsOf
    <3>. QED
      BY <1>3, <3>1
  <2>4. Rising(placed)
    BY <1>3 DEF Rising
  <2>. QED
    BY <1>3, <2>1, <2>2, <2>3, <2>4 DEF PlacedInv
<1>. QED
  BY <1>1, <1>2, <1>4, <1>5 DEF RecordInv

\* An auction that is closed has an end, within its duration.
LEMMA CloseTypes ==
    ASSUME BooksInv, TypeOK, start # None, NEW t \in Times, now <= t, Close(t)
    PROVE  /\ now' \in Times /\ end' \in EndFiles
           /\ end'.time <= start.offer.time
<1>1. PICK st \in Stamps(t) :
         /\ end' = IF EndToBeMade THEN EndFile(st) ELSE end
         /\ now' = st[2]
  BY DEF Close
<1>2. /\ st[1] \in Times /\ st[2] \in Times /\ t <= st[1] /\ st[1] <= st[2]
  BY DEF Stamps
<1>3. /\ st[1] \in Nat /\ st[2] \in Nat /\ t \in Nat /\ now \in Nat
      /\ start.at \in Nat /\ start.at <= now /\ start.offer.time \in Nat
  BY <1>2, OfferTime, RecordsAssumption DEF BooksInv, Stamped
<1>4. CASE end = None
  <2>1. end' = EndFile(st)
    BY <1>1, <1>4 DEF EndToBeMade
  <2>2. EndFile(st) \in EndFiles /\ EndFile(st).time <= start.offer.time
    BY <1>2, <1>3 DEF EndFile, EndFiles, Elapsed
  <2>. QED
    BY <1>1, <1>2, <2>1, <2>2
<1>5. CASE end # None
  <2>1. end' = end
    BY <1>1, <1>5 DEF EndToBeMade
  <2>. QED
    BY <1>1, <1>2, <1>5, <2>1 DEF TypeOK
<1>. QED
  BY <1>4, <1>5

\* Steps that leave the record and the screen alone.
LEMMA FilesTyped ==
    ASSUME TypeOK, UNCHANGED <<record, asked, shown>>, now' \in Times,
           start' # None => start' \in StartFiles, bids' \subseteq BidFiles,
           end' # None => /\ end' \in EndFiles /\ start' # None
                          /\ end'.time <= start'.offer.time
    PROVE  TypeOK'
BY DEF TypeOK

\* No request and no answer breaks it.
LEMMA RecordStep == RecordInv /\ [Next]_vars => RecordInv'
<1> SUFFICES ASSUME RecordInv, [Next]_vars
             PROVE  RecordInv'
  OBVIOUS
<1>0. BooksInv /\ TypeOK /\ PlacedInv /\ SeenInv /\ ReadBack /\ BooksInv'
  BY BooksStep DEF RecordInv
<1>a. /\ now \in Times /\ now \in Nat
      /\ start # None => start \in StartFiles /\ start.at \in Nat
                         /\ start.at <= now
      /\ bids \subseteq BidFiles /\ placed \in Seq(BidFiles)
      /\ end # None => /\ end \in EndFiles /\ start # None
                       /\ end.time <= start.offer.time
  BY <1>0 DEF TypeOK, BooksInv, Stamped, PlacedInv
<1>1. ASSUME UNCHANGED <<bids, placed>>
      PROVE  PlacedInv'
  BY <1>0, <1>1 DEF PlacedInv
<1>2. ASSUME UNCHANGED <<placed, seen, record>>
      PROVE  SeenInv'
  BY <1>0, <1>2 DEF SeenInv, RecordNewest
<1>3. ASSUME UNCHANGED <<record, asked, shown>>
      PROVE  ReadBack'
  BY <1>0, <1>3 DEF ReadBack, Closed
<1>4. ASSUME NEW o \in Offers, Open(o)
      PROVE  RecordInv'
  <2>1. PICK st \in Stamps(now) :
           /\ start' = [offer |-> o, date |-> st[1], at |-> st[2]]
           /\ now' = st[2]
    BY <1>4 DEF Open
  <2>2. start' \in StartFiles /\ now' \in Times
    BY <2>1 DEF Stamps, StartFiles
  <2>3. /\ start = None
        /\ UNCHANGED <<bids, end, record, asked, shown, placed, seen>>
    BY <1>4 DEF Open
  <2>4. end' = None
    BY <1>a, <2>3
  <2>5. TypeOK'
    BY <1>0, <1>a, <2>2, <2>3, <2>4, FilesTyped
  <2>. QED
    BY <1>0, <1>1, <1>2, <1>3, <2>3, <2>5 DEF RecordInv
<1>5. ASSUME NEW u \in Bidders, NEW v \in Values, Bid(u, v)
      PROVE  RecordInv'
  <2>0. start # None /\ UNCHANGED <<record, asked, shown, seen>>
    BY <1>5 DEF Bid
  <2>1. PICK t \in Times :
           /\ t >= now
           /\ \/ Close(t) /\ UNCHANGED placed
              \/ /\ ~Outbid(v)
                 /\ \E st \in Stamps(t) :
                       LET b == [uid |-> u, value |-> v, date |-> st[1],
                                 time |-> Elapsed(st[2])] IN
                       /\ bids' = bids \cup {b}
                       /\ placed' = Append(placed, b)
                       /\ now' = st[2]
                 /\ UNCHANGED <<start, end>>
    BY <1>5 DEF Bid
  <2>2. t \in Nat /\ now <= t
    BY <1>a, <2>1, RecordsAssumption
  <2>3. CASE Close(t) /\ UNCHANGED placed
    <3>1. UNCHANGED <<start, bids>>
      BY <2>3 DEF Close
    <3>2. now' \in Times /\ end' \in EndFiles /\ end'.time <= start'.offer.time
      BY <1>0, <2>0, <2>2, <2>3, <3>1, CloseTypes
    <3>3. TypeOK'
      BY <1>0, <1>a, <2>0, <3>1, <3>2, FilesTyped
    <3>. QED
      BY <1>0, <1>1, <1>2, <1>3, <2>0, <2>3, <3>1, <3>3 DEF RecordInv
  <2>4. ASSUME NEW st \in Stamps(t), NEW b,
               b = [uid |-> u, value |-> v, date |-> st[1],
                    time |-> Elapsed(st[2])],
               bids' = bids \cup {b}, placed' = Append(placed, b),
               now' = st[2], ~Outbid(v), UNCHANGED <<start, end>>
        PROVE  RecordInv'
    <3>1. st[1] \in Times /\ st[2] \in Times /\ st[2] \in Nat /\ t <= st[2]
      <4>1. st[1] \in Times /\ st[2] \in Times
        BY DEF Stamps
      <4>. QED
        BY <2>2, <4>1, StampsFacts
    <3>2. Elapsed(st[2]) \in Nat
      BY <1>a, <2>0, <2>2, <3>1 DEF Elapsed
    <3>3. b \in BidFiles /\ b.value = v
      BY <2>4, <3>1, <3>2 DEF BidFiles
    <3>4. \A a \in bids : a.value < b.value
      <4>1. \A a \in bids : a.value \in Int /\ v \in Int
        BY <1>a, RecordsAssumption DEF BidFiles
      <4>2. \A a \in bids : ~(a.value >= v)
        BY <2>4 DEF Outbid
      <4>. QED
        BY <3>3, <4>1, <4>2
    <3>5. PlacedInv'
      <4> DEFINE more == bids \cup {b}
                 list == Append(placed, b)
      <4>1. /\ list \in Seq(BidFiles) /\ Rising(list)
            /\ more = {list[i] : i \in 1 .. Len(list)}
            /\ IsFiniteSet(more) /\ Cardinality(more) = Len(list)
            /\ \A s \in SetToSeqs(more) : Ordered(s) => s = list
        BY <1>0, <3>3, <3>4, PlacedGrows
      <4>2. bids' = more /\ placed' = list
        BY <2>4
      <4> HIDE DEF more, list
      <4>. QED
        BY <4>1, <4>2 DEF PlacedInv, Rising
    <3>6. SeenInv'
      <4> DEFINE m == Higher(0, seen - MaxShown) + 1
      <4>1. /\ Len(placed) \in Nat /\ seen \in 0 .. Len(placed)
            /\ Len(placed') = Len(placed) + 1
        BY <1>0, <1>a, <2>4, <3>3, AppendProperties DEF SeenInv
      <4>2. m \in Nat \ {0}
        BY <4>1, RecordsAssumption DEF Higher
      <4> HIDE DEF m
      <4>3. SubSeq(placed', m, seen) = SubSeq(placed, m, seen)
        BY <1>a, <2>4, <3>3, <4>1, <4>2, CutKept
      <4>4. seen' \in 0 .. Len(placed')
        BY <2>0, <4>1
      <4>5. record # None => record.list = SubSeq(placed', m, seen)
        BY <1>0, <4>3 DEF SeenInv, RecordNewest, m
      <4>. QED
        BY <2>0, <4>4, <4>5 DEF SeenInv, RecordNewest, m
    <3>7. bids' \subseteq BidFiles
      BY <1>a, <2>4, <3>3
    <3>8. TypeOK'
      BY <1>0, <1>a, <2>0, <2>4, <3>1, <3>7, FilesTyped
    <3>. QED
      BY <1>0, <1>3, <2>0, <3>5, <3>6, <3>8 DEF RecordInv
  <2>. QED
    BY <2>1, <2>3, <2>4
<1>6. CASE CloseAuction
  <2>1. /\ start # None /\ Close(now)
        /\ UNCHANGED <<start, bids, record, asked, shown, placed, seen>>
    BY <1>6 DEF CloseAuction, Close
  <2>2. now' \in Times /\ end' \in EndFiles /\ end'.time <= start'.offer.time
    BY <1>0, <1>a, <2>1, CloseTypes
  <2>3. TypeOK'
    BY <1>0, <1>a, <2>1, <2>2, FilesTyped
  <2>. QED
    BY <1>0, <1>1, <1>2, <1>3, <2>1, <2>3 DEF RecordInv
<1>7. CASE ShowRecord
  <2>1. PICK t \in Times :
           /\ t >= now /\ start # None /\ UNCHANGED <<start, bids>>
           /\ \/ Close(t)
              \/ now' = t /\ end' = end
    BY <1>7 DEF ShowRecord, files, Close
  <2>2. /\ record' = [start |-> start, list |-> NewestBids(Sorted(bids)),
                      end |-> end']
        /\ asked' = TRUE /\ seen' = Len(placed) /\ UNCHANGED <<shown, placed>>
    BY <1>7 DEF ShowRecord
  <2>3. /\ now' \in Times
        /\ end' # None => /\ end' \in EndFiles
                          /\ end'.time <= start.offer.time
    <3>1. CASE Close(t)
      BY <1>0, <1>a, <2>1, <3>1, CloseTypes, RecordsAssumption
    <3>2. CASE now' = t /\ end' = end
      BY <1>a, <3>2
    <3>. QED
      BY <2>1, <3>1, <3>2
  <2>4. Sorted(bids) = placed
    BY <1>0, SortedPlaced
  <2> DEFINE list == NewestBids(placed)
  <2>5. /\ list = SubSeq(placed, Higher(0, Len(placed) - MaxShown) + 1,
                         Len(placed))
        /\ list \in Seq(BidFiles) /\ Len(list) <= MaxShown
    BY <1>a, NewestOf
  <2> HIDE DEF list
  <2>6. record' = [start |-> start, list |-> list, end |-> end']
    BY <2>2, <2>4 DEF list
  <2>7. SeenInv'
    <3>1. Len(placed) \in Nat
      BY <1>a
    <3>. QED
      BY <2>2, <2>5, <2>6, <3>1 DEF SeenInv, RecordNewest
  <2>8. record' \in AuctionRecords /\ record' # None
    <3>1. record' \in AuctionRecords
      <4>1. start \in StartFiles /\ end' \in EndFiles \cup {None}
        BY <1>a, <2>1, <2>3
      <4>. QED
        BY <2>5, <2>6, <4>1 DEF AuctionRecords
    <3>. QED
      BY <3>1, RecordsAssumption
  <2>9. TypeOK'
    <3>1. /\ start' # None => start' \in StartFiles
          /\ end' # None => /\ end' \in EndFiles /\ start' # None
                            /\ end'.time <= start'.offer.time
          /\ bids' \subseteq BidFiles
      BY <1>a, <2>1, <2>3
    <3>2. /\ Len(record'.list) <= MaxShown
          /\ record'.end # None => record'.end.time <= record'.start.offer.time
      BY <2>3, <2>5, <2>6
    <3>3. shown' # None => shown' \in Screens
      BY <1>0, <2>2 DEF TypeOK
    <3>. QED
      BY <2>2, <2>3, <2>8, <3>1, <3>2, <3>3 DEF TypeOK
  <2>10. ReadBack'
    BY <2>2 DEF ReadBack
  <2>. QED
    BY <1>0, <1>1, <2>1, <2>2, <2>7, <2>9, <2>10 DEF RecordInv
<1>8. CASE Receive
  <2> DEFINE m == recordMessage(record)
  <2>1. /\ asked /\ asked' = FALSE
        /\ shown' = IF RecordUnreadable(m) THEN None ELSE readRecord(m)
        /\ UNCHANGED <<now, start, bids, end, record, placed, seen>>
    BY <1>8 DEF Receive, files
  <2>2. /\ record # None /\ record \in AuctionRecords
        /\ record.end # None => record.end.time <= record.start.offer.time
    BY <1>0, <2>1 DEF TypeOK
  <2>3. /\ ~RecordUnreadable(m)
        /\ readRecord(m) \in Screens /\ readRecord(m) # None
    <3>1. ReadRightly(record)
      BY <2>2, RecordRead
    <3>. QED
      BY <3>1 DEF ReadRightly
  <2>4. shown' = readRecord(m)
    BY <2>1, <2>3
  <2>5. /\ [host |-> shown'.host, title |-> shown'.title,
            fname |-> shown'.fname, value |-> shown'.value,
            time |-> shown'.time] = record.start.offer
        /\ shown'.date = record.start.date
        /\ (\A i \in DOMAIN record.list : record.list[i].time <= 99999) =>
              /\ shown'.bids = record.list
              /\ \/ shown'.end = record.end
                 \/ record.end.time = 0 /\ shown'.end = None
        /\ Closed(shown') => shown'.end = record.end
    <3> DEFINE s == readRecord(m)
    <3>1. /\ [host |-> s.host, title |-> s.title, fname |-> s.fname,
              value |-> s.value, time |-> s.time] = record.start.offer
          /\ s.date = record.start.date
          /\ (\A i \in DOMAIN record.list : record.list[i].time <= 99999) =>
                /\ s.bids = record.list
                /\ \/ s.end = record.end
                   \/ record.end.time = 0 /\ s.end = None
          /\ Closed(s) => s.end = record.end
      <4>1. ReadRightly(record)
        BY <2>2, RecordRead
      <4>. QED
        BY <4>1 DEF ReadRightly
    <3> HIDE DEF s
    <3>2. shown' = s
      BY <2>4 DEF s
    <3>. QED
      BY <3>1, <3>2
  <2>6. ReadBack'
    BY <2>1, <2>3, <2>4, <2>5 DEF ReadBack, Closed
  <2>7. TypeOK'
    BY <1>0, <2>1, <2>3, <2>4 DEF TypeOK
  <2>. QED
    BY <1>0, <1>1, <1>2, <2>1, <2>6, <2>7 DEF RecordInv
<1>9. CASE UNCHANGED vars
  <2>1. UNCHANGED <<now, start, bids, end, record, asked, shown, placed, seen>>
    BY <1>9 DEF vars, files
  <2>2. TypeOK'
    BY <1>0, <2>1 DEF TypeOK
  <2>. QED
    BY <1>0, <1>1, <1>2, <1>3, <2>1, <2>2 DEF RecordInv
<1> QED
  BY <1>4, <1>5, <1>6, <1>7, <1>8, <1>9 DEF Next

\* Files, record and screen have their types: an auction ends within the
\* duration it was opened for, and no record has more than MaxShown bids.
THEOREM TypeCorrect == Spec => []TypeOK
<1>1. RecordInv => TypeOK
  BY DEF RecordInv
<1> QED  BY <1>1, RecordInit, RecordStep, PTL DEF Spec

\* ShowRecord knows nothing of the order of the bids: it sorts the values and
\* cuts the list.  What is left are the bids that were accepted last.
THEOREM RecordsNewest == Spec => []RecordNewest
<1>1. RecordInv => RecordNewest
  BY DEF RecordInv, SeenInv
<1> QED  BY <1>1, RecordInit, RecordStep, PTL DEF Spec

\* The client can read every record of the server, and shows what is in it,
\* but for an end at second 0 and what follows a bid after second 99999.
THEOREM RecordsReadBack == Spec => []ReadBack
<1>1. RecordInv => ReadBack
  BY DEF RecordInv
<1> QED  BY <1>1, RecordInit, RecordStep, PTL DEF Spec
=============================================================================
