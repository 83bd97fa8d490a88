------------------------------- MODULE Records -------------------------------
(***************************************************************************)
(* The record of one auction on its way from the files to the screen: what *)
(* Open, Bid and Close write into START, BIDS and END (database.cpp), the  *)
(* answer to SRC that ShowRecord and its handler make of these files, and  *)
(* what readMessage on the client and printRecord make of the answer.      *)
(*                                                                         *)
(* AuctionServer shows that requests exclude each other; here each is one  *)
(* step.  The clock still moves inside a step: every file is stamped with  *)
(* a date and an elapsed time that are readings of their own.  A date is   *)
(* the second it names, and its text always has the same length.           *)
(***************************************************************************)
EXTENDS Messages, FiniteSets, SequencesExt

CONSTANTS
    Offers,     \* what Open may be asked for, as the server has read it
    Bidders,    \* user ids, as numbers
    Values,     \* values of bids
    Times,      \* the seconds the clock is read at
    MaxShown,   \* the 50 of ShowRecord
    None        \* no file, no answer

MAX_TIMEACTIVE_SIZE == 6

Word  == [len : Nat, num : Nat]
Offer == [host : Nat, title : Word, fname : Word, value : Nat, time : Nat]

\* What is in the files, in an answer to SRC and on the screen.
StartFiles == [offer : Offers, date : Times, at : Times]
BidFiles   == [uid : Bidders, value : Values, date : Times, time : Nat]
EndFiles   == [date : Nat, time : Nat]
AuctionRecords == [start : StartFiles, list : Seq(BidFiles),
                   end : EndFiles \cup {None}]
EndTexts   == [date : Nat, time : Word]
Screens    == [host : Nat, title : Word, fname : Word, value : Nat,
               date : Times, time : Nat, bids : Seq(BidFiles),
               end : EndFiles \cup {None}]

\* What readMessage on the server lets through to the database.
ASSUME RecordsAssumption ==
    /\ Offers \subseteq Offer
    /\ \A o \in Offers :
          /\ Readable("uid", Printed(o.host))
          /\ Readable("title", o.title) /\ Readable("fname", o.fname)
          /\ Readable("value", Printed(o.value))
          /\ o.time > 0 /\ Readable("time", Printed(o.time))
    /\ \A u \in Bidders : u \in Nat /\ Readable("uid", Printed(u))
    /\ \A v \in Values : v \in Nat /\ Readable("value", Printed(v))
    /\ Times \subseteq Nat /\ Times # {} /\ MaxShown \in Nat \ {0}
    /\ None \notin StartFiles \cup EndFiles \cup AuctionRecords
                  \cup EndTexts \cup Screens

VARIABLES
    now,      \* the clock
    start,    \* the START file
    bids,     \* the files in BIDS
    end,      \* the END file
    record,   \* the AuctionRecord of the last SRC
    asked,    \* its answer is under way
    shown,    \* what the client made of the last answer
    \* history, read by the properties only
    placed,   \* the bids in the order they were accepted
    seen      \* how many of them there were when record was made

files == <<start, bids, end>>
vars  == <<now, files, record, asked, shown, placed, seen>>

Init == /\ now \in Times
        /\ start = None /\ bids = {} /\ end = None
        /\ record = None /\ asked = FALSE /\ shown = None
        /\ placed = <<>> /\ seen = 0

-----------------------------------------------------------------------------
(* The files.                                                              *)

\* The date, then the time: two readings of the clock after second t.
Stamps(t) == {st \in Times \X Times : t <= st[1] /\ st[1] <= st[2]}

Elapsed(s) == s - start.at

Open(o) == \E st \in Stamps(now) :
    /\ start = None
    /\ start' = [offer |-> o, date |-> st[1], at |-> st[2]]
    /\ now' = st[2]
    /\ UNCHANGED <<bids, end, record, asked, shown, placed, seen>>

\* Mutant: the duration does not cap the time of the end.
EndFileUncapped(st) == [date |-> st[1], time |-> Elapsed(st[2])]

\* What CreateEndFile writes: the end the auction was meant to have, or now.
EndFile(st) ==
    LET supposed_end == start.offer.time IN
    IF Elapsed(st[2]) > supposed_end
    THEN [date |-> start.at + supposed_end, time |-> supposed_end]
    ELSE [date |-> st[1], time |-> Elapsed(st[2])]

\* Mutants: "END" misspelt, as CloseAuction does it in a check of its own.
EndOverwritten == TRUE
EndUnnoticed   == TRUE

\* CheckEndExists in CreateEndFile, which else leaves the file alone, and in
\* Bid, which else is refused.
EndToBeMade == end = None
BidsAllowed == end = None

\* Close, when the caller has read the clock at t.
Close(t) == \E st \in Stamps(t) :
    /\ end' = IF EndToBeMade THEN EndFile(st) ELSE end
    /\ now' = st[2]
    /\ UNCHANGED <<start, bids>>

\* The host's CLS comes to Close in every case, whatever it answers.
CloseAuction ==
    /\ start # None
    /\ Close(now)
    /\ UNCHANGED <<record, asked, shown, placed, seen>>

Outbid(v) == IF bids = {} THEN start.offer.value >= v
             ELSE \E b \in bids : b.value >= v

\* Bid looks at the clock for its check, and CreateBidFile again for the file.
Bid(u, v) == \E t \in {s \in Times : s >= now} :
    /\ start # None /\ u # start.offer.host /\ BidsAllowed
    /\ \/ /\ Elapsed(t) >= start.offer.time
          /\ Close(t)
          /\ UNCHANGED placed
       \/ /\ Elapsed(t) < start.offer.time /\ ~Outbid(v)
          /\ \E st \in Stamps(t) :
                LET b == [uid |-> u, value |-> v, date |-> st[1],
                          time |-> Elapsed(st[2])] IN
                /\ bids' = bids \cup {b}
                /\ placed' = Append(placed, b)
                /\ now' = st[2]
          /\ UNCHANGED <<start, end>>
    /\ UNCHANGED <<record, asked, shown, seen>>

-----------------------------------------------------------------------------
(* SRC on the server.                                                      *)

CompareByValue(a, b) == a.value < b.value

\* std::sort: no bid of the list is less than one that comes before it.
Ordered(list) == \A i, j \in DOMAIN list :
                    i < j => ~CompareByValue(list[j], list[i])
Sorted(S)     == CHOOSE list \in SetToSeqs(S) : Ordered(list)

\* Mutant: erase takes the bids at the other end of the list.
OldestBids(list) == SubSeq(list, 1, Lower(Len(list), MaxShown))

NewestBids(list) ==
    SubSeq(list, Higher(1, Len(list) - MaxShown + 1), Len(list))

ShowRecord == \E t \in {s \in Times : s >= now} :
    /\ start # None /\ ~asked
    /\ IF end = None /\ Elapsed(t) >= start.offer.time
       THEN Close(t)
       ELSE now' = t /\ UNCHANGED files
    /\ record' = [start |-> start,
                  list |-> NewestBids(Sorted(bids)),
                  end |-> end']
    /\ asked' = TRUE
    /\ seen' = Len(placed)
    /\ UNCHANGED <<shown, placed>>

\* buildMessage; an end at second 0 is left out as if there were none.
recordMessage(r) ==
    [host |-> Printed(r.start.offer.host),
     title |-> r.start.offer.title, fname |-> r.start.offer.fname,
     value |-> Printed(r.start.offer.value), date |-> r.start.date,
     time |-> Printed(r.start.offer.time),
     B |-> [i \in DOMAIN r.list |->
               [uid |-> Printed(r.list[i].uid),
                value |-> Printed(r.list[i].value), date |-> r.list[i].date,
                time |-> Printed(r.list[i].time)]],
     E |-> IF r.end # None /\ r.end.time > 0
           THEN [date |-> r.end.date, time |-> Printed(r.end.time)] ELSE None]

-----------------------------------------------------------------------------
(* SRC on the client.                                                      *)

\* A word that has to end within its limit, or readMessage throws.
Fits(w, max_len) == w.len <= max_len

\* The loop over the bids reads those before the first whose elapsed time is
\* longer than the reader's limit, and that one.  What is left of that word is
\* no space: the loop ends, and as it is no "E" either, readMessage returns
\* without the rest and without an error.
Overlong(B) == {i \in DOMAIN B : ~Fits(B[i].time, MAX_LENGTH_TIMEACTIVE)}
BidsRead(B) == Cardinality({i \in DOMAIN B : \A j \in Overlong(B) : i <= j})

\* Mutant: the loop over the bids takes the space before the "E" for its own.
EndReadAlone(m) == m.B = <<>> /\ m.E # None

EndRead(m) == Overlong(m.B) = {} /\ m.E # None

\* readMessage throws InvalidMessageException.
RecordUnreadable(m) ==
    \/ ~Readable("uid", m.host) \/ ~Readable("title", m.title)
    \/ ~Readable("fname", m.fname) \/ ~Readable("value", m.value)
    \/ ~Fits(m.time, MAX_TIMEACTIVE_SIZE)
    \/ \E i \in 1 .. BidsRead(m.B) : \/ ~Readable("uid", m.B[i].uid)
                                     \/ ~Fits(m.B[i].value, ValueSize)
    \/ EndRead(m) /\ ~Fits(m.E.time, MAX_LENGTH_TIMEACTIVE)

readRecord(m) ==
    [host |-> m.host.num, title |-> m.title, fname |-> m.fname,
     value |-> m.value.num, date |-> m.date, time |-> m.time.num,
     bids |-> [i \in 1 .. BidsRead(m.B) |->
                  [uid |-> m.B[i].uid.num, value |-> m.B[i].value.num,
                   date |-> m.B[i].date,
                   time |-> readString(m.B[i].time, MAX_LENGTH_TIMEACTIVE).num]],
     end |-> IF EndRead(m) THEN [date |-> m.E.date, time |-> m.E.time.num]
                           ELSE None]

\* printRecord goes by the time of the end alone.
Closed(s) == s.end # None

Receive ==
    LET m == recordMessage(record) IN
    /\ asked
    /\ asked' = FALSE
    /\ shown' = IF RecordUnreadable(m) THEN None ELSE readRecord(m)
    /\ UNCHANGED <<now, files, record, placed, seen>>

Next == \/ \E o \in Offers : Open(o)
        \/ \E u \in Bidders, v \in Values : Bid(u, v)
        \/ CloseAuction \/ ShowRecord \/ Receive

Spec == Init /\ [][Next]_vars

-----------------------------------------------------------------------------
(* Properties                                                              *)

\* Files, answer and screen have their types: among them, an auction ends
\* within the duration it was opened for and a record has MaxShown bids.
TypeOK ==
    /\ now \in Times /\ asked \in BOOLEAN
    /\ start # None => start \in StartFiles
    /\ bids \subseteq BidFiles
    /\ end # None => /\ end \in EndFiles /\ start # None
                     /\ end.time <= start.offer.time
    /\ record # None =>
          /\ record \in AuctionRecords /\ Len(record.list) <= MaxShown
          /\ record.end # None => record.end.time <= record.start.offer.time
    /\ asked => record # None
    /\ shown # None => shown \in Screens

\* ShowRecord sorts the values of the files it finds and cuts the list: what
\* is left are the bids accepted last, in the order they were accepted.
RecordNewest ==
    record # None =>
        record.list = SubSeq(placed, Higher(0, seen - MaxShown) + 1, seen)

\* A bid is stamped after it was checked.  Its elapsed time can be past that
\* of the end, but only where the end is the one the auction was opened with.
BidsPrecedeEnd ==
    end # None => \A b \in bids : \/ b.time <= end.time
                                  \/ end.time = start.offer.time

\* What the client shows is what the server had in its files.  There are two
\* exceptions: an auction that ended at second 0 is shown as active, and a
\* bid stamped after second 99999 hides all that follows it.
ReadBack ==
    (record # None /\ ~asked) =>
        /\ shown # None
        /\ [host |-> shown.host, title |-> shown.title,
            fname |-> shown.fname, value |-> shown.value,
            time |-> shown.time] = record.start.offer
        /\ shown.date = record.start.date
        /\ (\A i \in DOMAIN record.list : record.list[i].time <= 99999) =>
              /\ shown.bids = record.list
              /\ \/ shown.end = record.end
                 \/ record.end.time = 0 /\ shown.end = None
        /\ Closed(shown) => shown.end = record.end

\* Once the client has shown the auction as closed, every later record shows
\* the same end and the same bids.
ClosedForGood ==
    [][(shown # None /\ Closed(shown)) => shown' = shown]_vars
=============================================================================
