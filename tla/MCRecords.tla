------------------------------ MODULE MCRecords ------------------------------
(* Values for the constants of Records, at the limits of their fields.     *)
EXTENDS Records

Chars(n) == [len |-> n, num |-> 0]

\* An auction that is over at once, and the longest one there can be.
RecordOffers ==
    {[host |-> 100000, title |-> Chars(1), fname |-> Chars(5), value |-> 1,
      time |-> 1],
     [host |-> 999999, title |-> Chars(MAX_AUCTION_NAME_SIZE),
      fname |-> Chars(MAX_FILENAME_SIZE), value |-> 99999, time |-> 99999]}

\* The second offer accepts two of them, the first all three.
RecordValues == {2, 100000, 999999}
RecordTimes  == {0, 1, 99998, 99999, 100000}
=============================================================================
