------------------------------ MODULE Messages ------------------------------
(***************************************************************************)
(* A request on its way from the user to the database: the words he types, *)
(* the checks and conversions of the client (commands.cpp,                 *)
(* verifications.cpp, utils.cpp), the text buildMessage makes of them and  *)
(* what readMessage makes of that text on the server (protocol.cpp).       *)
(*                                                                         *)
(* A word of text is its number of characters and, if it has a value, the  *)
(* number its digits spell: "007" is [len |-> 3, num |-> 7].  Passwords    *)
(* are eight characters at both ends and stand for themselves.             *)
(***************************************************************************)
EXTENDS Integers, Sequences

CONSTANTS
    UintWidth,   \* bits of a uint32_t
    ValueSize    \* MAX_AUCTION_VALUE_SIZE, and the 6 of verify_start_value

\* The second conjunct holds for every width; proofs about values need it.
ASSUME WidthAssumption == /\ UintWidth \in Nat /\ ValueSize \in 1 .. 9
                          /\ 2^UintWidth \in Nat \ {0}

\* config.hpp
USER_ID_SIZE          == 6
AUCTION_ID_SIZE       == 3
MAX_AUCTION_NAME_SIZE == 10
MAX_FILENAME_SIZE     == 24
MAX_FILE_SIZE         == 10000000
MAX_FILE_SIZE_LENGTH  == 8
MAX_LENGTH_TIMEACTIVE == 5

UdpCodes == {"LIN", "LOU", "UNR", "LMA", "LMB", "LST", "SRC"}
TcpCodes == {"OPA", "CLS", "SAS", "BID"}

\* Commands go by the code of the message they send; exit sends one too.
Code(command) == IF command = "exit" THEN "LOU" ELSE command

Lower(a, b)  == IF a < b THEN a ELSE b
Higher(a, b) == IF a < b THEN b ELSE a

-----------------------------------------------------------------------------
(* Numbers and their text.                                                 *)

\* Mutant: static_cast<uint32_t> keeps one bit less.
UintNarrow(n) == n % 2^(UintWidth - 1)

\* static_cast<uint32_t>(stol(..))
Uint(n) == n % 2^UintWidth

\* Ten digits stand for ten or more: no field has room for them.
Digits(n) == CHOOSE d \in 1 .. 10 : /\ d = 10 \/ n < 10^d
                                    /\ d = 1 \/ n >= 10^(d - 1)

Printed(n) == [len |-> Digits(n), num |-> n]                           \* <<
Padded(n)  == [len |-> Higher(Digits(n), AUCTION_ID_SIZE), num |-> n]  \* "%03d"

\* All the characters are digits: there is no sign among them.
isdigit(w) == w.num \in Nat

verify_user_id(w)    == w.len = USER_ID_SIZE /\ w.num # 0 /\ isdigit(w)
verify_auction_id(w) == w.len = AUCTION_ID_SIZE /\ isdigit(w)
verify_value(n)      == n > 0
\* verify_name and, for a file that can be opened, verify_asset_fname.
verify_name(w)       == w.len <= MAX_FILENAME_SIZE
verify_start_value(w) == w.len <= ValueSize /\ isdigit(w)
verify_timeactive(w) == /\ w.len <= MAX_LENGTH_TIMEACTIVE /\ w # Printed(0)
                        /\ isdigit(w)

-----------------------------------------------------------------------------
(* The client.  A command that fails a check returns to the prompt and has *)
(* sent nothing; so does one whose conversion throws.                      *)

Verified(t) ==
    /\ t.op = "LIN" => verify_user_id(t.uid)
    /\ t.op \in {"SRC", "SAS", "CLS", "BID"} => verify_auction_id(t.aid)
    /\ t.op \in {"OPA", "BID"} => verify_value(Uint(t.value.num))
    /\ t.op = "OPA" => /\ verify_name(t.title) /\ verify_name(t.fname)
                       /\ verify_start_value(t.value)
                       /\ verify_timeactive(t.time)

\* The fields of message_out, as far as the message has them.
MessageOut(t, user, password) ==
    [op |-> Code(t.op), uid |-> user, pw |-> password, aid |-> t.aid.num,
     value |-> Uint(t.value.num), time |-> t.time.num, size |-> t.size,
     title |-> t.title, fname |-> t.fname]

-----------------------------------------------------------------------------
(* buildMessage and readMessage of the client's messages.                  *)

Fields == [LIN |-> {"uid"}, LOU |-> {"uid"}, UNR |-> {"uid"},
           LMA |-> {"uid"}, LMB |-> {"uid"}, LST |-> {}, SRC |-> {"aid"},
           OPA |-> {"uid", "title", "value", "time", "fname", "size"},
           CLS |-> {"uid", "aid"}, SAS |-> {"aid"},
           BID |-> {"uid", "aid", "value"}]

\* User ids are not padded, although their readers want six characters.
FieldText(out, f) ==
    IF f = "aid" THEN Padded(out.aid)
    ELSE IF f \in {"title", "fname"} THEN out[f]
    ELSE Printed(out[f])

buildMessage(out) == [f \in Fields[out.op] |-> FieldText(out, f)]

ReadLimit == [uid |-> USER_ID_SIZE, aid |-> AUCTION_ID_SIZE,
              value |-> ValueSize, title |-> MAX_AUCTION_NAME_SIZE,
              time |-> MAX_LENGTH_TIMEACTIVE, fname |-> MAX_FILENAME_SIZE,
              size |-> MAX_FILE_SIZE_LENGTH]

\* readString stops at the limit and leaves the rest of a longer word.
readString(w, max_len) ==
    [len |-> Lower(w.len, max_len),
     num |-> w.num \div 10^(w.len - Lower(w.len, max_len))]

\* Mutant: what is left of a word that is too long goes unnoticed.
ReadableStart(f, w) ==
    LET str == readString(w, ReadLimit[f]) IN
    /\ f = "uid" => verify_user_id(str)
    /\ f = "aid" => verify_auction_id(str)
    /\ f = "value" => verify_value(Uint(str.num))

\* The conversion of the field accepts it, and the space or the delimiter
\* that has to follow does.
Readable(f, w) ==
    LET str == readString(w, ReadLimit[f]) IN
    /\ f = "uid" => verify_user_id(str)
    /\ f = "aid" => verify_auction_id(str)
    /\ f = "value" => verify_value(Uint(str.num))
    /\ str.len = w.len

\* readMessage ends, or throws InvalidMessageException (answered ERR) or the
\* FileException of readFile, which comes last (not answered).
ReadResult(text) ==
    IF \E f \in DOMAIN text : ~Readable(f, text[f]) THEN "InvalidMessage"
    ELSE IF "size" \in DOMAIN text /\ text["size"].num > MAX_FILE_SIZE
         THEN "File" ELSE "read"

\* The fields of message_in.
MessageIn(text) == [f \in DOMAIN text |-> readString(text[f], ReadLimit[f])]

-----------------------------------------------------------------------------
(* The answers: the statuses that buildMessage of the server's messages    *)
(* can write.  readMessage on the client accepts the same.                 *)

ReplyStatuses ==
    [LIN |-> {"OK", "NOK", "REG", "ERR"}, LOU |-> {"OK", "NOK", "UNR", "ERR"},
     UNR |-> {"OK", "NOK", "UNR", "ERR"}, LMA |-> {"OK", "NOK", "NLG", "ERR"},
     LMB |-> {"OK", "NOK", "NLG", "ERR"}, LST |-> {"OK", "NOK", "ERR"},
     SRC |-> {"OK", "NOK", "ERR"}, OPA |-> {"OK", "NOK", "ERR"},
     CLS |-> {"OK", "NLG", "EAU", "EOW", "END", "NOK", "ERR"},
     SAS |-> {"OK", "NOK", "ERR"},
     BID |-> {"NOK", "NLG", "ACC", "REF", "ILG", "ERR"}]
=============================================================================
