--------------------------- MODULE Messages_proofs ---------------------------
(***************************************************************************)
(* What the text of a number and the reader of a word do for every number, *)
(* every width of an unsigned integer and every limit: the facts that the  *)
(* proofs about ClientSession and Records rest on.                         *)
(***************************************************************************)
EXTENDS Messages, TLAPS

\* A number has at most d digits if and only if it is less than 10^d.
LEMMA DigitsOf ==
    ASSUME NEW n \in Int
    PROVE  /\ Digits(n) \in 1 .. 10
           /\ \A d \in 1 .. 9 : Digits(n) <= d <=> n < 10^d
<1> DEFINE P(d) == /\ d = 10 \/ n < 10^d
                   /\ d = 1 \/ n >= 10^(d - 1)
<1>0. /\ 10^1 = 10 /\ 10^2 = 100 /\ 10^3 = 1000 /\ 10^4 = 10000
      /\ 10^5 = 100000 /\ 10^6 = 1000000 /\ 10^7 = 10000000
      /\ 10^8 = 100000000 /\ 10^9 = 1000000000
  OBVIOUS
<1>1. /\ 2 - 1 = 1 /\ 3 - 1 = 2 /\ 4 - 1 = 3 /\ 5 - 1 = 4 /\ 6 - 1 = 5
      /\ 7 - 1 = 6 /\ 8 - 1 = 7 /\ 9 - 1 = 8 /\ 10 - 1 = 9
  OBVIOUS
<1>2. /\ P(1) <=> n < 10
      /\ P(2) <=> n < 100 /\ n >= 10
      /\ P(3) <=> n < 1000 /\ n >= 100
      /\ P(4) <=> n < 10000 /\ n >= 1000
      /\ P(5) <=> n < 100000 /\ n >= 10000
      /\ P(6) <=> n < 1000000 /\ n >= 100000
      /\ P(7) <=> n < 10000000 /\ n >= 1000000
      /\ P(8) <=> n < 100000000 /\ n >= 10000000
      /\ P(9) <=> n < 1000000000 /\ n >= 100000000
      /\ P(10) <=> n >= 1000000000
  BY <1>0, <1>1
<1> HIDE DEF P
<1>3. \E d \in {1, 2, 3, 4, 5, 6, 7, 8, 9, 10} : P(d)
  BY <1>2
<1>4. \E d \in 1 .. 10 : P(d)
  BY <1>3
<1>5. Digits(n) \in 1 .. 10 /\ P(Digits(n))
  <2>1. Digits(n) = CHOOSE d \in 1 .. 10 : P(d)
    BY DEF Digits, P
  <2>. QED
    BY <1>4, <2>1
<1>6. Digits(n) \in {1, 2, 3, 4, 5, 6, 7, 8, 9, 10}
  BY <1>5
<1> DEFINE D == Digits(n)
<1>7. D \in Nat /\ P(D)
  BY <1>5
<1> HIDE DEF D
<1>8. /\ D <= 1 <=> n < 10
      /\ D <= 2 <=> n < 100
      /\ D <= 3 <=> n < 1000
      /\ D <= 4 <=> n < 10000
      /\ D <= 5 <=> n < 100000
      /\ D <= 6 <=> n < 1000000
      /\ D <= 7 <=> n < 10000000
      /\ D <= 8 <=> n < 100000000
      /\ D <= 9 <=> n < 1000000000
  BY <1>2, <1>6, <1>7 DEF D
<1>9. \A d \in {1, 2, 3, 4, 5, 6, 7, 8, 9} : D <= d <=> n < 10^d
  <2>1. SUFFICES ASSUME NEW d \in {1, 2, 3, 4, 5, 6, 7, 8, 9}
                 PROVE  D <= d <=> n < 10^d
    OBVIOUS
  <2>2. CASE d = 1
    <3>1. 10^d = 10
      BY <2>2
    <3>. QED
      BY <1>8, <2>2, <3>1
  <2>3. CASE d = 2
    <3>1. 10^d = 100
      BY <2>3
    <3>. QED
      BY <1>8, <2>3, <3>1
  <2>4. CASE d = 3
    <3>1. 10^d = 1000
      BY <2>4
    <3>. QED
      BY <1>8, <2>4, <3>1
  <2>5. CASE d = 4
    <3>1. 10^d = 10000
      BY <2>5
    <3>. QED
      BY <1>8, <2>5, <3>1
  <2>6. CASE d = 5
    <3>1. 10^d = 100000
      BY <2>6
    <3>. QED
      BY <1>8, <2>6, <3>1
  <2>7. CASE d = 6
    <3>1. 10^d = 1000000
      BY <2>7
    <3>. QED
      BY <1>8, <2>7, <3>1
  <2>8. CASE d = 7
    <3>1. 10^d = 10000000
      BY <2>8
    <3>. QED
      BY <1>8, <2>8, <3>1
  <2>9. CASE d = 8
    <3>1. 10^d = 100000000
      BY <2>9
    <3>. QED
      BY <1>8, <2>9, <3>1
  <2>10. CASE d = 9
    <3>1. 10^d = 1000000000
      BY <2>10
    <3>. QED
      BY <1>8, <2>10, <3>1
  <2>. QED
    BY <2>2, <2>3, <2>4, <2>5, <2>6, <2>7, <2>8, <2>9, <2>10
<1>10. \A d \in 1 .. 9 : d \in {1, 2, 3, 4, 5, 6, 7, 8, 9}
  OBVIOUS
<1>. QED
  BY <1>5, <1>9, <1>10 DEF D

\* static_cast<uint32_t> keeps a number that fits, and what it makes of another
\* differs from it by a multiple of the type's size.
LEMMA UintOf ==
    ASSUME NEW n \in Int
    PROVE  /\ Uint(n) \in Nat /\ Uint(Uint(n)) = Uint(n)
           /\ (Uint(n) - n) % 2^UintWidth = 0
<1> DEFINE m == 2^UintWidth
<1>0. m \in Nat \ {0}
  BY WidthAssumption
<1> HIDE DEF m
<1>1. n % m \in 0 .. m - 1 /\ n \div m \in Int
  BY <1>0
<1>2. (n % m) % m = n % m
  BY <1>0, <1>1
<1>3. n = m * (n \div m) + (n % m)
  BY <1>0
<1>4. \A k \in Int : (m * k) % m = 0
  BY <1>0
<1>5. (n % m) - n = m * (-(n \div m))
  BY <1>0, <1>1, <1>3
<1>6. ((n % m) - n) % m = 0
  <2>1. -(n \div m) \in Int
    BY <1>1
  <2>. QED
    BY <1>4, <1>5, <2>1
<1>. QED
  BY <1>1, <1>2, <1>6 DEF Uint, m

\* A word that fits is read as it is.
LEMMA readWhole ==
    ASSUME NEW len \in Nat, NEW num \in Int, NEW max_len \in Nat, NEW w,
           w = [len |-> len, num |-> num]
    PROVE  /\ readString(w, max_len).len = w.len <=> len <= max_len
           /\ len <= max_len => readString(w, max_len) = w
<1>1. w.len = len /\ w.num = num
  OBVIOUS
<1>2. CASE len <= max_len
  <2>1. Lower(w.len, max_len) = len
    BY <1>1, <1>2 DEF Lower
  <2>2. len - len = 0 /\ 10^0 = 1 /\ num \div 1 = num
    OBVIOUS
  <2>3. readString(w, max_len) = [len |-> len, num |-> num]
    BY <1>1, <2>1, <2>2 DEF readString
  <2>. QED
    BY <1>1, <1>2, <2>3
<1>3. CASE ~(len <= max_len)
  <2>1. readString(w, max_len).len = max_len
    BY <1>1, <1>3 DEF readString, Lower
  <2>. QED
    BY <1>1, <1>3, <2>1
<1>. QED
  BY <1>2, <1>3

-----------------------------------------------------------------------------
(* Requests                                                                *)

WordOfText(w) == w \in [len : Nat, num : Int] /\ Digits(w.num) <= w.len

\* What readMessage on the server accepts, field by field.
LEMMA FieldsReadable ==
    ASSUME NEW n \in Nat
    PROVE  /\ Readable("uid", Printed(n)) <=> 10^(USER_ID_SIZE - 1) <= n /\ n < 10^6
           /\ n < 1000 => Readable("aid", Padded(n))
           /\ n > 0 /\ Uint(n) = n =>
                 (Readable("value", Printed(n)) <=> n < 10^ValueSize)
           /\ Readable("time", Printed(n)) <=> n < 10^5
           /\ Readable("size", Printed(n)) <=> n < 10^8
           /\ \A w \in [len : Nat, num : Int] :
                 /\ Readable("title", w) <=> w.len <= MAX_AUCTION_NAME_SIZE
                 /\ Readable("fname", w) <=> w.len <= MAX_FILENAME_SIZE
<1> DEFINE p == Printed(n)
           q == Padded(n)
<1>0. /\ USER_ID_SIZE - 1 = 5 /\ USER_ID_SIZE = 6 /\ AUCTION_ID_SIZE = 3
      /\ ReadLimit["uid"] = 6 /\ ReadLimit["aid"] = 3
      /\ ReadLimit["value"] = ValueSize /\ ReadLimit["time"] = 5
      /\ ReadLimit["size"] = 8
      /\ ReadLimit["title"] = MAX_AUCTION_NAME_SIZE
      /\ ReadLimit["fname"] = MAX_FILENAME_SIZE
      /\ MAX_AUCTION_NAME_SIZE \in Nat /\ MAX_FILENAME_SIZE \in Nat
  BY DEF USER_ID_SIZE, AUCTION_ID_SIZE, ReadLimit, MAX_LENGTH_TIMEACTIVE,
         MAX_FILE_SIZE_LENGTH, MAX_AUCTION_NAME_SIZE, MAX_FILENAME_SIZE
<1>1. /\ p = [len |-> Digits(n), num |-> n] /\ Digits(n) \in Nat
      /\ p.len = Digits(n) /\ p.num = n /\ n \in Int
  BY DigitsOf DEF Printed
<1>2. \A k \in Nat : /\ readString(p, k).len = p.len <=> Digits(n) <= k
                     /\ Digits(n) <= k => readString(p, k) = p
  BY <1>1, readWhole
<1>3. /\ Digits(n) <= 5 <=> n < 10^5
      /\ Digits(n) <= 6 <=> n < 10^6
      /\ Digits(n) <= 8 <=> n < 10^8
      /\ Digits(n) <= 3 <=> n < 10^3
      /\ Digits(n) <= ValueSize <=> n < 10^ValueSize
  <2>1. \A d \in 1 .. 9 : Digits(n) <= d <=> n < 10^d
    BY <1>1, DigitsOf
  <2>2. ValueSize \in 1 .. 9
    BY WidthAssumption
  <2>3. 3 \in 1 .. 9 /\ 5 \in 1 .. 9 /\ 6 \in 1 .. 9 /\ 8 \in 1 .. 9
    OBVIOUS
  <2>. QED
    BY <2>1, <2>2, <2>3, Zenon
<1> HIDE DEF p
<1>4. Readable("uid", p) <=> Digits(n) = 6
  <2>1. Readable("uid", p) <=> verify_user_id(readString(p, 6))
                                /\ readString(p, 6).len = p.len
    BY <1>0 DEF Readable
  <2>2. Digits(n) = 6 => n # 0
    BY <1>3
  <2>. QED
    BY <1>0, <1>1, <1>2, <2>1, <2>2 DEF verify_user_id, isdigit
<1>5. 10^5 = 100000 /\ 10^6 = 1000000 /\ 10^3 = 1000
  OBVIOUS
<1>6. Readable("uid", p) <=> 10^5 <= n /\ n < 10^6
  BY <1>1, <1>3, <1>4, <1>5
<1>7. ASSUME n < 1000 PROVE Readable("aid", q)
  <2>1. Higher(Digits(n), 3) = 3
    BY <1>1, <1>3, <1>5, <1>7 DEF Higher
  <2>2. q = [len |-> 3, num |-> n]
    BY <1>0, <2>1 DEF Padded
  <2>3. readString(q, 3) = q /\ readString(q, 3).len = q.len
    BY <1>1, <2>2, readWhole
  <2>4. Readable("aid", q) <=> verify_auction_id(q)
    BY <1>0, <2>3 DEF Readable
  <2>. QED
    BY <1>0, <2>2, <2>4 DEF verify_auction_id, isdigit
<1>8. Readable("time", p) <=> n < 10^5
  BY <1>0, <1>2, <1>3 DEF Readable
<1>9. Readable("size", p) <=> n < 10^8
  BY <1>0, <1>2, <1>3 DEF Readable
<1>10. ASSUME n > 0, Uint(n) = n
       PROVE  Readable("value", p) <=> n < 10^ValueSize
  <2>1. Readable("value", p) <=> /\ verify_value(Uint(readString(p, ValueSize).num))
                                 /\ readString(p, ValueSize).len = p.len
    BY <1>0 DEF Readable
  <2>2. ValueSize \in Nat
    BY WidthAssumption
  <2>. QED
    BY <1>1, <1>2, <1>3, <1>10, <2>1, <2>2 DEF verify_value
<1>11. ASSUME NEW w \in [len : Nat, num : Int]
       PROVE  /\ Readable("title", w) <=> w.len <= MAX_AUCTION_NAME_SIZE
              /\ Readable("fname", w) <=> w.len <= MAX_FILENAME_SIZE
  <2>1. \A k \in Nat : readString(w, k).len = w.len <=> w.len <= k
    BY readWhole
  <2>. QED
    BY <1>0, <2>1 DEF Readable
<1>. QED
  BY <1>0, <1>6, <1>7, <1>8, <1>9, <1>10, <1>11 DEF p

\* The words of a command and the numbers its request will hold.
Command(t, uid) ==
    /\ t.op \in UdpCodes \cup TcpCodes \cup {"exit"}
    /\ \A w \in {t.aid, t.value, t.time, t.title, t.fname} : WordOfText(w)
    /\ t.size \in Nat
    /\ uid \in Nat /\ uid < 10^6
    /\ Verified(t)

\* Which of the requests the client's checks let through the server's do not.
LEMMA ReadOrNot ==
    ASSUME NEW t, NEW uid, NEW pw, Command(t, uid),
           NEW out, out = MessageOut(t, uid, pw)
    PROVE  ReadResult(buildMessage(out)) # "read" <=>
             \/ out.op \notin {"LST", "SRC", "SAS"} /\ uid < 10^(USER_ID_SIZE - 1)
             \/ out.op = "OPA" /\ \/ t.title.len > MAX_AUCTION_NAME_SIZE
                                  \/ t.size > MAX_FILE_SIZE
             \/ out.op \in {"OPA", "BID"} /\ out.value >= 10^ValueSize
<1> DEFINE text == buildMessage(out)
           Bad(f) == ~Readable(f, FieldText(out, f))
<1>0. /\ out.op = Code(t.op) /\ out.uid = uid /\ out.aid = t.aid.num
      /\ out.value = Uint(t.value.num) /\ out.time = t.time.num
      /\ out.size = t.size /\ out.title = t.title /\ out.fname = t.fname
  BY DEF MessageOut
<1>1. out.op \in UdpCodes \cup TcpCodes
  BY <1>0 DEF Command, Code, UdpCodes, TcpCodes
<1>2. /\ DOMAIN text = Fields[out.op]
      /\ \A f \in Fields[out.op] : text[f] = FieldText(out, f)
  BY DEF buildMessage
<1>3. /\ FieldText(out, "aid") = Padded(t.aid.num)
      /\ FieldText(out, "title") = t.title /\ FieldText(out, "fname") = t.fname
      /\ FieldText(out, "uid") = Printed(uid)
      /\ FieldText(out, "value") = Printed(out.value)
      /\ FieldText(out, "time") = Printed(t.time.num)
      /\ FieldText(out, "size") = Printed(t.size)
  BY <1>0 DEF FieldText
<1>4. /\ t.aid \in [len : Nat, num : Int] /\ Digits(t.aid.num) <= t.aid.len
      /\ t.value \in [len : Nat, num : Int]
      /\ t.time \in [len : Nat, num : Int] /\ Digits(t.time.num) <= t.time.len
      /\ t.title \in [len : Nat, num : Int] /\ t.fname \in [len : Nat, num : Int]
      /\ t.size \in Nat /\ uid \in Nat /\ uid < 10^6 /\ Verified(t)
  BY DEF Command, WordOfText
<1>5. Bad("uid") <=> uid < 10^(USER_ID_SIZE - 1)
  <2>1. 10^(USER_ID_SIZE - 1) = 100000
    BY DEF USER_ID_SIZE
  <2>. QED
    BY <1>3, <1>4, <2>1, FieldsReadable
<1>6. out.op \in {"SRC", "SAS", "CLS", "BID"} => ~Bad("aid")
  <2>1. SUFFICES ASSUME out.op \in {"SRC", "SAS", "CLS", "BID"}
                 PROVE  Readable("aid", Padded(t.aid.num))
    BY <1>3
  <2>2. t.aid.len = 3 /\ t.aid.num \in Nat
    BY <1>0, <1>4, <2>1
    DEF Verified, Code, verify_auction_id, isdigit, AUCTION_ID_SIZE
  <2>3. Digits(t.aid.num) <= 3 <=> t.aid.num < 10^3
    BY <2>2, DigitsOf
  <2>4. 10^3 = 1000
    OBVIOUS
  <2>. QED
    BY <1>4, <2>2, <2>3, <2>4, FieldsReadable
<1>7. out.op \in {"OPA", "BID"} => (Bad("value") <=> out.value >= 10^ValueSize)
  <2>1. SUFFICES ASSUME out.op \in {"OPA", "BID"}
                 PROVE  Bad("value") <=> out.value >= 10^ValueSize
    OBVIOUS
  <2>2. out.value > 0
    BY <1>0, <1>4, <2>1 DEF Verified, Code, verify_value
  <2>3. out.value \in Nat /\ Uint(out.value) = out.value
    BY <1>0, <1>4, UintOf
  <2>4. Readable("value", Printed(out.value)) <=> out.value < 10^ValueSize
    BY <2>2, <2>3, FieldsReadable
  <2>5. 10^ValueSize \in Int
    BY WidthAssumption
  <2>. QED
    BY <1>3, <2>3, <2>4, <2>5
<1>8. ASSUME out.op = "OPA"
      PROVE  /\ ~Bad("time") /\ ~Bad("fname")
             /\ Bad("title") <=> t.title.len > MAX_AUCTION_NAME_SIZE
             /\ Bad("size") <=> t.size >= 10^8
  <2>1. /\ t.title.len <= MAX_FILENAME_SIZE /\ t.fname.len <= MAX_FILENAME_SIZE
        /\ t.time.len <= 5 /\ t.time.num \in Nat
    BY <1>0, <1>4, <1>8
    DEF Verified, Code, verify_name, verify_timeactive, isdigit,
        MAX_LENGTH_TIMEACTIVE
  <2>2. t.time.num < 10^5
    <3>1. Digits(t.time.num) \in Int /\ (Digits(t.time.num) <= 5 <=> t.time.num < 10^5)
      BY <2>1, DigitsOf
    <3>. QED
      BY <1>4, <2>1, <3>1
  <2>3. ~Bad("time")
    BY <1>3, <2>1, <2>2, FieldsReadable
  <2>4. ~Bad("fname") /\ (Bad("title") <=> t.title.len > MAX_AUCTION_NAME_SIZE)
    <3>1. MAX_AUCTION_NAME_SIZE \in Nat
      BY DEF MAX_AUCTION_NAME_SIZE
    <3>. QED
      BY <1>3, <1>4, <2>1, <3>1, FieldsReadable
  <2>5. 10^8 = 100000000
    OBVIOUS
  <2>6. Bad("size") <=> t.size >= 10^8
    BY <1>3, <1>4, <2>5, FieldsReadable
  <2>. QED
    BY <2>3, <2>4, <2>6
<1> HIDE DEF Bad
<1>9. ReadResult(text) # "read" <=>
        \/ \E f \in Fields[out.op] : Bad(f)
        \/ "size" \in Fields[out.op] /\ Printed(t.size).num > MAX_FILE_SIZE
  BY <1>2, <1>3, Zenon DEF ReadResult, Bad
<1>10. MAX_FILE_SIZE = 10000000 /\ 10^8 = 100000000 /\ Printed(t.size).num = t.size
  BY DEF MAX_FILE_SIZE, Printed
<1>11. CASE out.op = "OPA"
  <2>1. Fields[out.op] = {"uid", "title", "value", "time", "fname", "size"}
    BY <1>11 DEF Fields
  <2>2. ReadResult(text) # "read" <=> \/ Bad("uid") \/ Bad("title") \/ Bad("value")
                                      \/ Bad("size") \/ t.size > MAX_FILE_SIZE
    BY <1>8, <1>9, <1>10, <1>11, <2>1
  <2>3. t.size >= 10^8 => t.size > MAX_FILE_SIZE
    BY <1>4, <1>10
  <2>. QED
    BY <1>5, <1>7, <1>8, <1>11, <2>2, <2>3
<1>12. CASE out.op \in {"LIN", "LOU", "UNR", "LMA", "LMB", "CLS", "BID"}
  <2>1. /\ "uid" \in Fields[out.op] /\ "size" \notin Fields[out.op]
        /\ \A f \in Fields[out.op] : \/ f = "uid"
                                     \/ f = "aid" /\ out.op \in {"CLS", "BID"}
                                     \/ f = "value" /\ out.op = "BID"
        /\ out.op = "BID" => "value" \in Fields[out.op]
    BY <1>12 DEF Fields
  <2>. QED
    BY <1>5, <1>6, <1>7, <1>9, <1>12, <2>1
<1>13. CASE out.op \in {"LST", "SRC", "SAS"}
  <2>1. /\ "size" \notin Fields[out.op]
        /\ \A f \in Fields[out.op] : f = "aid" /\ out.op \in {"SRC", "SAS"}
    BY <1>13 DEF Fields
  <2>. QED
    BY <1>6, <1>9, <1>13, <2>1
<1>. QED
  BY <1>1, <1>11, <1>12, <1>13 DEF UdpCodes, TcpCodes

\* What the server has read says what the user typed.
LEMMA MeaningOf ==
    ASSUME NEW t, NEW uid, NEW pw, Command(t, uid),
           NEW out, out = MessageOut(t, uid, pw),
           ReadResult(buildMessage(out)) = "read",
           NEW f \in Fields[out.op]
    PROVE  LET num == MessageIn(buildMessage(out))[f].num IN
           /\ f = "aid" => num = t.aid.num
           /\ f = "time" => num = t.time.num
           /\ f = "title" => num = t.title.num
           /\ f = "fname" => num = t.fname.num
           /\ f = "value" => (num - t.value.num) % 2^UintWidth = 0
<1> DEFINE text == buildMessage(out)
           w == FieldText(out, f)
<1>0. /\ out.op = Code(t.op) /\ out.uid = uid /\ out.aid = t.aid.num
      /\ out.value = Uint(t.value.num) /\ out.time = t.time.num
      /\ out.size = t.size /\ out.title = t.title /\ out.fname = t.fname
  BY DEF MessageOut
<1>1. /\ t.aid \in [len : Nat, num : Int] /\ t.value \in [len : Nat, num : Int]
      /\ t.time \in [len : Nat, num : Int] /\ t.title \in [len : Nat, num : Int]
      /\ t.fname \in [len : Nat, num : Int] /\ t.size \in Nat /\ uid \in Nat
  BY DEF Command, WordOfText
<1>2. out.op \in UdpCodes \cup TcpCodes
  BY <1>0 DEF Command, Code, UdpCodes, TcpCodes
<1>3. DOMAIN text = Fields[out.op] /\ text[f] = w
  BY DEF buildMessage
<1>4. Readable(f, w)
  BY <1>3 DEF ReadResult
<1>5. f \in {"uid", "aid", "value", "title", "time", "fname", "size"}
  BY <1>2 DEF Fields, UdpCodes, TcpCodes
<1>6. /\ f = "aid" => w = Padded(t.aid.num)
      /\ f = "title" => w = t.title
      /\ f = "fname" => w = t.fname
      /\ f = "value" => w = Printed(Uint(t.value.num))
      /\ f = "time" => w = Printed(t.time.num)
      /\ f = "uid" => w = Printed(uid)
      /\ f = "size" => w = Printed(t.size)
  BY <1>0 DEF FieldText
<1>7. \A n \in Int : /\ Printed(n) \in [len : Nat, num : Int]
                     /\ Padded(n) \in [len : Nat, num : Int]
                     /\ Printed(n).num = n /\ Padded(n).num = n
  <2>1. ASSUME NEW n \in Int
        PROVE  Digits(n) \in Nat /\ Higher(Digits(n), AUCTION_ID_SIZE) \in Nat
    BY DigitsOf DEF Higher, AUCTION_ID_SIZE
  <2>. QED
    BY <2>1 DEF Printed, Padded
<1>8. Uint(t.value.num) \in Int /\ (Uint(t.value.num) - t.value.num) % 2^UintWidth = 0
  BY <1>1, UintOf
<1>9. w \in [len : Nat, num : Int]
  <2>1. t.size \in Int /\ uid \in Int /\ t.aid.num \in Int /\ t.time.num \in Int
    BY <1>1
  <2> DEFINE W == [len : Nat, num : Int]
  <2>2. t.title \in W /\ t.fname \in W
    BY <1>1
  <2>3. \A n \in Int : Printed(n) \in W /\ Padded(n) \in W
    BY <1>7
  <2> HIDE DEF W, w
  <2>4. w \in W
    BY <1>5, <1>6, <1>8, <2>1, <2>2, <2>3
  <2>. QED
    BY <2>4 DEF W
<1>10. ReadLimit[f] \in Nat
  BY <1>5, WidthAssumption
  DEF ReadLimit, USER_ID_SIZE, AUCTION_ID_SIZE, MAX_AUCTION_NAME_SIZE,
      MAX_LENGTH_TIMEACTIVE, MAX_FILENAME_SIZE, MAX_FILE_SIZE_LENGTH
<1> HIDE DEF w
<1>11. readString(w, ReadLimit[f]) = w
  <2>1. readString(w, ReadLimit[f]).len = w.len
    BY <1>4 DEF Readable
  <2>2. w = [len |-> w.len, num |-> w.num] /\ w.len \in Nat /\ w.num \in Int
    BY <1>9
  <2>. QED
    BY <1>10, <2>1, <2>2, readWhole
<1>12. MessageIn(text)[f].num = w.num
  BY <1>3, <1>11 DEF MessageIn
<1>. QED
  BY <1>1, <1>6, <1>7, <1>8, <1>12
==============================================================================
