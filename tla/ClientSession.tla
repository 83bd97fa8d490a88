---------------------------- MODULE ClientSession ----------------------------
(***************************************************************************)
(* The command-line client (client.cpp, commands.cpp): the user it takes   *)
(* to be logged in, its exchanges with the server over UDP and TCP, and a  *)
(* network that loses, delays and reorders datagrams.  The server serves a *)
(* request in one step, as AuctionServer shows it does; of what it keeps   *)
(* only the accounts are modelled, since the session depends on them.      *)
(***************************************************************************)
EXTENDS Messages, FiniteSets, SequencesExt

CONSTANTS
    Clients,
    Users,      \* user ids, as numbers
    Passwords,
    None,       \* no password, no client
    Menu,       \* the commands the user of a client may type
    MaxTurns,   \* bound on the commands of all clients
    TriesMax    \* UDP_MAX_TRIES

LOGGED_OUT == 0
Commands   == UdpCodes \cup TcpCodes \cup {"exit"}
Word       == {w \in [len : Nat, num : Int] : Digits(w.num) <= w.len}
Typed      == [op : Commands, uid : {w \in Word : w.num \in Users},
               pw : Passwords, aid : Word, value : Word, time : Word,
               title : Word, fname : Word, size : Nat]

ASSUME SessionAssumption ==
    /\ LOGGED_OUT \notin Users /\ Users \subseteq Nat
    /\ None \notin Passwords \cup Clients
    /\ Menu \in [Clients -> (SUBSET Typed) \ {{}}]
    /\ MaxTurns \in Nat /\ TriesMax \in Nat \ {0}

VARIABLES
    \* each client
    pc,         \* where its process is
    user,       \* _user_id
    password,   \* _password
    typed,      \* the command it executes
    tries,      \* triesLeft
    socket,     \* the answers in its UDP socket, in the order they came
    open,       \* its open TCP sockets
    \* the network
    requests,   \* requests under way
    answers,    \* answers under way
    \* the server
    account,    \* the password of a registered user, None otherwise
    present,    \* the users who are logged in
    \* history, read by the properties only
    turn,       \* number of the command a client executes, or the last one
    gaveUps,    \* commands of a client that ended without a UDP answer
    unsent,     \* commands of a client that failed in send_tcp_message
    answered,   \* the command whose answer it took for that of its last, or 0
    executed,   \* the commands the server has executed
    author      \* the client whose request last changed a user's state

clientVars == <<pc, user, password, typed, tries, socket, open>>
serverVars == <<account, present>>
history    == <<turn, gaveUps, unsent, answered, executed, author>>
vars == <<clientVars, requests, answers, serverVars, history>>

Init ==
    /\ pc = [c \in Clients |-> "prompt"]
    /\ user = [c \in Clients |-> LOGGED_OUT]
    /\ password = [c \in Clients |-> None]
    /\ typed = [c \in Clients |-> CHOOSE t \in Menu[c] : TRUE]
    /\ tries = [c \in Clients |-> 0]
    /\ socket = [c \in Clients |-> <<>>]
    /\ open = [c \in Clients |-> 0]
    /\ requests = {} /\ answers = {}
    /\ account = [u \in Users |-> None] /\ present = {}
    /\ turn = [c \in Clients |-> 0]
    /\ gaveUps = [c \in Clients |-> 0] /\ unsent = [c \in Clients |-> 0]
    /\ answered = [c \in Clients |-> 0]
    /\ executed = {}
    /\ author = [u \in Users |-> None]

Goto(c, l) == pc' = [pc EXCEPT ![c] = l]

-----------------------------------------------------------------------------
(* Commands                                                                *)

\* The commands that return at once if nobody is logged in.
SessionOps == {"LOU", "UNR", "LMA", "LMB", "OPA", "CLS", "BID"}

\* The handler of a command gets as far as sending a message.
Sends(c, t) == /\ Verified(t)
               /\ t.op = "LIN" => user[c] = LOGGED_OUT
               /\ t.op \in SessionOps \cup {"exit"} => user[c] # LOGGED_OUT

Request(c, n, t, left) ==
    LET own == t.op = "LIN" IN
    [client |-> c, turn |-> n, left |-> left, typed |-> t,
     out |-> MessageOut(t, IF own THEN t.uid.num ELSE user[c],
                           IF own THEN t.pw ELSE password[c])]

Begin(c, t) == /\ pc[c] = "prompt" /\ SumFunction(turn) < MaxTurns
               /\ turn' = [turn EXCEPT ![c] = @ + 1]
               /\ typed' = [typed EXCEPT ![c] = t]
               /\ answered' = [answered EXCEPT ![c] = 0]
               /\ UNCHANGED <<user, password, socket, serverVars, answers,
                              gaveUps, unsent, executed, author>>

\* exit, when nobody is logged in.
Exit(c) == \E t \in Menu[c] :
    /\ t.op = "exit" /\ user[c] = LOGGED_OUT
    /\ Begin(c, t)
    /\ Goto(c, "ended")
    /\ UNCHANGED <<tries, open, requests>>

\* sendUdpMessageAndAwaitReply, the first try.
SendUdp(c) == \E t \in Menu[c] :
    /\ Code(t.op) \in UdpCodes /\ Sends(c, t)
    /\ Begin(c, t)
    /\ Goto(c, "await")
    /\ tries' = [tries EXCEPT ![c] = TriesMax - 1]
    /\ requests' = requests \cup {Request(c, turn[c] + 1, t, TriesMax - 1)}
    /\ UNCHANGED open

\* sendTcpMessageAndAwaitReply: openTcpSocket.
OpenTcpSocket(c) == \E t \in Menu[c] :
    /\ t.op \in TcpCodes /\ Sends(c, t)
    /\ Begin(c, t)
    /\ Goto(c, "connect")
    /\ open' = [open EXCEPT ![c] = @ + 1]
    /\ UNCHANGED <<tries, requests>>

-----------------------------------------------------------------------------
(* UDP                                                                     *)

\* Mutant: await_udp_message reports a timeout as the retry loop expects it.
TimeoutAsDocumented == "ConnectionTimeout"

\* What await_udp_message throws when select returns 0.
TimeoutException == "MessageReceive"

\* The loop in sendUdpMessageAndAwaitReply sends again after one exception,
\* which await_udp_message does not throw, and gives up after any other.
Retries(c, exception) == exception = "ConnectionTimeout" /\ tries[c] > 0

SendAgain(c) ==
    /\ tries' = [tries EXCEPT ![c] = @ - 1]
    /\ requests' = requests \cup {Request(c, turn[c], typed[c], tries[c] - 1)}
    /\ UNCHANGED <<pc, gaveUps>>

GiveUp(c) == /\ Goto(c, "prompt")
             /\ gaveUps' = [gaveUps EXCEPT ![c] = @ + 1]
             /\ UNCHANGED <<tries, requests>>

\* Nothing has come for UDP_TIMEOUT seconds.
Timeout(c) ==
    /\ pc[c] = "await" /\ socket[c] = <<>>
    /\ IF Retries(c, TimeoutException) THEN SendAgain(c) ELSE GiveUp(c)
    /\ UNCHANGED <<user, password, typed, socket, open, answers, serverVars,
                   turn, unsent, answered, executed, author>>

\* readMessageId.  Nothing else ties an answer to a request.
CodeMatches(c, a) == a.op = Code(typed[c].op)

\* Another answer than the one that is read first is not looked for.
ReceiveUnexpected(c) ==
    /\ pc[c] = "await" /\ socket[c] # <<>>
    /\ ~CodeMatches(c, Head(socket[c]))
    /\ socket' = [socket EXCEPT ![c] = Tail(@)]
    /\ GiveUp(c)
    /\ UNCHANGED <<user, password, typed, open, answers, serverVars, turn,
                   unsent, answered, executed, author>>

LogsIn(c, status)  == typed[c].op = "LIN" /\ status \in {"OK", "REG"}

\* Mutant: unregister does not forget the user.
LogsOutOnly(c, status) == typed[c].op \in {"LOU", "exit"} /\ status = "OK"

LogsOut(c, status) == typed[c].op \in {"LOU", "UNR", "exit"} /\ status = "OK"

\* Client::login and Client::logout.
SetSession(c, u, p) == /\ user' = [user EXCEPT ![c] = u]
                       /\ password' = [password EXCEPT ![c] = p]

\* The handlers of LMA and LMB add a number to a char pointer: the process
\* may or may not survive what it reads there.
AfterAnswer(c) == IF typed[c].op = "exit" THEN {"ended"}
                  ELSE IF typed[c].op \in {"LMA", "LMB"} THEN {"prompt", "killed"}
                  ELSE {"prompt"}

Receive(c) ==
    /\ pc[c] = "await" /\ socket[c] # <<>>
    /\ CodeMatches(c, Head(socket[c]))
    /\ LET a == Head(socket[c]) IN
       /\ socket' = [socket EXCEPT ![c] = Tail(@)]
       /\ answered' = [answered EXCEPT ![c] = a.turn]
       /\ \/ /\ LogsIn(c, a.status)
             /\ SetSession(c, typed[c].uid.num, typed[c].pw)
          \/ /\ LogsOut(c, a.status)
             /\ SetSession(c, LOGGED_OUT, None)
          \/ /\ ~LogsIn(c, a.status) /\ ~LogsOut(c, a.status)
             /\ UNCHANGED <<user, password>>
    /\ \E l \in AfterAnswer(c) : Goto(c, l)
    /\ UNCHANGED <<typed, tries, open, requests, answers, serverVars, turn,
                   gaveUps, unsent, executed, author>>

-----------------------------------------------------------------------------
(* TCP                                                                     *)

\* Mutant: the connection is not closed when connect fails.
ReturnOpen(c) == Goto(c, "prompt") /\ UNCHANGED open

CloseTcpSocket(c) == Goto(c, "prompt") /\ open' = [open EXCEPT ![c] = @ - 1]

tcpRest == <<user, password, typed, tries, socket, serverVars, turn, gaveUps,
             executed, author>>

Connect(c) ==
    /\ pc[c] = "connect"
    /\ Goto(c, "write")
    /\ UNCHANGED <<tcpRest, open, requests, answers, unsent, answered>>

ConnectFails(c) ==
    /\ pc[c] = "connect"
    /\ CloseTcpSocket(c)
    /\ UNCHANGED <<tcpRest, requests, answers, unsent, answered>>

Write(c) ==
    /\ pc[c] = "write"
    /\ Goto(c, "read")
    /\ requests' = requests \cup {Request(c, turn[c], typed[c], 0)}
    /\ UNCHANGED <<tcpRest, open, answers, unsent, answered>>

\* The only exception after which the socket is not closed.
WriteFails(c) ==
    /\ pc[c] = "write"
    /\ Goto(c, "prompt")
    /\ unsent' = [unsent EXCEPT ![c] = @ + 1]
    /\ UNCHANGED <<tcpRest, open, requests, answers, answered>>

\* SIGPIPE: the server has refused an early field of an OPA and closed the
\* connection while the file is still being sent.
WriteKilled(c) ==
    /\ pc[c] = "write" /\ typed[c].op = "OPA"
    /\ Goto(c, "killed")
    /\ UNCHANGED <<tcpRest, open, requests, answers, unsent, answered>>

\* The answer comes on the connection of the request.
ReadAnswer(c) == \E a \in answers :
    /\ pc[c] = "read" /\ a.client = c /\ a.turn = turn[c]
    /\ CodeMatches(c, a)
    /\ CloseTcpSocket(c)
    /\ answers' = answers \ {a}
    /\ answered' = [answered EXCEPT ![c] = a.turn]
    /\ UNCHANGED <<tcpRest, requests, unsent>>

\* Mutant: the socket has no read timeout.
ReadForEver(c) == FALSE /\ UNCHANGED vars

\* The read timeout, or a server that closes without an answer.
ReadFails(c) ==
    /\ pc[c] = "read"
    /\ CloseTcpSocket(c)
    /\ UNCHANGED <<tcpRest, requests, answers, unsent, answered>>

ClientStep(c) == \/ Timeout(c) \/ ReceiveUnexpected(c) \/ Receive(c)
                 \/ Connect(c) \/ ConnectFails(c)
                 \/ Write(c) \/ WriteFails(c) \/ WriteKilled(c)
                 \/ ReadAnswer(c) \/ ReadFails(c)

-----------------------------------------------------------------------------
(* The network.  A datagram that is lost stays under way for ever.         *)

Gone(c) == pc[c] \in {"ended", "killed"}

Deliver == \E a \in answers :
    /\ a.op \in UdpCodes /\ ~Gone(a.client)
    /\ answers' = answers \ {a}
    /\ socket' = [socket EXCEPT ![a.client] = Append(@, a)]
    /\ UNCHANGED <<pc, user, password, typed, tries, open, requests,
                   serverVars, history>>

-----------------------------------------------------------------------------
(* The server: what the database and its handlers answer (Accounts,        *)
(* Handlers).  "silent" is no answer.                                      *)

LoggedIn(out)        == out.uid \in present
CorrectPassword(out) == account[out.uid] = out.pw

LoginStatus(out) ==
    IF LoggedIn(out) THEN IF CorrectPassword(out) THEN "OK" ELSE "silent"
    ELSE IF account[out.uid] = None THEN "REG"
    ELSE IF CorrectPassword(out) THEN "OK" ELSE "NOK"

\* Mutant: a user who is logged out is answered what LMA and LMB answer him.
LogoutStatusNlg(out) ==
    IF ~CorrectPassword(out) THEN "NOK"
    ELSE IF LoggedIn(out) THEN "OK" ELSE "NLG"

\* Both look at the password first; a user who is logged out makes both throw.
LogoutStatus(out) ==
    IF ~CorrectPassword(out) THEN "NOK"
    ELSE IF LoggedIn(out) THEN "OK" ELSE "silent"

\* A user who was never registered has no directory to list.
ListStatuses(out) ==
    IF LoggedIn(out) THEN {"OK", "NOK"}
    ELSE IF account[out.uid] = None THEN {"NLG", "silent"} ELSE {"NLG"}

OwnerStatuses(out) ==
    [OPA |-> IF ~LoggedIn(out) THEN {"silent"}
             ELSE IF CorrectPassword(out) THEN {"OK", "NOK"} ELSE {"NOK"},
     CLS |-> IF ~LoggedIn(out) THEN {"NLG", "NOK"}
             ELSE IF CorrectPassword(out) THEN {"OK", "EAU", "EOW", "END"}
             ELSE {"NOK"},
     BID |-> IF ~LoggedIn(out) THEN {"NLG"}
             ELSE IF CorrectPassword(out) THEN {"ACC", "REF", "ILG", "NOK"}
             ELSE {"NOK"}]

Statuses(out) ==
    IF out.op = "LIN" THEN {LoginStatus(out)}
    ELSE IF out.op \in {"LOU", "UNR"} THEN {LogoutStatus(out)}
    ELSE IF out.op \in {"LMA", "LMB"} THEN ListStatuses(out)
    ELSE IF out.op \in {"OPA", "CLS", "BID"} THEN OwnerStatuses(out)[out.op]
    ELSE {"OK", "NOK"}

\* A TCP answer needs a client that still has the connection.
Send(q, status) ==
    LET c == q.client IN
    answers' =
        IF \/ status = "silent"
           \/ q.out.op \in TcpCodes /\ ~(pc[c] = "read" /\ turn[c] = q.turn)
        THEN answers
        ELSE answers \cup {[client |-> c, turn |-> q.turn, left |-> q.left,
                            op |-> q.out.op, status |-> status]}

UpdateAccounts(q, status) ==
    LET u == q.out.uid IN
    \/ /\ q.out.op = "LIN" /\ status \in {"OK", "REG"}
       /\ account' = [account EXCEPT ![u] = q.out.pw]
       /\ present' = present \cup {u}
       /\ author' = [author EXCEPT ![u] = q.client]
    \/ /\ q.out.op = "LOU" /\ status = "OK"
       /\ present' = present \ {u}
       /\ author' = [author EXCEPT ![u] = q.client]
       /\ UNCHANGED account
    \/ /\ q.out.op = "UNR" /\ status = "OK"
       /\ account' = [account EXCEPT ![u] = None]
       /\ present' = present \ {u}
       /\ author' = [author EXCEPT ![u] = q.client]
    \/ /\ ~(q.out.op = "LIN" /\ status \in {"OK", "REG"})
       /\ ~(q.out.op \in {"LOU", "UNR"} /\ status = "OK")
       /\ UNCHANGED <<serverVars, author>>

serveRest == <<clientVars, turn, gaveUps, unsent, answered>>

Serve == \E q \in requests :
    /\ ReadResult(buildMessage(q.out)) = "read"
    /\ requests' = requests \ {q}
    /\ executed' = executed \cup {<<q.client, q.turn>>}
    /\ \E status \in Statuses(q.out) :
          Send(q, status) /\ UpdateAccounts(q, status)
    /\ UNCHANGED serveRest

\* What cannot be read is answered ERR, but a file that is too large is not
\* answered at all.
Refuse == \E q \in requests :
    /\ ReadResult(buildMessage(q.out)) # "read"
    /\ requests' = requests \ {q}
    /\ Send(q, IF ReadResult(buildMessage(q.out)) = "File" THEN "silent"
                                                           ELSE "ERR")
    /\ UNCHANGED <<serveRest, serverVars, executed, author>>

-----------------------------------------------------------------------------
Type(c) == Exit(c) \/ SendUdp(c) \/ OpenTcpSocket(c)

Next == \/ \E c \in Clients : Type(c) \/ ClientStep(c)
        \/ Deliver \/ Serve \/ Refuse

Spec == Init /\ [][Next]_vars

\* The process of a client runs, and its select and read time out.  Users may
\* stop typing; datagrams may be lost; the server may be down.
Fairness == \A c \in Clients : WF_vars(ClientStep(c))

FairSpec == Spec /\ Fairness

-----------------------------------------------------------------------------
(* Properties                                                              *)

Menus == UNION {Menu[c] : c \in Clients}

Requests == [client : Clients, turn : Nat, left : Nat, typed : Menus,
             out : {MessageOut(t, u, p) : t \in Menus,
                                          u \in Users \cup {LOGGED_OUT},
                                          p \in Passwords \cup {None}}]

Statements == {"OK", "NOK", "ERR", "REG", "UNR", "NLG", "EAU", "EOW", "END",
               "ACC", "REF", "ILG"}

Answers == [client : Clients, turn : Nat, left : Nat,
            op : UdpCodes \cup TcpCodes, status : Statements]

\* Types.  A request that makes the server look at a password is of a user
\* who may exist, and an answer says one of the things its message can say
\* (the buildMessage of the server's messages throws otherwise).
TypeOK ==
    /\ pc \in [Clients -> {"prompt", "await", "connect", "write", "read",
                           "ended", "killed"}]
    /\ user \in [Clients -> Users \cup {LOGGED_OUT}]
    /\ password \in [Clients -> Passwords \cup {None}]
    /\ typed \in [Clients -> Menus]
    /\ tries \in [Clients -> Nat]
    /\ socket \in [Clients -> Seq(Answers)]
    /\ open \in [Clients -> Nat]
    /\ requests \subseteq Requests
    /\ \A q \in requests : q.out.op \in SessionOps \cup {"LIN"} =>
                            q.out.uid \in Users
    /\ answers \subseteq Answers
    /\ \A a \in answers : a.status \in ReplyStatuses[a.op]
    /\ account \in [Users -> Passwords \cup {None}]
    /\ present \subseteq Users
    /\ turn \in [Clients -> Nat] /\ answered \in [Clients -> Nat]
    /\ gaveUps \in [Clients -> Nat] /\ unsent \in [Clients -> Nat]
    /\ executed \subseteq Clients \X Nat
    /\ author \in [Users -> Clients \cup {None}]

\* The UDP messages of a client's commands, in either direction.
Datagrams(c) == {q \in requests : q.client = c /\ q.out.op \in UdpCodes}
                \cup {a \in answers : a.client = c /\ a.op \in UdpCodes}
                \cup ToSet(socket[c])

\* A client whose UDP commands have all been answered takes no answer for that
\* of another command, although nothing but its code ties an answer to a
\* request.  A TCP answer is the right one whatever happened before.
AnswersCorrespond == \A c \in Clients :
    answered[c] # 0 /\ (gaveUps[c] = 0 \/ typed[c].op \in TcpCodes)
        => answered[c] = turn[c]

\* sendUdpMessageAndAwaitReply waits "for the corresponding answer from the
\* server" (client.cpp:154): the answer a client acts on is that of its
\* command.
CorrespondingAnswer == \A c \in Clients : answered[c] \in {0, turn[c]}

\* Each command a client gave up leaves one UDP message, no more, whose answer
\* may come while the client waits for that of a later command.
StrayAnswers == \A c \in Clients :
    Cardinality({m \in Datagrams(c) : ~(pc[c] = "await" /\ m.turn = turn[c])})
        <= gaveUps[c]

\* A command the server has executed does not reach it again: the client sends
\* nothing twice, since the retry its loop is for never happens.  A second BID
\* or OPA would change the database again.
AtMostOnce == \A q \in requests : <<q.client, q.turn>> \notin executed

\* Between two commands of a client that has had an answer to each, the session
\* it shows is that of the server: the user it has last changed there is logged
\* in if and only if the client takes him to be, and its password is his.
SessionTrue == \A c \in Clients : gaveUps[c] = 0 /\ pc[c] # "await" =>
    /\ user[c] # LOGGED_OUT /\ author[user[c]] = c =>
          user[c] \in present /\ account[user[c]] = password[c]
    /\ \A u \in present : author[u] = c => user[c] = u

\* A request the server can read says what the user typed, through the padding
\* and the conversions of both ends; the value of a bid is taken modulo the
\* size of an unsigned integer, and may wrap.
MeaningKept == \A q \in requests :
    LET text == buildMessage(q.out)
        read == MessageIn(text)
        sent == [f \in {"aid", "time", "title", "fname"} |-> q.typed[f].num]
    IN  ReadResult(text) = "read" =>
          /\ \A f \in DOMAIN read \cap DOMAIN sent : read[f].num = sent[f]
          /\ "value" \in DOMAIN read =>
                (read["value"].num - q.typed.value.num) % 2^UintWidth = 0

\* The requests that pass the checks of the client and fail those of the
\* server: user ids that start with a zero, names of auctions the client takes
\* for file names, values with too many digits and files that are too large.
ChecksDiffer == \A q \in requests :
    ReadResult(buildMessage(q.out)) # "read" <=>
        \/ q.out.op \notin {"LST", "SRC", "SAS"} /\ q.out.uid < 10^(USER_ID_SIZE - 1)
        \/ q.out.op = "OPA" /\ \/ q.typed.title.len > MAX_AUCTION_NAME_SIZE
                               \/ q.typed.size > MAX_FILE_SIZE
        \/ q.out.op \in {"OPA", "BID"} /\ q.out.value >= 10^ValueSize

\* A client at its prompt has no connection open but those of the commands that
\* failed in send_tcp_message, where sendTcpMessageAndAwaitReply forgets one.
SocketsClosed == \A c \in Clients : pc[c] # "killed" =>
    open[c] = unsent[c] + (IF pc[c] \in {"connect", "write", "read"} THEN 1 ELSE 0)

\* Every command ends: with the prompt, with the end of the program or with its
\* death.  No command waits for ever for a server that does not answer.
CommandsEnd == \A c \in Clients :
    pc[c] # "prompt" ~> pc[c] \in {"prompt", "ended", "killed"}
=============================================================================
