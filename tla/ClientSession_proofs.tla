------------------------- MODULE ClientSession_proofs -------------------------
(***************************************************************************)
(* Proofs about ClientSession, for any number of clients, users and        *)
(* commands.  TypeInv is inductive; it carries the count of open sockets,  *)
(* without which closing one could leave less than none.                   *)
(***************************************************************************)
EXTENDS ClientSession, Messages_proofs, SequenceTheorems, FiniteSetTheorems

Connected(c) == pc[c] \in {"connect", "write", "read"}

\* SocketsClosed for every client, the dead ones included.
SocketsCounted == \A c \in Clients :
    /\ Connected(c) => open[c] = unsent[c] + 1
    /\ ~Connected(c) /\ pc[c] # "killed" => open[c] = unsent[c]

\* A command that is on its way through a TCP exchange is one of these, sent
\* by somebody who is logged in if the server will look for his password.
TcpTyped == \A c \in Clients : pc[c] \in {"connect", "write"} =>
    /\ typed[c].op \in TcpCodes
    /\ typed[c].op # "SAS" => user[c] \in Users

TypeInv == TypeOK /\ SocketsCounted /\ TcpTyped

-----------------------------------------------------------------------------
(* Requests and answers                                                    *)

LEMMA MenuTyped ==
    ASSUME NEW c \in Clients, NEW t \in Menu[c]
    PROVE  t \in Menus /\ t \in Typed
BY SessionAssumption DEF SessionAssumption, Menus

LEMMA RequestTyped ==
    ASSUME TypeOK, NEW c \in Clients, NEW t \in Menus, NEW n \in Nat,
           NEW l \in Nat
    PROVE  Request(c, n, t, l) \in Requests
<1>1. t \in Typed
  BY MenuTyped DEF Menus
<1>2. t.uid.num \in Users /\ t.pw \in Passwords
  BY <1>1 DEF Typed
<1>3. user[c] \in Users \cup {LOGGED_OUT} /\ password[c] \in Passwords \cup {None}
  BY DEF TypeOK
<1>. QED
  BY <1>2, <1>3 DEF Request, Requests

\* A request that makes the server look at a password is of a user.
LEMMA UserKnown ==
    ASSUME TypeOK, NEW c \in Clients, NEW t \in Menus, NEW n, NEW l,
           t.op \in {"LIN"} \/ user[c] # LOGGED_OUT \/ t.op \in {"LST", "SRC", "SAS"}
    PROVE  Request(c, n, t, l).out.op \in SessionOps \cup {"LIN"} =>
              Request(c, n, t, l).out.uid \in Users
<1>1. t \in Typed
  BY MenuTyped DEF Menus
<1>2. t.uid.num \in Users /\ t.op \in Commands
  BY <1>1 DEF Typed
<1>3. user[c] \in Users \cup {LOGGED_OUT}
  BY DEF TypeOK
<1>. QED
  BY <1>2, <1>3 DEF Request, MessageOut, Code, SessionOps, Commands, UdpCodes,
                    TcpCodes

\* The server only says what the message of its answer can say.
LEMMA StatusesFit ==
    ASSUME NEW out, out.op \in UdpCodes \cup TcpCodes
    PROVE  Statuses(out) \subseteq ReplyStatuses[out.op] \cup {"silent"}
BY DEF Statuses, ReplyStatuses, LoginStatus, LogoutStatus, ListStatuses,
       OwnerStatuses, UdpCodes, TcpCodes

-----------------------------------------------------------------------------
(* Types and open sockets                                                  *)

LEMMA TypeInit == Init => TypeInv
<1> SUFFICES ASSUME Init PROVE TypeInv
  OBVIOUS
<1>1. typed \in [Clients -> Menus]
  <2>1. ASSUME NEW c \in Clients
        PROVE  (CHOOSE t \in Menu[c] : TRUE) \in Menus
    <3>1. \E t \in Menu[c] : TRUE
      <4>1. Menu[c] # {}
        BY SessionAssumption, Zenon DEF SessionAssumption
      <4>. QED
        BY <4>1
    <3>2. (CHOOSE x \in Menu[c] : TRUE) \in Menu[c]
      BY <3>1
    <3>. QED
      BY <3>2, MenuTyped
  <2>. QED
    BY <2>1 DEF Init
<1>2. TypeOK
  BY <1>1 DEF Init, TypeOK
<1>. QED
  BY <1>2 DEF Init, TypeInv, SocketsCounted, Connected, TcpTyped

LEMMA TypeTypes ==
    ASSUME TypeInv, NEW c \in Clients, Type(c)
    PROVE  TypeInv'
<1>1. ASSUME NEW t \in Menu[c], Begin(c, t),
             NEW l \in {"await", "connect", "ended"}, Goto(c, l),
             tries' \in [Clients -> Nat], requests' \subseteq Requests,
             \A q \in requests' \ requests :
                q.out.op \in SessionOps \cup {"LIN"} => q.out.uid \in Users,
             l = "connect" => /\ t.op \in TcpCodes
                              /\ t.op # "SAS" => user[c] \in Users,
             open' = IF l = "connect" THEN [open EXCEPT ![c] = @ + 1] ELSE open
      PROVE  TypeInv'
  <2>1. t \in Menus
    BY MenuTyped
  <2>5. \A q \in requests' :
           q.out.op \in SessionOps \cup {"LIN"} => q.out.uid \in Users
    BY <1>1 DEF TypeInv, TypeOK
  <2>6. open' \in [Clients -> Nat]
    BY <1>1 DEF TypeInv, TypeOK
  <2>2. TypeOK'
    BY <1>1, <2>1, <2>5, <2>6, SMTT(60) DEF TypeInv, TypeOK, Begin, Goto, serverVars
  <2>3. SocketsCounted'
    BY <1>1 DEF TypeInv, TypeOK, SocketsCounted, Connected, Begin, Goto
  <2>4. TcpTyped'
    BY <1>1 DEF TypeInv, TypeOK, TcpTyped, Begin, Goto
  <2>. QED
    BY <2>2, <2>3, <2>4 DEF TypeInv
<1>2. CASE Exit(c)
  BY <1>1, <1>2 DEF Exit, TypeInv, TypeOK
<1>3. CASE SendUdp(c)
  <2> PICK t \in Menu[c] :
        /\ Begin(c, t) /\ Goto(c, "await")
        /\ tries' = [tries EXCEPT ![c] = TriesMax - 1]
        /\ requests' = requests \cup {Request(c, turn[c] + 1, t, TriesMax - 1)}
        /\ UNCHANGED open
        /\ Sends(c, t)
    BY <1>3 DEF SendUdp
  <2>1. TriesMax - 1 \in Nat /\ turn[c] + 1 \in Nat
    BY SessionAssumption DEF SessionAssumption, TypeInv, TypeOK
  <2>2. Request(c, turn[c] + 1, t, TriesMax - 1) \in Requests
    BY <2>1, MenuTyped, RequestTyped DEF TypeInv
  <2>3. tries' \in [Clients -> Nat] /\ requests' \subseteq Requests
    BY <2>1, <2>2 DEF TypeInv, TypeOK
  <2>4. t \in Menus
    BY MenuTyped
  <2>5. Request(c, turn[c] + 1, t, TriesMax - 1).out.op \in SessionOps \cup {"LIN"}
        => Request(c, turn[c] + 1, t, TriesMax - 1).out.uid \in Users
    BY <2>4, UserKnown, MenuTyped DEF TypeInv, Sends, SessionOps, Typed, Commands,
         UdpCodes, TcpCodes
  <2>. QED
    BY <1>1, <2>3, <2>5
<1>4. CASE OpenTcpSocket(c)
  BY <1>1, <1>4 DEF OpenTcpSocket, TypeInv, TypeOK, Sends, SessionOps, TcpCodes
<1>. QED
  BY <1>2, <1>3, <1>4 DEF Type

LEMMA UdpTypes ==
    ASSUME TypeInv, NEW c \in Clients,
           Timeout(c) \/ ReceiveUnexpected(c) \/ Receive(c)
    PROVE  TypeInv'
<1>1. pc[c] = "await" /\ UNCHANGED <<open, unsent>>
  BY DEF Timeout, ReceiveUnexpected, Receive
<1>2. ASSUME NEW l \in {"prompt", "ended", "killed"}, Goto(c, l)
      PROVE  SocketsCounted' /\ TcpTyped'
  <2>1. SocketsCounted'
    BY <1>1, <1>2 DEF TypeInv, TypeOK, SocketsCounted, Connected, Goto
  <2>2. \A d \in Clients : pc'[d] \in {"connect", "write"} =>
          d # c /\ pc'[d] = pc[d]
    BY <1>2 DEF TypeInv, TypeOK, Goto
  <2>3. \A d \in Clients \ {c} : typed'[d] = typed[d] /\ user'[d] = user[d]
    BY DEF Timeout, ReceiveUnexpected, Receive, SetSession, TypeInv, TypeOK
  <2>4. TcpTyped'
    BY <2>2, <2>3 DEF TypeInv, TcpTyped
  <2>. QED
    BY <2>1, <2>4
<1>3. ASSUME socket[c] # <<>>
      PROVE  Head(socket[c]) \in Answers /\ Tail(socket[c]) \in Seq(Answers)
  BY <1>3 DEF TypeInv, TypeOK
<1>4. CASE Timeout(c)
  <2>1. GiveUp(c) /\ UNCHANGED <<user, password, typed, socket, open, answers,
                    serverVars, turn, unsent, answered, executed, author>>
    BY <1>4 DEF Timeout, Retries, TimeoutException
  <2>2. TypeOK'
    BY <2>1 DEF TypeInv, TypeOK, GiveUp, Goto, serverVars
  <2>. QED
    BY <1>2, <2>1, <2>2 DEF TypeInv, GiveUp
<1>5. CASE ReceiveUnexpected(c)
  <2>1. TypeOK'
    BY <1>3, <1>5, SMTT(60)
    DEF ReceiveUnexpected, TypeInv, TypeOK, GiveUp, Goto, serverVars
  <2>. QED
    BY <1>2, <1>5, <2>1 DEF ReceiveUnexpected, TypeInv, GiveUp
<1>6. CASE Receive(c)
  <2> DEFINE a == Head(socket[c])
  <2>1. a \in Answers /\ a.turn \in Nat /\ Tail(socket[c]) \in Seq(Answers)
    BY <1>3, <1>6 DEF Receive, Answers
  <2>2. typed[c].uid.num \in Users /\ typed[c].pw \in Passwords
    <3>1. typed[c] \in Typed
      BY MenuTyped DEF Menus, TypeInv, TypeOK
    <3>. QED
      BY <3>1 DEF Typed
  <2>3. /\ user' \in [Clients -> Users \cup {LOGGED_OUT}]
        /\ password' \in [Clients -> Passwords \cup {None}]
    BY <1>6, <2>2 DEF Receive, SetSession, TypeInv, TypeOK
  <2>4. PICK l \in AfterAnswer(c) : Goto(c, l)
    BY <1>6 DEF Receive
  <2>5. l \in {"prompt", "ended", "killed"}
    BY <2>4 DEF AfterAnswer
  <2>6. /\ socket' \in [Clients -> Seq(Answers)]
        /\ answered' \in [Clients -> Nat]
        /\ pc' \in [Clients -> {"prompt", "await", "connect", "write", "read",
                                "ended", "killed"}]
    BY <1>6, <2>1, <2>4, <2>5 DEF Receive, Goto, TypeInv, TypeOK
  <2>7. TypeOK'
    BY <1>6, <2>3, <2>6 DEF Receive, TypeInv, TypeOK, serverVars
  <2>. QED
    BY <1>2, <2>4, <2>5, <2>7 DEF TypeInv
<1>. QED
  BY <1>4, <1>5, <1>6

LEMMA TcpTypes ==
    ASSUME TypeInv, NEW c \in Clients,
           \/ Connect(c) \/ ConnectFails(c) \/ Write(c) \/ WriteFails(c)
           \/ WriteKilled(c) \/ ReadAnswer(c) \/ ReadFails(c)
    PROVE  TypeInv'
<1>1. PICK l \in {"prompt", "write", "read", "killed"} : Goto(c, l)
  BY DEF Connect, ConnectFails, Write, WriteFails, WriteKilled, ReadAnswer,
         ReadFails, CloseTcpSocket
<1>2. Connected(c) /\ UNCHANGED tcpRest
  BY DEF Connect, ConnectFails, Write, WriteFails, WriteKilled, ReadAnswer,
         ReadFails, Connected
<1>3. open[c] = unsent[c] + 1
  BY <1>2 DEF TypeInv, SocketsCounted
<1>4. \/ l \in {"write", "read", "killed"} /\ UNCHANGED <<open, unsent>>
      \/ /\ l = "prompt" /\ open' = [open EXCEPT ![c] = @ - 1]
         /\ UNCHANGED unsent
      \/ /\ l = "prompt" /\ unsent' = [unsent EXCEPT ![c] = @ + 1]
         /\ UNCHANGED open
  BY <1>1 DEF Connect, ConnectFails, Write, WriteFails, WriteKilled, ReadAnswer,
              ReadFails, CloseTcpSocket, Goto, TypeInv, TypeOK
<1>5. open' \in [Clients -> Nat] /\ unsent' \in [Clients -> Nat]
  <2>1. open[c] - 1 \in Nat /\ unsent[c] + 1 \in Nat
    BY <1>3 DEF TypeInv, TypeOK
  <2>. QED
    <3>1. open \in [Clients -> Nat] /\ unsent \in [Clients -> Nat]
      BY DEF TypeInv, TypeOK
    <3>. QED
      BY <1>4, <2>1, <3>1
<1>6. SocketsCounted'
  <2>1. pc'[c] = l /\ \A d \in Clients \ {c} :
          pc'[d] = pc[d] /\ open'[d] = open[d] /\ unsent'[d] = unsent[d]
    BY <1>1, <1>4 DEF Goto, TypeInv, TypeOK
  <2>2. \/ l \in {"write", "read", "killed"} /\ open'[c] = open[c]
                                             /\ unsent'[c] = unsent[c]
        \/ l = "prompt" /\ open'[c] = unsent'[c]
    <3>1. open \in [Clients -> Nat] /\ unsent \in [Clients -> Nat]
      BY DEF TypeInv, TypeOK
    <3>. QED
      BY <1>3, <1>4, <3>1
  <2>. QED
    BY <1>3, <2>1, <2>2 DEF TypeInv, SocketsCounted, Connected
<1>7. /\ requests' \subseteq Requests
      /\ \A q \in requests' :
            q.out.op \in SessionOps \cup {"LIN"} => q.out.uid \in Users
  <2>1. CASE Write(c)
    <3>1. typed[c] \in Menus /\ turn[c] \in Nat
      BY DEF TypeInv, TypeOK
    <3>2. Request(c, turn[c], typed[c], 0) \in Requests
      BY <3>1, RequestTyped DEF TypeInv
    <3>3. typed[c].op = "SAS" \/ user[c] # LOGGED_OUT
      BY <2>1, SessionAssumption DEF Write, TypeInv, TcpTyped, SessionAssumption
    <3>4. Request(c, turn[c], typed[c], 0).out.op \in SessionOps \cup {"LIN"} =>
            Request(c, turn[c], typed[c], 0).out.uid \in Users
      BY <3>1, <3>3, UserKnown DEF TypeInv
    <3>5. requests' = requests \cup {Request(c, turn[c], typed[c], 0)}
      BY <2>1 DEF Write
    <3>. QED
      BY <3>2, <3>4, <3>5 DEF TypeInv, TypeOK
  <2>. QED
    BY <2>1 DEF Connect, ConnectFails, WriteFails, WriteKilled, ReadAnswer,
                ReadFails, TypeInv, TypeOK
<1>8. /\ answers' \subseteq answers
      /\ answered' \in [Clients -> Nat]
  BY DEF Connect, ConnectFails, Write, WriteFails, WriteKilled, ReadAnswer,
         ReadFails, TypeInv, TypeOK, Answers
<1>9. pc' \in [Clients -> {"prompt", "await", "connect", "write", "read",
                           "ended", "killed"}]
  BY <1>1 DEF Goto, TypeInv, TypeOK
<1>10. TypeOK'
  BY <1>2, <1>5, <1>7, <1>8, <1>9 DEF TypeInv, TypeOK, tcpRest, serverVars
<1>11. TcpTyped'
  <2>1. pc[c] \in {"connect", "write"} \/ l \in {"prompt", "killed"}
    BY <1>1 DEF Connect, ConnectFails, Write, WriteFails, WriteKilled,
                ReadAnswer, ReadFails, CloseTcpSocket, Goto, TypeInv, TypeOK
  <2>2. \A d \in Clients :
          pc'[d] \in {"connect", "write"} => pc[d] \in {"connect", "write"}
    BY <1>1, <2>1 DEF Goto, TypeInv, TypeOK
  <2>. QED
    BY <1>2, <2>2 DEF TypeInv, TcpTyped, tcpRest
<1>. QED
  BY <1>6, <1>10, <1>11 DEF TypeInv

LEMMA RequestOut ==
    ASSUME NEW q \in Requests
    PROVE  /\ q.out.op \in UdpCodes \cup TcpCodes
           /\ q.out.uid \in Users \cup {LOGGED_OUT}
           /\ q.out.pw \in Passwords \cup {None}
<1> PICK t \in Menus, u \in Users \cup {LOGGED_OUT},
         p \in Passwords \cup {None} : q.out = MessageOut(t, u, p)
  BY DEF Requests
<1>1. t.op \in Commands
  BY MenuTyped DEF Menus, Typed
<1>. QED
  BY <1>1 DEF MessageOut, Code, Commands, UdpCodes, TcpCodes

LEMMA SendTypes ==
    ASSUME TypeOK, NEW q \in requests,
           NEW status \in ReplyStatuses[q.out.op] \cup {"silent"},
           q.out.op \in UdpCodes \cup TcpCodes,
           status \in Statements \cup {"silent"},
           Send(q, status)
    PROVE  /\ answers' \subseteq Answers
           /\ \A a \in answers' : a.status \in ReplyStatuses[a.op]
<1>1. q.client \in Clients /\ q.turn \in Nat /\ q.left \in Nat
  BY DEF TypeOK, Requests
<1>. QED
  BY <1>1 DEF Send, TypeOK, Answers

LEMMA ServerTypes ==
    ASSUME TypeInv, Deliver \/ Serve \/ Refuse
    PROVE  TypeInv'
<1>1. UNCHANGED <<pc, open, unsent>>
  BY DEF Deliver, Serve, Refuse, clientVars, serveRest, history
<1>2. SocketsCounted' /\ TcpTyped'
  <2>1. UNCHANGED <<typed, user>>
    BY DEF Deliver, Serve, Refuse, clientVars, serveRest, history
  <2>. QED
    BY <1>1, <2>1 DEF TypeInv, SocketsCounted, Connected, TcpTyped
<1>3. CASE Deliver
  <2> PICK a \in answers :
        /\ answers' = answers \ {a}
        /\ socket' = [socket EXCEPT ![a.client] = Append(@, a)]
        /\ UNCHANGED <<pc, user, password, typed, tries, open, requests,
                       serverVars, history>>
    BY <1>3 DEF Deliver
  <2>1. a \in Answers /\ a.client \in Clients
    BY DEF Answers, TypeInv, TypeOK
  <2>2. socket' \in [Clients -> Seq(Answers)]
    BY <2>1 DEF TypeInv, TypeOK
  <2>3. TypeOK'
    BY <2>2 DEF TypeInv, TypeOK, serverVars, history
  <2>. QED
    BY <1>2, <2>3 DEF TypeInv
<1>4. ASSUME NEW q \in requests
      PROVE  /\ q.out.op \in UdpCodes \cup TcpCodes
             /\ q.out.uid \in Users \cup {LOGGED_OUT}
             /\ q.out.pw \in Passwords \cup {None}
             /\ q.client \in Clients /\ q.turn \in Nat
  <2>1. q \in Requests
    BY DEF TypeInv, TypeOK
  <2>. QED
    BY <2>1, RequestOut DEF Requests
<1>5. CASE Serve
  <2> PICK q \in requests :
        /\ requests' = requests \ {q}
        /\ executed' = executed \cup {<<q.client, q.turn>>}
        /\ \E status \in Statuses(q.out) :
              Send(q, status) /\ UpdateAccounts(q, status)
        /\ UNCHANGED serveRest
    BY <1>5 DEF Serve
  <2> PICK status \in Statuses(q.out) :
              Send(q, status) /\ UpdateAccounts(q, status)
    OBVIOUS
  <2>1. status \in ReplyStatuses[q.out.op] \cup {"silent"}
    BY <1>4, StatusesFit
  <2>2. status \in Statements \cup {"silent"}
    BY <1>4, <2>1 DEF ReplyStatuses, Statements, UdpCodes, TcpCodes
  <2>3. /\ answers' \subseteq Answers
        /\ \A a \in answers' : a.status \in ReplyStatuses[a.op]
    BY <1>4, <2>1, <2>2, SendTypes DEF TypeInv
  <2>4. /\ account' \in [Users -> Passwords \cup {None}]
        /\ present' \subseteq Users
        /\ author' \in [Users -> Clients \cup {None}]
    <3>1. q.out.op \in {"LIN", "LOU", "UNR"} => q.out.uid \in Users
      BY DEF TypeInv, TypeOK, SessionOps
    <3>. QED
      BY <1>4, <3>1 DEF UpdateAccounts, TypeInv, TypeOK, serverVars
  <2>5. executed' \subseteq Clients \X Nat
    BY <1>4 DEF TypeInv, TypeOK
  <2>6. TypeOK'
    BY <2>3, <2>4, <2>5 DEF TypeInv, TypeOK, serveRest, clientVars
  <2>. QED
    BY <1>2, <2>6 DEF TypeInv
<1>6. CASE Refuse
  <2> PICK q \in requests :
        /\ requests' = requests \ {q}
        /\ Send(q, IF ReadResult(buildMessage(q.out)) = "File" THEN "silent"
                                                               ELSE "ERR")
        /\ UNCHANGED <<serveRest, serverVars, executed, author>>
    BY <1>6 DEF Refuse
  <2>1. "ERR" \in ReplyStatuses[q.out.op] \cap Statements
    BY <1>4 DEF ReplyStatuses, Statements, UdpCodes, TcpCodes
  <2>2. /\ answers' \subseteq Answers
        /\ \A a \in answers' : a.status \in ReplyStatuses[a.op]
    BY <1>4, <2>1, SendTypes DEF TypeInv
  <2>3. TypeOK'
    BY <2>2 DEF TypeInv, TypeOK, serveRest, clientVars, serverVars
  <2>. QED
    BY <1>2, <2>3 DEF TypeInv
<1>. QED
  BY <1>3, <1>5, <1>6

LEMMA TypeStep == TypeInv /\ [Next]_vars => TypeInv'
<1> SUFFICES ASSUME TypeInv, [Next]_vars PROVE TypeInv'
  OBVIOUS
<1>1. CASE \E c \in Clients : Type(c)
  BY <1>1, TypeTypes
<1>2. CASE \E c \in Clients : ClientStep(c)
  BY <1>2, UdpTypes, TcpTypes DEF ClientStep
<1>3. CASE Deliver \/ Serve \/ Refuse
  BY <1>3, ServerTypes
<1>4. CASE UNCHANGED vars
  BY <1>4 DEF vars, clientVars, serverVars, history, TypeInv, TypeOK,
              SocketsCounted, Connected, TcpTyped
<1>. QED
  BY <1>1, <1>2, <1>3, <1>4 DEF Next

\* The types of the client's session and of what is on the network.
THEOREM TypeCorrect == Spec => []TypeOK
<1>1. Init => TypeInv
  BY TypeInit
<1>2. TypeInv /\ [Next]_vars => TypeInv'
  BY TypeStep
<1>3. TypeInv => TypeOK
  BY DEF TypeInv
<1>. QED
  BY <1>1, <1>2, <1>3, PTL DEF Spec

\* sendTcpMessageAndAwaitReply leaves no socket open but those of the commands
\* whose send_tcp_message failed.
THEOREM SocketsAccounted == Spec => []SocketsClosed
<1>1. Init => TypeInv
  BY TypeInit
<1>2. TypeInv /\ [Next]_vars => TypeInv'
  BY TypeStep
<1>3. TypeInv => SocketsClosed
  BY DEF TypeInv, TypeOK, SocketsCounted, Connected, SocketsClosed
<1>. QED
  BY <1>1, <1>2, <1>3, PTL DEF Spec

-----------------------------------------------------------------------------
(* Nothing is sent twice                                                   *)

\* Turns are numbered upwards, and one that is to be sent has not been.
TurnsInv ==
    /\ \A q \in requests : /\ q.turn <= turn[q.client]
                           /\ <<q.client, q.turn>> \notin executed
    /\ \A q, r \in requests : q.client = r.client /\ q.turn = r.turn => q = r
    /\ \A e \in executed : e[2] <= turn[e[1]]
    /\ \A c \in Clients : pc[c] \in {"connect", "write"} =>
          /\ <<c, turn[c]>> \notin executed
          /\ \A q \in requests : q.client = c => q.turn # turn[c]

LEMMA RequestIs ==
    ASSUME NEW c, NEW n, NEW t, NEW l
    PROVE  /\ Request(c, n, t, l).client = c /\ Request(c, n, t, l).turn = n
           /\ Request(c, n, t, l).typed = t /\ Request(c, n, t, l).left = l
           /\ Request(c, n, t, l).out.op = Code(t.op)
BY DEF Request, MessageOut

LEMMA TurnsStep == TypeInv /\ TurnsInv /\ [Next]_vars => TurnsInv'
<1> SUFFICES ASSUME TypeInv, TurnsInv, [Next]_vars PROVE TurnsInv'
  OBVIOUS
<1> USE DEF TurnsInv
<1>1. /\ \A q \in requests : q.client \in Clients /\ q.turn \in Nat
      /\ \A e \in executed : e[1] \in Clients /\ e[2] \in Nat
      /\ turn \in [Clients -> Nat]
      /\ DOMAIN pc = Clients
  BY DEF TypeInv, TypeOK, Requests
\* A command begins: its number is a new one.
<1>2. ASSUME NEW c \in Clients, pc[c] = "prompt",
             turn' = [turn EXCEPT ![c] = @ + 1], executed' = executed,
             NEW l \in {"await", "connect", "ended"}, Goto(c, l),
             \/ requests' = requests
             \/ l = "await" /\ \E r : /\ requests' = requests \cup {r}
                                      /\ r.client = c /\ r.turn = turn[c] + 1
      PROVE  TurnsInv'
  <2>1. turn'[c] = turn[c] + 1 /\ \A d \in Clients \ {c} : turn'[d] = turn[d]
    BY <1>1, <1>2
  <2>2. pc'[c] = l /\ \A d \in Clients \ {c} : pc'[d] = pc[d]
    BY <1>1, <1>2 DEF Goto
  <2>3. turn[c] \in Nat
    BY <1>1
  <2>4. <<c, turn[c] + 1>> \notin executed
    BY <1>1, <2>3
  <2>5. ASSUME NEW q \in requests, q.client = c
        PROVE  q.turn # turn[c] + 1
    <3>1. q.turn <= turn[c] /\ q.turn \in Nat
      BY <1>1, <2>5
    <3>. QED
      BY <2>3, <3>1
  <2>. QED
    BY <1>1, <1>2, <2>1, <2>2, <2>3, <2>4, <2>5
\* Nothing is sent.
<1>3. ASSUME requests' \subseteq requests, turn' = turn,
             executed' = executed,
             \A c \in Clients : pc'[c] \in {"connect", "write"} =>
                                   pc[c] \in {"connect", "write"}
      PROVE  TurnsInv'
  BY <1>1, <1>3
<1>4. ASSUME NEW c \in Clients, Type(c)
      PROVE  TurnsInv'
  <2>1. CASE Exit(c)
    BY <1>2, <2>1 DEF Exit, Begin
  <2>2. CASE SendUdp(c)
    <3> PICK t \in Menu[c] :
          /\ Begin(c, t) /\ Goto(c, "await")
          /\ requests' = requests \cup {Request(c, turn[c] + 1, t, TriesMax - 1)}
      BY <2>2 DEF SendUdp
    <3>1. \E r : /\ requests' = requests \cup {r}
                 /\ r.client = c /\ r.turn = turn[c] + 1
      BY RequestIs
    <3>. QED
      BY <1>2, <3>1 DEF Begin
  <2>3. CASE OpenTcpSocket(c)
    BY <1>2, <2>3 DEF OpenTcpSocket, Begin
  <2>. QED
    BY <1>4, <2>1, <2>2, <2>3 DEF Type
<1>5. ASSUME NEW c \in Clients, ClientStep(c)
      PROVE  TurnsInv'
  <2>1. CASE Write(c)
    <3>1. /\ pc[c] = "write" /\ pc' = [pc EXCEPT ![c] = "read"]
          /\ requests' = requests \cup {Request(c, turn[c], typed[c], 0)}
          /\ turn' = turn /\ executed' = executed
      BY <2>1 DEF Write, Goto, tcpRest
    <3>2. \A d \in Clients : pc'[d] \in {"connect", "write"} =>
                                d # c /\ pc[d] \in {"connect", "write"}
      BY <1>1, <3>1
    <3> DEFINE r == Request(c, turn[c], typed[c], 0)
    <3>3. r.client = c /\ r.turn = turn[c] /\ turn[c] <= turn[c]
      BY <1>1, RequestIs
    <3> HIDE DEF r
    <3>4. /\ <<c, turn[c]>> \notin executed
          /\ \A q \in requests : q.client = c => q.turn # turn[c]
      BY <3>1
    <3>5. \A q \in requests' : /\ q.turn <= turn'[q.client]
                               /\ <<q.client, q.turn>> \notin executed'
      BY <3>1, <3>3, <3>4 DEF r
    <3>6. \A p, q \in requests' :
              p.client = q.client /\ p.turn = q.turn => p = q
      BY <3>1, <3>3, <3>4 DEF r
    <3>7. \A d \in Clients : pc'[d] \in {"connect", "write"} =>
             /\ <<d, turn'[d]>> \notin executed'
             /\ \A q \in requests' : q.client = d => q.turn # turn'[d]
      BY <3>1, <3>2, <3>3 DEF r
    <3>. QED
      BY <3>1, <3>5, <3>6, <3>7
  <2>2. CASE ~Write(c)
    <3>1. requests' = requests /\ turn' = turn /\ executed' = executed
      BY <1>5, <2>2 DEF ClientStep, Timeout, Retries, TimeoutException, GiveUp,
           ReceiveUnexpected, Receive, Connect, ConnectFails, WriteFails,
           WriteKilled, ReadAnswer, ReadFails, tcpRest
    <3>2. PICK l \in {"prompt", "ended", "killed", "write", "read"} : Goto(c, l)
      BY <1>5, <2>2 DEF ClientStep, Timeout, Retries, TimeoutException, GiveUp,
           ReceiveUnexpected, Receive, AfterAnswer, Connect, ConnectFails,
           WriteFails, WriteKilled, ReadAnswer, ReadFails, CloseTcpSocket
    <3>3. l = "write" => pc[c] = "connect"
      BY <1>1, <1>5, <2>2, <3>2
      DEF ClientStep, Timeout, Retries, TimeoutException, GiveUp, Goto,
          ReceiveUnexpected, Receive, AfterAnswer, Connect, ConnectFails,
          WriteFails, WriteKilled, ReadAnswer, ReadFails, CloseTcpSocket
    <3>. QED
      BY <1>1, <1>3, <3>1, <3>2, <3>3 DEF Goto
  <2>. QED
    BY <2>1, <2>2
<1>6. CASE Deliver
  BY <1>3, <1>6 DEF Deliver, history
<1>7. CASE Refuse
  BY <1>3, <1>7 DEF Refuse, serveRest, clientVars
<1>8. CASE Serve
  <2> PICK q \in requests :
        /\ requests' = requests \ {q}
        /\ executed' = executed \cup {<<q.client, q.turn>>}
        /\ pc' = pc /\ turn' = turn
    BY <1>8 DEF Serve, serveRest, clientVars
  <2>. QED
    BY <1>1
<1>9. CASE UNCHANGED vars
  BY <1>9 DEF vars, clientVars, history
<1>. QED
  BY <1>4, <1>5, <1>6, <1>7, <1>8, <1>9 DEF Next

-----------------------------------------------------------------------------
(* The exchange of a client that has never given up                        *)

UdpRequests(c) == {q \in requests : q.client = c /\ q.out.op \in UdpCodes}
UdpAnswers(c)  == {a \in answers : a.client = c /\ a.op \in UdpCodes}

\* The one datagram there is, if any, belongs to the command that waits.
Exchange(c) == gaveUps[c] = 0 =>
    /\ \A q \in UdpRequests(c) :
          /\ q = Request(c, turn[c], typed[c], q.left)
          /\ pc[c] = "await" /\ UdpAnswers(c) = {} /\ socket[c] = <<>>
    /\ \A a \in UdpAnswers(c) :
          /\ a.turn = turn[c] /\ UdpAnswers(c) = {a}
          /\ pc[c] = "await" /\ socket[c] = <<>>
    /\ socket[c] # <<>> => /\ Len(socket[c]) = 1 /\ socket[c][1].turn = turn[c]
                           /\ pc[c] = "await"

\* What the client takes the session to be, u with password p, is what the
\* server has made of the client's commands.
Agrees(c, u, p) ==
    /\ u # LOGGED_OUT /\ author[u] = c => u \in present /\ account[u] = p
    /\ \A v \in present : author[v] = c => u = v

\* The session after an answer.
UserAfter(c, a) == IF LogsIn(c, a.status) THEN typed[c].uid.num
                   ELSE IF LogsOut(c, a.status) THEN LOGGED_OUT ELSE user[c]
PasswordAfter(c, a) == IF LogsIn(c, a.status) THEN typed[c].pw
                       ELSE IF LogsOut(c, a.status) THEN None ELSE password[c]

\* Before the server executes a command they agree, and after it they will
\* once the client has its answer.
Session(c) == gaveUps[c] = 0 =>
    /\ pc[c] # "await" \/ UdpRequests(c) # {} => Agrees(c, user[c], password[c])
    /\ \A a \in UdpAnswers(c) : Agrees(c, UserAfter(c, a), PasswordAfter(c, a))
    /\ socket[c] # <<>> => Agrees(c, UserAfter(c, socket[c][1]),
                                     PasswordAfter(c, socket[c][1]))

\* What a client that waits for a datagram has typed.
UdpTyped == \A c \in Clients : pc[c] = "await" =>
    /\ Code(typed[c].op) \in UdpCodes
    /\ typed[c].op = "LIN" <=> user[c] = LOGGED_OUT /\ typed[c].op \notin {"LST", "SRC"}

SessionInv == /\ TypeInv /\ TurnsInv /\ UdpTyped /\ AnswersCorrespond
              /\ \A c \in Clients : Exchange(c) /\ Session(c)

LEMMA UdpTypedStep == TypeInv /\ UdpTyped /\ [Next]_vars => UdpTyped'
<1> SUFFICES ASSUME TypeInv, UdpTyped, [Next]_vars PROVE UdpTyped'
  OBVIOUS
<1>1. /\ pc \in [Clients -> {"prompt", "await", "connect", "write", "read",
                             "ended", "killed"}]
      /\ typed \in [Clients -> Menus]
      /\ user \in [Clients -> Users \cup {LOGGED_OUT}]
  BY DEF TypeInv, TypeOK
<1>2. ASSUME \A c \in Clients : pc'[c] = "await" =>
                pc[c] = "await" /\ typed'[c] = typed[c] /\ user'[c] = user[c]
      PROVE  UdpTyped'
  BY <1>2 DEF UdpTyped
<1>3. ASSUME NEW c \in Clients, SendUdp(c)
      PROVE  UdpTyped'
  <2> PICK t \in Menu[c] : /\ Code(t.op) \in UdpCodes /\ Sends(c, t)
                           /\ Begin(c, t) /\ Goto(c, "await")
    BY <1>3 DEF SendUdp
  <2>1. \A d \in Clients \ {c} :
           pc'[d] = pc[d] /\ typed'[d] = typed[d] /\ user'[d] = user[d]
    BY <1>1 DEF Begin, Goto
  <2>2. typed'[c] = t /\ user'[c] = user[c]
    BY <1>1 DEF Begin
  <2>3. t.op = "LIN" <=> user[c] = LOGGED_OUT /\ t.op \notin {"LST", "SRC"}
    BY DEF Sends, SessionOps, Code, UdpCodes
  <2>. QED
    BY <2>1, <2>2, <2>3 DEF UdpTyped
<1>4. ASSUME NEW c \in Clients, Type(c)
      PROVE  UdpTyped'
  <2>1. CASE Exit(c)
    BY <1>1, <1>2, <2>1 DEF Exit, Begin, Goto
  <2>2. CASE OpenTcpSocket(c)
    BY <1>1, <1>2, <2>2 DEF OpenTcpSocket, Begin, Goto
  <2>. QED
    BY <1>3, <1>4, <2>1, <2>2 DEF Type
<1>5. ASSUME NEW c \in Clients, ClientStep(c)
      PROVE  UdpTyped'
  <2>1. PICK l \in {"prompt", "ended", "killed", "write", "read"} : Goto(c, l)
    BY <1>5 DEF ClientStep, Timeout, Retries, TimeoutException, GiveUp,
         ReceiveUnexpected, Receive, AfterAnswer, Connect, ConnectFails, Write,
         WriteFails, WriteKilled, ReadAnswer, ReadFails, CloseTcpSocket
  <2>2. typed' = typed /\ \A d \in Clients \ {c} : user'[d] = user[d]
    BY <1>1, <1>5 DEF ClientStep, Timeout, ReceiveUnexpected, Receive,
         SetSession, Connect, ConnectFails, Write, WriteFails, WriteKilled,
         ReadAnswer, ReadFails, tcpRest
  <2>. QED
    BY <1>1, <1>2, <2>1, <2>2 DEF Goto
<1>6. CASE Deliver \/ Serve \/ Refuse \/ UNCHANGED vars
  BY <1>2, <1>6 DEF Deliver, Serve, Refuse, serveRest, vars, clientVars
<1>. QED
  BY <1>4, <1>5, <1>6 DEF Next

\* A step that leaves a client's exchange alone, and what the server has made
\* of its commands.
Elsewhere(c) ==
    /\ UdpRequests(c)' \subseteq UdpRequests(c)
    /\ UdpAnswers(c)' \subseteq UdpAnswers(c)
    /\ pc'[c] = "await" <=> pc[c] = "await"
    /\ socket'[c] = socket[c] /\ typed'[c] = typed[c] /\ turn'[c] = turn[c]
    /\ user'[c] = user[c] /\ password'[c] = password[c]
    /\ gaveUps'[c] = gaveUps[c]
    /\ \A u \in Users : author'[u] = c =>
          /\ author[u] = c /\ account'[u] = account[u]
          /\ u \in present' <=> u \in present

LEMMA TypedUser ==
    ASSUME TypeOK, NEW c \in Clients
    PROVE  typed[c].uid.num \in Users
<1>1. typed[c] \in Typed
  BY MenuTyped DEF Menus, TypeOK
<1>. QED
  BY <1>1 DEF Typed

LEMMA ElsewhereKeeps ==
    ASSUME TypeInv, TypeInv', NEW c \in Clients, Elsewhere(c),
           Exchange(c), Session(c)
    PROVE  Exchange(c)' /\ Session(c)'
<1> USE DEF Elsewhere
<1>1. Exchange(c)'
  BY DEF Exchange, Request
<1>2. ASSUME NEW u \in Users \cup {LOGGED_OUT}, NEW p, Agrees(c, u, p)
      PROVE  Agrees(c, u, p)'
  BY <1>2 DEF Agrees, TypeInv, TypeOK
<1>3. ASSUME NEW a
      PROVE  /\ UserAfter(c, a)' = UserAfter(c, a)
             /\ PasswordAfter(c, a)' = PasswordAfter(c, a)
             /\ UserAfter(c, a) \in Users \cup {LOGGED_OUT}
  <2>1. user[c] \in Users \cup {LOGGED_OUT}
    BY DEF TypeInv, TypeOK
  <2>. QED
    BY <2>1, TypedUser
    DEF UserAfter, PasswordAfter, LogsIn, LogsOut, TypeInv
<1>4. Session(c)'
  BY <1>2, <1>3, ZenonT(60) DEF Session, TypeInv, TypeOK
<1>. QED
  BY <1>1, <1>4

\* The steps of a client as the others see them, and those of its TCP
\* exchanges as it sees them itself.
LEMMA ClientElsewhere ==
    ASSUME TypeInv, NEW c \in Clients, NEW d \in Clients,
           \/ d # c /\ (Type(c) \/ ClientStep(c))
           \/ /\ d = c
              /\ \/ Connect(c) \/ ConnectFails(c) \/ Write(c) \/ WriteFails(c)
                 \/ WriteKilled(c) \/ ReadAnswer(c) \/ ReadFails(c)
    PROVE  Elsewhere(d)
<1> DEFINE Tcp == \/ Connect(c) \/ ConnectFails(c) \/ Write(c) \/ WriteFails(c)
                  \/ WriteKilled(c) \/ ReadAnswer(c) \/ ReadFails(c)
<1>1. ASSUME NEW q \in requests', q \notin requests
      PROVE  q.client # d \/ q.out.op \notin UdpCodes
  <2>1. CASE d # c /\ Type(c)
    BY <1>1, <2>1, RequestIs DEF Type, Exit, SendUdp, OpenTcpSocket
  <2>2. CASE Write(c)
    <3>1. q = Request(c, turn[c], typed[c], 0)
      BY <1>1, <2>2 DEF Write
    <3>2. typed[c].op \in TcpCodes
      BY <2>2 DEF Write, TypeInv, TcpTyped
    <3>. QED
      BY <3>1, <3>2, RequestIs DEF Code, TcpCodes, UdpCodes
  <2>3. ASSUME Timeout(c) \/ ReceiveUnexpected(c) \/ Receive(c)
        PROVE  requests' = requests
    BY <2>3 DEF Timeout, Retries, TimeoutException, GiveUp, ReceiveUnexpected,
                Receive
  <2>4. ASSUME \/ Connect(c) \/ ConnectFails(c) \/ WriteFails(c)
               \/ WriteKilled(c) \/ ReadAnswer(c) \/ ReadFails(c)
        PROVE  requests' = requests
    BY <2>4 DEF Connect, ConnectFails, WriteFails, WriteKilled, ReadAnswer,
                ReadFails, tcpRest
  <2>5. \/ d # c /\ Type(c)
        \/ Write(c)
        \/ Timeout(c) \/ ReceiveUnexpected(c) \/ Receive(c)
        \/ \/ Connect(c) \/ ConnectFails(c) \/ WriteFails(c)
           \/ WriteKilled(c) \/ ReadAnswer(c) \/ ReadFails(c)
    BY Zenon DEF ClientStep
  <2>. QED
    BY <1>1, <2>1, <2>2, <2>3, <2>4, <2>5, Zenon
<1>2. answers' \subseteq answers
  BY DEF Type, Exit, SendUdp, OpenTcpSocket, Begin, ClientStep, Timeout,
     ReceiveUnexpected, Receive, Connect, ConnectFails, Write, WriteFails,
     WriteKilled, ReadAnswer, ReadFails, tcpRest
<1>3. UNCHANGED <<account, present, author>>
  BY DEF Type, Exit, SendUdp, OpenTcpSocket, Begin, ClientStep, Timeout,
     ReceiveUnexpected, Receive, Connect, ConnectFails, Write, WriteFails,
     WriteKilled, ReadAnswer, ReadFails, tcpRest, serverVars
<1>4. /\ pc \in [Clients -> {"prompt", "await", "connect", "write", "read",
                             "ended", "killed"}]
      /\ DOMAIN socket = Clients /\ DOMAIN typed = Clients
      /\ socket \in [Clients -> Seq(Answers)] /\ typed \in [Clients -> Menus]
      /\ turn \in [Clients -> Nat] /\ gaveUps \in [Clients -> Nat]
      /\ user \in [Clients -> Users \cup {LOGGED_OUT}]
      /\ password \in [Clients -> Passwords \cup {None}]
  BY DEF TypeInv, TypeOK
<1>5. CASE d # c /\ Type(c)
  <2>1. /\ pc'[d] = pc[d] /\ socket'[d] = socket[d] /\ typed'[d] = typed[d]
        /\ turn'[d] = turn[d] /\ gaveUps'[d] = gaveUps[d]
        /\ user'[d] = user[d] /\ password'[d] = password[d]
    BY <1>4, <1>5 DEF Type, Exit, SendUdp, OpenTcpSocket, Begin, Goto
  <2>. QED
    BY <1>1, <1>2, <1>3, <2>1 DEF Elsewhere, UdpRequests, UdpAnswers
<1>6. CASE Tcp
  <2>1. /\ pc'[d] = "await" <=> pc[d] = "await"
        /\ socket'[d] = socket[d] /\ typed'[d] = typed[d]
        /\ turn'[d] = turn[d] /\ gaveUps'[d] = gaveUps[d]
        /\ user'[d] = user[d] /\ password'[d] = password[d]
    BY <1>4, <1>6 DEF Goto, Connect, ConnectFails, Write, WriteFails,
       WriteKilled, ReadAnswer, ReadFails, CloseTcpSocket, tcpRest
  <2>. QED
    BY <1>1, <1>2, <1>3, <2>1 DEF Elsewhere, UdpRequests, UdpAnswers
<1>7. CASE d # c /\ (Timeout(c) \/ ReceiveUnexpected(c) \/ Receive(c))
  <2>1. /\ pc'[d] = pc[d] /\ socket'[d] = socket[d] /\ typed'[d] = typed[d]
        /\ turn'[d] = turn[d] /\ gaveUps'[d] = gaveUps[d]
        /\ user'[d] = user[d] /\ password'[d] = password[d]
    BY <1>4, <1>7 DEF Timeout, Retries, TimeoutException, GiveUp, Goto,
       ReceiveUnexpected, Receive, SetSession
  <2>. QED
    BY <1>1, <1>2, <1>3, <2>1 DEF Elsewhere, UdpRequests, UdpAnswers
<1>. QED
  BY <1>5, <1>6, <1>7 DEF ClientStep

LEMMA TypeSession ==
    ASSUME TypeInv, TypeInv', NEW c \in Clients, Type(c),
           Exchange(c), Session(c), UdpTyped
    PROVE  Exchange(c)' /\ Session(c)'
<1>1. /\ pc[c] = "prompt" /\ UNCHANGED <<user, password, socket, answers, gaveUps,
                                         account, present, author>>
  BY DEF Type, Exit, SendUdp, OpenTcpSocket, Begin, serverVars
<1>2. SUFFICES ASSUME gaveUps[c] = 0 PROVE Exchange(c)' /\ Session(c)'
  BY <1>1 DEF Exchange, Session
<1>3. UdpRequests(c) = {} /\ UdpAnswers(c) = {} /\ socket[c] = <<>>
  BY <1>1, <1>2 DEF Exchange
<1>4. Agrees(c, user[c], password[c])'
  BY <1>1, <1>2 DEF Session, Agrees
<1>5. UdpAnswers(c)' = {} /\ socket'[c] = <<>>
  BY <1>1, <1>3 DEF UdpAnswers
<1>6. CASE Exit(c) \/ OpenTcpSocket(c)
  <2>1. UdpRequests(c)' = {}
    BY <1>3, <1>6 DEF Exit, OpenTcpSocket, UdpRequests
  <2>. QED
    BY <1>4, <1>5, <2>1 DEF Exchange, Session
<1>7. CASE SendUdp(c)
  <2> PICK t \in Menu[c] :
        /\ Begin(c, t) /\ Goto(c, "await")
        /\ requests' = requests \cup {Request(c, turn[c] + 1, t, TriesMax - 1)}
    BY <1>7 DEF SendUdp
  <2>1. pc'[c] = "await" /\ turn'[c] = turn[c] + 1 /\ typed'[c] = t
    BY DEF Begin, Goto, TypeInv, TypeOK
  <2>2. UdpRequests(c)' \subseteq {Request(c, turn[c] + 1, t, TriesMax - 1)}
    BY <1>3 DEF UdpRequests
  <2>3. \A q \in UdpRequests(c)' : q = Request(c, turn[c], typed[c], q.left)'
    BY <1>1, <2>1, <2>2 DEF Request
  <2>. QED
    BY <1>4, <1>5, <2>1, <2>3 DEF Exchange, Session
<1>. QED
  BY <1>6, <1>7 DEF Type

LEMMA NoElements ==
    ASSUME NEW S, NEW s \in Seq(S), Len(s) = 0
    PROVE  s = <<>>
BY EmptySeq

LEMMA UdpSession ==
    ASSUME TypeInv, TypeInv', NEW c \in Clients,
           Timeout(c) \/ ReceiveUnexpected(c) \/ Receive(c),
           Exchange(c), Session(c), UdpTyped
    PROVE  Exchange(c)' /\ Session(c)'
<1>1. CASE Timeout(c) \/ ReceiveUnexpected(c)
  <2>1. gaveUps' = [gaveUps EXCEPT ![c] = @ + 1]
    BY <1>1 DEF Timeout, Retries, TimeoutException, GiveUp, ReceiveUnexpected
  <2>2. gaveUps'[c] # 0
    BY <2>1 DEF TypeInv, TypeOK
  <2>. QED
    BY <2>2 DEF Exchange, Session
<1>2. CASE Receive(c)
  <2> DEFINE a == Head(socket[c])
  <2>1. /\ socket[c] # <<>> /\ pc[c] = "await"
        /\ UNCHANGED <<typed, requests, answers, account, present, author,
                       gaveUps>>
        /\ socket' = [socket EXCEPT ![c] = Tail(@)]
    BY <1>2 DEF Receive, serverVars
  <2>2. SUFFICES ASSUME gaveUps[c] = 0 PROVE Exchange(c)' /\ Session(c)'
    BY <2>1 DEF Exchange, Session
  <2>3. UdpRequests(c) = {} /\ UdpAnswers(c) = {} /\ Len(socket[c]) = 1
    BY <2>1, <2>2 DEF Exchange
  <2>4. socket[c] \in Seq(Answers)
    BY DEF TypeInv, TypeOK
  <2>5. a = socket[c][1] /\ Tail(socket[c]) = <<>>
    <3>1. Tail(socket[c]) \in Seq(Answers) /\ Len(Tail(socket[c])) = 0
      BY <2>1, <2>3, <2>4, HeadTailProperties
    <3>2. Head(socket[c]) = socket[c][1]
      BY <2>1, <2>4, HeadTailProperties
    <3>3. Tail(socket[c]) = <<>>
      BY <3>1, NoElements
    <3>. QED
      BY <3>2, <3>3
  <2>6. /\ UdpRequests(c)' = {} /\ UdpAnswers(c)' = {} /\ socket'[c] = <<>>
    BY <2>1, <2>3, <2>5 DEF UdpRequests, UdpAnswers, TypeInv, TypeOK
  <2>7. user'[c] = UserAfter(c, a) /\ password'[c] = PasswordAfter(c, a)
    BY <1>2 DEF Receive, SetSession, UserAfter, PasswordAfter, LogsIn, LogsOut,
                TypeInv, TypeOK
  <2>8. Agrees(c, UserAfter(c, a), PasswordAfter(c, a))
    BY <2>1, <2>2, <2>5 DEF Session
  <2>9. Agrees(c, user[c], password[c])'
    BY <2>1, <2>7, <2>8 DEF Agrees
  <2>. QED
    BY <2>6, <2>9 DEF Exchange, Session
<1>. QED
  BY <1>1, <1>2

LEMMA DeliverSession ==
    ASSUME TypeInv, TypeInv', NEW c \in Clients, Deliver,
           Exchange(c), Session(c)
    PROVE  Exchange(c)' /\ Session(c)'
<1> PICK a \in answers :
      /\ a.op \in UdpCodes
      /\ answers' = answers \ {a}
      /\ socket' = [socket EXCEPT ![a.client] = Append(@, a)]
      /\ UNCHANGED <<pc, user, password, typed, tries, open, requests,
                     serverVars, history>>
  BY DEF Deliver
<1>1. a.client \in Clients /\ socket \in [Clients -> Seq(Answers)] /\ a \in Answers
  BY DEF TypeInv, TypeOK, Answers
<1>2. CASE a.client # c
  <2>1. Elsewhere(c)
    BY <1>1, <1>2 DEF Elsewhere, UdpRequests, UdpAnswers, serverVars, history
  <2>. QED
    BY <2>1, ElsewhereKeeps
<1>3. CASE a.client = c
  <2>1. SUFFICES ASSUME gaveUps[c] = 0 PROVE Exchange(c)' /\ Session(c)'
    BY DEF Exchange, Session, history
  <2>2. a \in UdpAnswers(c)
    BY <1>3 DEF UdpAnswers
  <2>3. /\ UdpAnswers(c) = {a} /\ a.turn = turn[c] /\ pc[c] = "await"
        /\ socket[c] = <<>> /\ UdpRequests(c) = {}
    BY <2>1, <2>2 DEF Exchange
  <2>4. socket'[c] = <<a>>
    BY <1>1, <1>3, <2>3
  <2>5. UdpAnswers(c)' = {} /\ UdpRequests(c)' = {}
    BY <2>3 DEF UdpAnswers, UdpRequests
  <2>6. Agrees(c, UserAfter(c, a), PasswordAfter(c, a))'
    BY <2>1, <2>2 DEF Session, Agrees, UserAfter, PasswordAfter, LogsIn,
                      LogsOut, serverVars, history
  <2>7. /\ Len(socket'[c]) = 1 /\ socket'[c][1] = a
        /\ pc'[c] = "await" /\ turn'[c] = turn[c]
    BY <2>3, <2>4 DEF history
  <2>. QED
    BY <2>3, <2>5, <2>6, <2>7 DEF Exchange, Session
<1>. QED
  BY <1>2, <1>3

\* The effect of a client's command on its account is that of its answer on
\* its session.
LEMMA ServeAgrees ==
    ASSUME TypeInv, UdpTyped, NEW c \in Clients, NEW q \in UdpRequests(c),
           pc[c] = "await", q = Request(c, turn[c], typed[c], q.left),
           NEW status \in Statuses(q.out), UpdateAccounts(q, status),
           NEW a, a.status = status, Agrees(c, user[c], password[c]),
           UNCHANGED clientVars
    PROVE  Agrees(c, UserAfter(c, a), PasswordAfter(c, a))'
<1> DEFINE t == typed[c]
           u == q.out.uid
<1>1. /\ q.client = c /\ q.out.op = Code(t.op)
      /\ t.op = "LIN" => u = t.uid.num /\ q.out.pw = t.pw
      /\ t.op # "LIN" => u = user[c] /\ q.out.pw = password[c]
  BY DEF Request, MessageOut
<1>2. t.op = "LIN" => user[c] = LOGGED_OUT /\ u \in Users
  BY <1>1, TypedUser DEF UdpTyped, TypeInv
<1>3. typed' = typed /\ user' = user /\ password' = password
  BY DEF clientVars
<1>4. /\ account \in [Users -> Passwords \cup {None}] /\ present \subseteq Users
      /\ author \in [Users -> Clients \cup {None}] /\ LOGGED_OUT \notin Users
  BY SessionAssumption DEF TypeInv, TypeOK, SessionAssumption
<1>5. CASE t.op = "LIN" /\ status \in {"OK", "REG"}
  <2>1. /\ account' = [account EXCEPT ![u] = t.pw] /\ present' = present \cup {u}
        /\ author' = [author EXCEPT ![u] = c]
    BY <1>1, <1>5 DEF UpdateAccounts, Code
  <2>2. UserAfter(c, a)' = u /\ PasswordAfter(c, a)' = t.pw
    BY <1>1, <1>3, <1>5 DEF UserAfter, PasswordAfter, LogsIn
  <2>. QED
    BY <1>2, <1>4, <1>5, <2>1, <2>2 DEF Agrees
<1>6. CASE t.op \in {"LOU", "UNR", "exit"} /\ status = "OK"
  <2>1. /\ present' = present \ {user[c]}
        /\ author' = [author EXCEPT ![user[c]] = c]
    BY <1>1, <1>6 DEF UpdateAccounts, Code
  <2>2. UserAfter(c, a)' = LOGGED_OUT
    BY <1>3, <1>6 DEF UserAfter, LogsIn, LogsOut
  <2>. QED
    BY <1>4, <2>1, <2>2 DEF Agrees
<1>7. CASE /\ ~(t.op = "LIN" /\ status \in {"OK", "REG"})
           /\ ~(t.op \in {"LOU", "UNR", "exit"} /\ status = "OK")
  <2>1. UNCHANGED <<account, present, author>>
    BY <1>1, <1>7 DEF UpdateAccounts, Code, serverVars
  <2>2. UserAfter(c, a)' = user[c] /\ PasswordAfter(c, a)' = password[c]
    BY <1>3, <1>7 DEF UserAfter, PasswordAfter, LogsIn, LogsOut
  <2>. QED
    BY <2>1, <2>2 DEF Agrees
<1>. QED
  BY <1>5, <1>6, <1>7

LEMMA ServeSession ==
    ASSUME TypeInv, TypeInv', TurnsInv, UdpTyped, NEW c \in Clients,
           Serve \/ Refuse, Exchange(c), Session(c)
    PROVE  Exchange(c)' /\ Session(c)'
<1> DEFINE Quietly(q, status) ==
             /\ UNCHANGED <<account, present, author>>
             /\ status \in {"silent", "ERR"}
           Knowingly(q, status) ==
             status \in Statuses(q.out) /\ UpdateAccounts(q, status)
<1>1. PICK q \in requests :
        /\ requests' = requests \ {q}
        /\ UNCHANGED <<clientVars, turn, gaveUps>>
        /\ \E status : /\ Send(q, status)
                       /\ Quietly(q, status) \/ Knowingly(q, status)
  <2>1. CASE Serve
    BY <2>1 DEF Serve, serveRest
  <2>2. CASE Refuse
    BY <2>2 DEF Refuse, serveRest, serverVars
  <2>. QED
    BY <2>1, <2>2
<1>2. PICK status : Send(q, status) /\ (Quietly(q, status) \/ Knowingly(q, status))
  BY <1>1
<1> HIDE DEF Quietly, Knowingly
<1>3. CASE q \notin UdpRequests(c)
  <2>1. \A u \in Users : author'[u] = c =>
          /\ author[u] = c /\ account'[u] = account[u]
          /\ u \in present' <=> u \in present
    <3>1. q.client # c \/ q.out.op \notin {"LIN", "LOU", "UNR"}
      BY <1>3 DEF UdpRequests, UdpCodes
    <3>. QED
      BY <1>2, <3>1 DEF Quietly, Knowingly, UpdateAccounts, serverVars, TypeInv,
                        TypeOK
  <2>2. UdpAnswers(c)' \subseteq UdpAnswers(c)
    BY <1>2, <1>3 DEF Send, UdpAnswers, UdpRequests
  <2>3. Elsewhere(c)
    BY <1>1, <2>1, <2>2 DEF Elsewhere, UdpRequests, clientVars
  <2>. QED
    BY <2>3, ElsewhereKeeps
<1>4. CASE q \in UdpRequests(c)
  <2>1. SUFFICES ASSUME gaveUps[c] = 0 PROVE Exchange(c)' /\ Session(c)'
    BY <1>1 DEF Exchange, Session
  <2>2. /\ q = Request(c, turn[c], typed[c], q.left) /\ pc[c] = "await"
        /\ UdpAnswers(c) = {} /\ socket[c] = <<>>
    BY <1>4, <2>1 DEF Exchange
  <2>3. UdpRequests(c)' = {}
    <3>1. \A r \in UdpRequests(c) : r.client = q.client /\ r.turn = q.turn
      BY <2>1, <2>2, RequestIs DEF Exchange, UdpRequests
    <3>2. \A r \in UdpRequests(c) : r = q
      BY <1>4, <3>1 DEF TurnsInv, UdpRequests
    <3>. QED
      BY <1>1, <3>2 DEF UdpRequests
  <2> PICK a : a = [client |-> c, turn |-> turn[c], left |-> q.left,
                    op |-> q.out.op, status |-> status]
    OBVIOUS
  <2>4. UdpAnswers(c)' \subseteq {a}
    BY <1>2, <2>2, RequestIs DEF Send, UdpAnswers
  <2>5. Agrees(c, UserAfter(c, a), PasswordAfter(c, a))'
    <3>1. Agrees(c, user[c], password[c])
      BY <1>4, <2>1 DEF Session
    <3>2. CASE Knowingly(q, status)
      BY <1>1, <1>4, <2>2, <3>1, <3>2, ServeAgrees DEF Knowingly
    <3>3. CASE Quietly(q, status)
      <4>1. UserAfter(c, a)' = user[c] /\ PasswordAfter(c, a)' = password[c]
        BY <1>1, <3>3 DEF Quietly, UserAfter, PasswordAfter, LogsIn, LogsOut,
                          clientVars
      <4>. QED
        BY <3>1, <3>3, <4>1 DEF Quietly, Agrees
    <3>. QED
      BY <1>2, <3>2, <3>3
  <2>6. a.turn = turn'[c] /\ pc'[c] = "await" /\ socket'[c] = <<>>
    BY <1>1, <2>2 DEF clientVars
  <2>. QED
    BY <2>3, <2>4, <2>5, <2>6 DEF Exchange, Session
<1>. QED
  BY <1>3, <1>4

LEMMA SessionStep == SessionInv /\ [Next]_vars => SessionInv'
<1> SUFFICES ASSUME SessionInv, [Next]_vars PROVE SessionInv'
  OBVIOUS
<1>1. TypeInv /\ TypeInv' /\ TurnsInv' /\ UdpTyped'
  BY TypeStep, TurnsStep, UdpTypedStep DEF SessionInv
<1>2. AnswersCorrespond'
  <2>1. ASSUME NEW c \in Clients,
               answered'[c] \in {0, turn'[c]} \/ /\ answered'[c] = answered[c]
                                                 /\ turn'[c] = turn[c]
                                                 /\ typed'[c] = typed[c]
                                                 /\ gaveUps[c] <= gaveUps'[c]
        PROVE  answered'[c] # 0 /\ (gaveUps'[c] = 0 \/ typed'[c].op \in TcpCodes)
                  => answered'[c] = turn'[c]
    <3>1. gaveUps[c] \in Nat /\ gaveUps'[c] \in Nat
      BY <1>1 DEF TypeInv, TypeOK
    <3>. QED
      BY <2>1, <3>1 DEF SessionInv, AnswersCorrespond
  <2>2. ASSUME NEW c \in Clients, NEW d \in Clients, ClientStep(d) \/ Type(d)
        PROVE  answered'[c] # 0 /\ (gaveUps'[c] = 0 \/ typed'[c].op \in TcpCodes)
                  => answered'[c] = turn'[c]
    <3>1. CASE Type(d)
      <4>1. \/ answered'[c] = 0
            \/ /\ answered'[c] = answered[c] /\ turn'[c] = turn[c]
               /\ typed'[c] = typed[c] /\ gaveUps'[c] = gaveUps[c]
        BY <1>1, <3>1, ZenonT(60)
           DEF Type, Exit, SendUdp, OpenTcpSocket, Begin, TypeInv, TypeOK
      <4>2. gaveUps[c] <= gaveUps[c]
        BY <1>1 DEF TypeInv, TypeOK
      <4>. QED
        BY <2>1, <4>1, <4>2
    <3>2. CASE Receive(d)
      <4>1. /\ d # c => answered'[c] = answered[c]
            /\ answered'[d] = Head(socket[d]).turn /\ socket[d] # <<>>
            /\ turn' = turn /\ typed' = typed /\ gaveUps' = gaveUps
            /\ pc[d] = "await"
        BY <1>1, <3>2 DEF Receive, TypeInv, TypeOK
      <4>2. typed[d].op \notin TcpCodes
        BY <4>1 DEF SessionInv, UdpTyped, Code, UdpCodes, TcpCodes
      <4>3. gaveUps[d] = 0 => Head(socket[d]).turn = turn[d]
        BY <1>1, <4>1 DEF SessionInv, Exchange, TypeInv, TypeOK
      <4>. QED
        BY <4>1, <4>2, <4>3 DEF SessionInv, AnswersCorrespond
    <3>3. CASE ReadAnswer(d)
      <4>1. /\ d # c => answered'[c] = answered[c]
            /\ answered'[d] = turn[d]
            /\ turn' = turn /\ typed' = typed /\ gaveUps' = gaveUps
        BY <1>1, <3>3 DEF ReadAnswer, tcpRest, TypeInv, TypeOK
      <4>. QED
        BY <4>1 DEF SessionInv, AnswersCorrespond
    <3>4. CASE ClientStep(d) /\ ~Receive(d) /\ ~ReadAnswer(d)
      <4>1. answered' = answered /\ turn' = turn /\ typed' = typed
        BY <3>4 DEF ClientStep, Timeout, ReceiveUnexpected, Connect,
           ConnectFails, Write, WriteFails, WriteKilled, ReadFails, tcpRest
      <4>2. \/ gaveUps' = gaveUps
            \/ gaveUps' = [gaveUps EXCEPT ![d] = @ + 1]
        <5>1. CASE Timeout(d) \/ ReceiveUnexpected(d)
          BY <5>1 DEF Timeout, Retries, TimeoutException, GiveUp,
                      ReceiveUnexpected
        <5>2. CASE ~Timeout(d) /\ ~ReceiveUnexpected(d)
          BY <3>4, <5>2 DEF ClientStep, Connect, ConnectFails, Write,
             WriteFails, WriteKilled, ReadFails, tcpRest
        <5>. QED
          BY <5>1, <5>2
      <4>3. gaveUps \in [Clients -> Nat]
        BY <1>1 DEF TypeInv, TypeOK
      <4>4. gaveUps[c] <= gaveUps'[c]
        BY <4>2, <4>3
      <4>. QED
        BY <2>1, <4>1, <4>4
    <3>. QED
      BY <2>2, <3>1, <3>2, <3>3, <3>4, Zenon
  <2>3. CASE Deliver \/ Serve \/ Refuse \/ UNCHANGED vars
    <3>1. UNCHANGED <<answered, turn, typed, gaveUps>>
      BY <2>3 DEF Deliver, Serve, Refuse, serveRest, history, vars, clientVars
    <3>. QED
      BY <3>1 DEF SessionInv, AnswersCorrespond
  <2>. QED
    BY <2>2, <2>3 DEF Next, AnswersCorrespond
<1>3. ASSUME NEW c \in Clients
      PROVE  Exchange(c)' /\ Session(c)'
  <2>1. ASSUME NEW d \in Clients, Type(d) \/ ClientStep(d)
        PROVE  Exchange(c)' /\ Session(c)'
    <3>1. CASE Elsewhere(c)
      BY <1>1, <3>1, ElsewhereKeeps DEF SessionInv
    <3>2. CASE ~Elsewhere(c)
      BY <1>1, <2>1, <3>2, ClientElsewhere, TypeSession, UdpSession
      DEF SessionInv, ClientStep
    <3>. QED
      BY <3>1, <3>2
  <2>2. CASE Deliver
    BY <1>1, <2>2, DeliverSession DEF SessionInv
  <2>3. CASE Serve \/ Refuse
    BY <1>1, <2>3, ServeSession DEF SessionInv
  <2>4. CASE UNCHANGED vars
    <3>1. Elsewhere(c)
      BY <2>4 DEF Elsewhere, vars, clientVars, serverVars, history,
                  UdpRequests, UdpAnswers
    <3>. QED
      BY <1>1, <3>1, ElsewhereKeeps DEF SessionInv
  <2>. QED
    BY <2>1, <2>2, <2>3, <2>4 DEF Next
<1>. QED
  BY <1>1, <1>2, <1>3 DEF SessionInv

LEMMA SessionInit == Init => SessionInv
<1> SUFFICES ASSUME Init PROVE SessionInv
  OBVIOUS
<1>1. TypeInv
  BY TypeInit
<1>2. TurnsInv /\ UdpTyped /\ AnswersCorrespond
  BY DEF Init, TurnsInv, UdpTyped, AnswersCorrespond
<1>3. ASSUME NEW c \in Clients
      PROVE  Exchange(c) /\ Session(c)
  <2>1. UdpRequests(c) = {} /\ UdpAnswers(c) = {} /\ socket[c] = <<>>
    BY DEF Init, UdpRequests, UdpAnswers
  <2>2. Agrees(c, user[c], password[c])
    BY SessionAssumption DEF Init, Agrees, SessionAssumption
  <2>. QED
    BY <2>1, <2>2 DEF Exchange, Session
<1>. QED
  BY <1>1, <1>2, <1>3 DEF SessionInv

LEMMA SessionCorrect == Spec => []SessionInv
BY SessionInit, SessionStep, PTL DEF Spec

\* AtMostOnce of every system of clients: what the server has executed does not
\* reach it a second time, since sendUdpMessageAndAwaitReply sends once.
THEOREM SentOnce == Spec => []AtMostOnce
<1>1. SessionInv => AtMostOnce
  BY DEF SessionInv, TurnsInv, AtMostOnce
<1>. QED
  BY <1>1, SessionCorrect, PTL

\* AnswersCorrespond of every system of clients: a client none of whose UDP
\* commands has ended without an answer acts on the answer to its own command,
\* however long the network keeps a datagram.
THEOREM AnswersMatch == Spec => []AnswersCorrespond
<1>1. SessionInv => AnswersCorrespond
  BY DEF SessionInv
<1>. QED
  BY <1>1, SessionCorrect, PTL

\* SessionTrue of every system of clients: between two commands of a client
\* that has had an answer to each, the user it has last changed at the server is
\* logged in there if and only if Client::isLoggedIn says so.
THEOREM SessionsAgree == Spec => []SessionTrue
<1>1. SessionInv => SessionTrue
  BY DEF SessionInv, Session, Agrees, SessionTrue
<1>. QED
  BY <1>1, SessionCorrect, PTL

-----------------------------------------------------------------------------
(* Answers that may stray                                                  *)

Strays(c) == {m \in Datagrams(c) : ~(pc[c] = "await" /\ m.turn = turn[c])}

\* Each command of a client has at most one UDP message, in one place.
OneEach(c) ==
    /\ \A m \in Datagrams(c) : m.turn <= turn[c]
    /\ \A q, r \in UdpRequests(c) : q.turn = r.turn => q = r
    /\ \A a, b \in UdpAnswers(c) : a.turn = b.turn => a = b
    /\ \A i, j \in 1 .. Len(socket[c]) :
          socket[c][i].turn = socket[c][j].turn => i = j
    /\ \A q \in UdpRequests(c), a \in UdpAnswers(c) : q.turn # a.turn
    /\ \A i \in 1 .. Len(socket[c]) :
          /\ \A q \in UdpRequests(c) : q.turn # socket[c][i].turn
          /\ \A a \in UdpAnswers(c) : a.turn # socket[c][i].turn

StraysFew(c) == /\ OneEach(c)
                /\ IsFiniteSet(Strays(c)) /\ Cardinality(Strays(c)) <= gaveUps[c]

\* Exchanging one element for another leaves a set no larger.
LEMMA CountKept ==
    ASSUME NEW S, IsFiniteSet(S), NEW k \in Nat, Cardinality(S) <= k, NEW T,
           T \subseteq S \/ \E x \in S : \E y : T \subseteq (S \ {x}) \cup {y}
    PROVE  IsFiniteSet(T) /\ Cardinality(T) <= k
<1>0. Cardinality(S) \in Nat
  BY FS_CardinalityType
<1>1. CASE T \subseteq S
  BY <1>0, <1>1, FS_Subset, FS_CardinalityType
<1>2. ASSUME NEW x \in S, NEW y, T \subseteq (S \ {x}) \cup {y}
      PROVE  IsFiniteSet(T) /\ Cardinality(T) <= k
  <2> DEFINE R == S \ {x}
             U == R \cup {y}
  <2>1. IsFiniteSet(R) /\ Cardinality(R) = Cardinality(S) - 1
    BY FS_RemoveElement
  <2>2. /\ IsFiniteSet(U)
        /\ Cardinality(U) = Cardinality(R) \/ Cardinality(U) = Cardinality(R) + 1
    <3> HIDE DEF R
    <3>. QED  BY <2>1, FS_AddElement
  <2>3. IsFiniteSet(T) /\ Cardinality(T) <= Cardinality(U)
    <3>1. T \in SUBSET U
      BY <1>2
    <3> HIDE DEF U
    <3>. QED  BY <2>2, <3>1, FS_Subset
  <2> HIDE DEF R, U
  <2>. QED
    BY <1>0, <2>1, <2>2, <2>3, FS_CardinalityType
<1>. QED
  BY <1>1, <1>2

\* One element more makes a set larger by at most one.
LEMMA CountOneMore ==
    ASSUME NEW S, IsFiniteSet(S), NEW k \in Nat, Cardinality(S) <= k, NEW T,
           NEW y, T \subseteq S \cup {y}
    PROVE  IsFiniteSet(T) /\ Cardinality(T) <= k + 1
<1> DEFINE U == S \cup {y}
<1>1. Cardinality(S) \in Nat /\ IsFiniteSet(U)
      /\ Cardinality(U) \in {Cardinality(S), Cardinality(S) + 1}
  BY FS_CardinalityType, FS_AddElement
<1>2. T \in SUBSET U
  OBVIOUS
<1> HIDE DEF U
<1>3. IsFiniteSet(T) /\ Cardinality(T) <= Cardinality(U)
  BY <1>1, <1>2, FS_Subset
<1>. QED
  BY <1>1, <1>3, FS_CardinalityType

\* The messages of a client that are on their way, by where they are.
LEMMA DatagramParts ==
    ASSUME NEW c
    PROVE  /\ Datagrams(c) = UdpRequests(c) \cup UdpAnswers(c) \cup ToSet(socket[c])
           /\ (Datagrams(c) = UdpRequests(c) \cup UdpAnswers(c) \cup ToSet(socket[c]))'
BY DEF Datagrams, UdpRequests, UdpAnswers

\* Every one of them has the number of a command.
LEMMA DatagramTurns ==
    ASSUME TypeInv, NEW c \in Clients
    PROVE  /\ \A m \in Datagrams(c) : m.turn \in Nat
           /\ \A q \in UdpRequests(c) : q.turn \in Nat
           /\ \A a \in UdpAnswers(c) : a.turn \in Nat
           /\ \A i \in 1 .. Len(socket[c]) :
                 socket[c][i].turn \in Nat /\ socket[c][i] \in Datagrams(c)
           /\ turn[c] \in Nat /\ gaveUps[c] \in Nat
           /\ socket[c] \in Seq(Answers)
           /\ ToSet(socket[c]) = {socket[c][i] : i \in 1 .. Len(socket[c])}
<1>1. socket[c] \in Seq(Answers)
  BY DEF TypeInv, TypeOK
<1>2. ToSet(socket[c]) = {socket[c][i] : i \in 1 .. Len(socket[c])}
  BY <1>1 DEF ToSet
<1>3. \A i \in 1 .. Len(socket[c]) : socket[c][i] \in Answers
  BY <1>1
<1>4. \A a \in Answers : a.turn \in Nat
  BY DEF Answers
<1>5. \A q \in Requests : q.turn \in Nat
  BY DEF Requests
<1>6. /\ requests \subseteq Requests /\ answers \subseteq Answers
      /\ turn[c] \in Nat /\ gaveUps[c] \in Nat
  BY DEF TypeInv, TypeOK
<1>7. \A q \in UdpRequests(c) : q.turn \in Nat
  BY <1>5, <1>6 DEF UdpRequests
<1>8. \A a \in UdpAnswers(c) : a.turn \in Nat
  BY <1>4, <1>6 DEF UdpAnswers
<1>9. \A i \in 1 .. Len(socket[c]) :
         socket[c][i].turn \in Nat /\ socket[c][i] \in Datagrams(c)
  BY <1>2, <1>3, <1>4, DatagramParts
<1>10. \A m \in Datagrams(c) : m.turn \in Nat
  BY <1>2, <1>7, <1>8, <1>9, DatagramParts
<1>. QED
  BY <1>1, <1>2, <1>6, <1>7, <1>8, <1>9, <1>10

\* A step that does not touch a client's messages adds no strays.
LEMMA ElsewhereStrays ==
    ASSUME TypeInv, TypeInv', NEW c \in Clients, StraysFew(c),
           UdpRequests(c)' \subseteq UdpRequests(c),
           UdpAnswers(c)' \subseteq UdpAnswers(c),
           pc'[c] = "await" <=> pc[c] = "await",
           socket'[c] = socket[c], turn'[c] = turn[c], gaveUps'[c] = gaveUps[c]
    PROVE  StraysFew(c)'
<1>1. Datagrams(c)' \subseteq Datagrams(c)
  BY DatagramParts DEF ToSet
<1>2. OneEach(c)'
  BY <1>1 DEF StraysFew, OneEach
<1>3. Strays(c)' \subseteq Strays(c)
  BY <1>1 DEF Strays
<1>4. IsFiniteSet(Strays(c)') /\ Cardinality(Strays(c)') <= gaveUps[c]
  BY <1>3, DatagramTurns, CountKept DEF StraysFew
<1>. QED
  BY <1>2, <1>4 DEF StraysFew

\* A command that is typed adds one message, which it waits for.
LEMMA TypeStrays ==
    ASSUME TypeInv, TypeInv', NEW c \in Clients, StraysFew(c), Type(c)
    PROVE  StraysFew(c)'
<1>1. /\ pc[c] = "prompt" /\ UNCHANGED <<socket, answers, gaveUps>>
      /\ turn'[c] = turn[c] + 1 /\ turn[c] \in Nat /\ turn'[c] \in Nat
  BY DEF Type, Exit, SendUdp, OpenTcpSocket, Begin, TypeInv, TypeOK
<1>2. UdpAnswers(c)' = UdpAnswers(c) /\ socket'[c] = socket[c]
  BY <1>1 DEF UdpAnswers
<1>3. CASE UdpRequests(c)' = UdpRequests(c) /\ pc'[c] # "await"
  <2>1. Datagrams(c)' = Datagrams(c)
    BY <1>2, <1>3, DatagramParts DEF ToSet
  <2>2. OneEach(c)'
    BY <1>1, <1>2, <1>3, <2>1, DatagramTurns DEF StraysFew, OneEach
  <2>3. Strays(c)' \subseteq Strays(c)
    BY <1>1, <2>1 DEF Strays
  <2>. QED
    BY <1>1, <2>2, <2>3, DatagramTurns, CountKept DEF StraysFew
<1>4. ASSUME NEW q, UdpRequests(c)' = UdpRequests(c) \cup {q},
             q.turn = turn[c] + 1, pc'[c] = "await"
      PROVE  StraysFew(c)'
  <2>1. Datagrams(c)' = Datagrams(c) \cup {q}
    BY <1>2, <1>4, DatagramParts DEF ToSet
  <2>2. \A m \in Datagrams(c) : m.turn \in Nat /\ m.turn < turn[c] + 1
    BY <1>1, DatagramTurns DEF StraysFew, OneEach
  <2>3. \A m \in Datagrams(c) : m.turn # q.turn
    BY <1>1, <1>4, <2>2
  <2>4. OneEach(c)'
    <3>1. \A m \in Datagrams(c)' : m.turn <= turn'[c]
      BY <1>1, <1>4, <2>1, <2>2
    <3>2. /\ \A r \in UdpRequests(c) : r.turn # q.turn
          /\ \A a \in UdpAnswers(c) : a.turn # q.turn
          /\ \A i \in 1 .. Len(socket[c]) : socket[c][i].turn # q.turn
      BY <2>3, DatagramParts, DatagramTurns
    <3>. QED
      BY <1>2, <1>4, <3>1, <3>2 DEF StraysFew, OneEach
  <2>5. Strays(c)' \subseteq Strays(c)
    BY <1>1, <1>4, <2>1, <2>2 DEF Strays
  <2>. QED
    BY <1>1, <2>4, <2>5, DatagramTurns, CountKept DEF StraysFew
<1>5. CASE Exit(c) \/ OpenTcpSocket(c)
  BY <1>3, <1>5 DEF Exit, OpenTcpSocket, Goto, UdpRequests, TypeInv, TypeOK
<1>6. CASE SendUdp(c)
  <2> PICK t \in Menu[c] :
        /\ Code(t.op) \in UdpCodes /\ Goto(c, "await")
        /\ requests' = requests \cup {Request(c, turn[c] + 1, t, TriesMax - 1)}
    BY <1>6 DEF SendUdp
  <2> DEFINE q == Request(c, turn[c] + 1, t, TriesMax - 1)
  <2>1. q.client = c /\ q.turn = turn[c] + 1 /\ q.out.op \in UdpCodes
    BY RequestIs
  <2> HIDE DEF q
  <2>2. UdpRequests(c)' = UdpRequests(c) \cup {q}
    BY <2>1 DEF UdpRequests, q
  <2>3. pc'[c] = "await"
    BY DEF Goto, TypeInv, TypeOK
  <2>. QED
    BY <1>4, <2>1, <2>2, <2>3
<1>. QED
  BY <1>5, <1>6 DEF Type

\* A client that gives up leaves a message behind, one that reads an answer of
\* another command leaves its own for that one.
LEMMA UdpStrays ==
    ASSUME TypeInv, TypeInv', NEW c \in Clients, StraysFew(c),
           Timeout(c) \/ ReceiveUnexpected(c) \/ Receive(c)
    PROVE  StraysFew(c)'
<1>1. /\ pc[c] = "await" /\ pc'[c] # "await"
      /\ UNCHANGED <<requests, answers, turn>>
  BY DEF Timeout, Retries, TimeoutException, GiveUp, Goto, ReceiveUnexpected,
         Receive, AfterAnswer, TypeInv, TypeOK
<1>2. UdpRequests(c)' = UdpRequests(c) /\ UdpAnswers(c)' = UdpAnswers(c)
  BY <1>1 DEF UdpRequests, UdpAnswers
<1>3. \A m, n \in Datagrams(c) : m.turn = n.turn => m = n
  <2>1. \A m \in ToSet(socket[c]) :
           \E i \in 1 .. Len(socket[c]) : m = socket[c][i]
    BY DatagramTurns
  <2>2. ASSUME NEW m \in ToSet(socket[c]), NEW n \in Datagrams(c),
               m.turn = n.turn
        PROVE  m = n
    <3>1. PICK i \in 1 .. Len(socket[c]) : m = socket[c][i]
      BY <2>1
    <3>2. CASE n \in ToSet(socket[c])
      BY <2>1, <2>2, <3>1, <3>2 DEF StraysFew, OneEach
    <3>3. n \notin UdpRequests(c) /\ n \notin UdpAnswers(c)
      BY <2>2, <3>1 DEF StraysFew, OneEach
    <3>. QED
      BY <3>2, <3>3, DatagramParts
  <2>3. ASSUME NEW m \in UdpRequests(c) \cup UdpAnswers(c),
               NEW n \in UdpRequests(c) \cup UdpAnswers(c), m.turn = n.turn
        PROVE  m = n
    BY <2>3 DEF StraysFew, OneEach
  <2>. QED
    BY <2>2, <2>3, DatagramParts
<1>4. PICK y : \A m \in Datagrams(c) : m.turn = turn[c] => m = y
  BY <1>3
<1>5. Datagrams(c) \subseteq Strays(c) \cup {y}
  BY <1>4 DEF Strays
<1>6. ASSUME socket'[c] = socket[c], gaveUps'[c] = gaveUps[c] + 1
      PROVE  StraysFew(c)'
  <2>1. Datagrams(c)' = Datagrams(c)
    BY <1>2, <1>6, DatagramParts DEF ToSet
  <2>2. OneEach(c)'
    BY <1>1, <1>2, <1>6, <2>1 DEF StraysFew, OneEach
  <2>3. Strays(c)' \subseteq Strays(c) \cup {y}
    BY <1>5, <2>1 DEF Strays
  <2>4. /\ IsFiniteSet(Strays(c)) /\ Cardinality(Strays(c)) <= gaveUps[c]
        /\ gaveUps[c] \in Nat
    BY DatagramTurns DEF StraysFew
  <2>5. /\ IsFiniteSet(Strays(c)')
        /\ Cardinality(Strays(c)') <= gaveUps[c] + 1
    BY <2>3, <2>4, CountOneMore, Zenon
  <2>. QED
    BY <1>6, <2>2, <2>5 DEF StraysFew
<1>7. ASSUME socket[c] # <<>>, socket'[c] = Tail(socket[c])
      PROVE  /\ OneEach(c)'
             /\ Datagrams(c)' \subseteq Datagrams(c)
             /\ Head(socket[c]) \in Datagrams(c)
             /\ Head(socket[c]) \notin Datagrams(c)'
  <2>1. socket[c] \in Seq(Answers) /\ socket'[c] \in Seq(Answers)
    BY DEF TypeInv, TypeOK
  <2>2. /\ Len(socket'[c]) = Len(socket[c]) - 1 /\ Len(socket[c]) \in Nat
        /\ Len(socket[c]) > 0 /\ Head(socket[c]) = socket[c][1]
        /\ \A i \in 1 .. Len(socket'[c]) : socket'[c][i] = socket[c][i + 1]
    BY <1>7, <2>1
  <2>3. \A i \in 1 .. Len(socket'[c]) :
           i + 1 \in 1 .. Len(socket[c]) /\ i \in Int
    BY <2>2
  <2>4. ToSet(socket[c])' = {socket'[c][i] : i \in 1 .. Len(socket'[c])}
    BY <2>1 DEF ToSet
  <2>5. Datagrams(c)' \subseteq Datagrams(c)
    <3>1. ToSet(socket[c])' \subseteq ToSet(socket[c])
      <4>1. ASSUME NEW i \in 1 .. Len(socket'[c])
            PROVE  socket'[c][i] \in ToSet(socket[c])
        BY <2>2, <2>3, DatagramTurns
      <4>. QED
        BY <2>4, <4>1
    <3>. QED
      BY <1>2, <3>1, DatagramParts
  <2>6. OneEach(c)'
    <3>1. \A m \in Datagrams(c)' : m.turn <= turn'[c]
      BY <1>1, <2>5 DEF StraysFew, OneEach
    <3>2. \A i, j \in 1 .. Len(socket'[c]) :
             socket'[c][i].turn = socket'[c][j].turn => i = j
      BY <2>2, <2>3, SMTT(60) DEF StraysFew, OneEach
    <3>3. \A i \in 1 .. Len(socket'[c]) :
            /\ \A q \in UdpRequests(c)' : q.turn # socket'[c][i].turn
            /\ \A a \in UdpAnswers(c)' : a.turn # socket'[c][i].turn
      BY <1>2, <2>2, <2>3 DEF StraysFew, OneEach
    <3>. QED
      BY <1>2, <3>1, <3>2, <3>3 DEF StraysFew, OneEach
  <2>7. 1 \in 1 .. Len(socket[c])
    BY <2>2
  <2>8. Head(socket[c]) \in Datagrams(c)
    BY <2>2, <2>7, DatagramTurns
  <2>9. Head(socket[c]) \notin Datagrams(c)'
    <3>1. /\ \A q \in UdpRequests(c) : q.turn # socket[c][1].turn
          /\ \A a \in UdpAnswers(c) : a.turn # socket[c][1].turn
      BY <2>7 DEF StraysFew, OneEach
    <3>2. \A i \in 1 .. Len(socket'[c]) : socket'[c][i] # socket[c][1]
      <4>1. \A i \in 1 .. Len(socket'[c]) : i + 1 # 1
        BY <2>2
      <4>. QED
        BY <2>2, <2>3, <2>7, <4>1 DEF StraysFew, OneEach
    <3>. QED
      BY <1>2, <2>2, <2>4, <3>1, <3>2, DatagramParts
  <2>. QED
    BY <2>5, <2>6, <2>8, <2>9
<1>8. CASE Timeout(c)
  BY <1>6, <1>8 DEF Timeout, Retries, TimeoutException, GiveUp, TypeInv, TypeOK
<1>9. CASE ReceiveUnexpected(c)
  <2>1. /\ socket[c] # <<>> /\ socket'[c] = Tail(socket[c])
        /\ gaveUps'[c] = gaveUps[c] + 1
    BY <1>9 DEF ReceiveUnexpected, GiveUp, TypeInv, TypeOK
  <2>2. Strays(c)' \subseteq Strays(c) \cup {y}
    BY <1>5, <1>7, <2>1 DEF Strays
  <2>3. gaveUps[c] \in Nat
    BY DEF TypeInv, TypeOK
  <2>4. IsFiniteSet(Strays(c)') /\ Cardinality(Strays(c)') <= gaveUps[c] + 1
    BY <2>2, <2>3, CountOneMore DEF StraysFew
  <2>. QED
    BY <1>7, <2>1, <2>4 DEF StraysFew
<1>10. CASE Receive(c)
  <2>1. /\ socket[c] # <<>> /\ socket'[c] = Tail(socket[c])
        /\ gaveUps'[c] = gaveUps[c]
    BY <1>10 DEF Receive, TypeInv, TypeOK
  <2> DEFINE h == Head(socket[c])
  <2>2. CASE h.turn = turn[c]
    <3>1. Strays(c)' \subseteq Strays(c)
      BY <1>3, <1>7, <2>1, <2>2 DEF Strays
    <3>. QED
      BY <1>7, <2>1, <3>1, DatagramTurns, CountKept DEF StraysFew
  <2>3. CASE h.turn # turn[c]
    <3>1. h \in Strays(c)
      BY <1>7, <2>1, <2>3 DEF Strays
    <3>2. Strays(c)' \subseteq (Strays(c) \ {h}) \cup {y}
      BY <1>5, <1>7, <2>1 DEF Strays
    <3>. QED
      BY <1>7, <2>1, <3>1, <3>2, DatagramTurns, CountKept DEF StraysFew
  <2>. QED
    BY <2>2, <2>3
<1>. QED
  BY <1>8, <1>9, <1>10

\* The network moves a message and does not make a second one.
LEMMA DeliverStrays ==
    ASSUME TypeInv, TypeInv', NEW c \in Clients, StraysFew(c), Deliver
    PROVE  StraysFew(c)'
<1> PICK a \in answers :
      /\ a.op \in UdpCodes
      /\ answers' = answers \ {a}
      /\ socket' = [socket EXCEPT ![a.client] = Append(@, a)]
      /\ UNCHANGED <<pc, requests, turn, gaveUps>>
  BY DEF Deliver, history
<1>1. a.client \in Clients /\ socket \in [Clients -> Seq(Answers)] /\ a \in Answers
  BY DEF TypeInv, TypeOK, Answers
<1>2. /\ UdpRequests(c)' = UdpRequests(c)
      /\ UdpAnswers(c)' = UdpAnswers(c) \ {a}
  BY DEF UdpRequests, UdpAnswers
<1>3. CASE a.client # c
  <2>1. socket'[c] = socket[c]
    BY <1>1, <1>3
  <2>. QED
    BY <1>2, <2>1, ElsewhereStrays
<1>4. CASE a.client = c
  <2>1. socket'[c] = Append(socket[c], a) /\ a \in UdpAnswers(c)
    BY <1>1, <1>4 DEF UdpAnswers
  <2>2. /\ Len(socket'[c]) = Len(socket[c]) + 1 /\ Len(socket[c]) \in Nat
        /\ \A i \in 1 .. Len(socket[c]) : socket'[c][i] = socket[c][i]
        /\ socket'[c][Len(socket[c]) + 1] = a
    BY <1>1, <2>1
  <2>3. \A i \in 1 .. Len(socket'[c]) : \/ i \in 1 .. Len(socket[c])
                                        \/ i = Len(socket[c]) + 1
    BY <2>2
  <2>4. ToSet(socket[c])' = ToSet(socket[c]) \cup {a}
    <3>1. ToSet(socket[c])' = {socket'[c][i] : i \in 1 .. Len(socket'[c])}
      BY DatagramTurns, <1>1, <2>1 DEF ToSet
    <3>2. \A i \in 1 .. Len(socket[c]) : i \in 1 .. Len(socket'[c])
      BY <2>2
    <3>3. Len(socket[c]) + 1 \in 1 .. Len(socket'[c])
      BY <2>2
    <3>4. ToSet(socket[c]) = {socket[c][i] : i \in 1 .. Len(socket[c])}
      BY DatagramTurns
    <3>5. ToSet(socket[c])' \subseteq ToSet(socket[c]) \cup {a}
      BY <2>2, <2>3, <3>1, <3>4
    <3>6. ToSet(socket[c]) \subseteq ToSet(socket[c])'
      BY <2>2, <3>1, <3>2, <3>4
    <3>7. a \in ToSet(socket[c])'
      BY <2>2, <3>1, <3>3
    <3>. QED
      BY <3>5, <3>6, <3>7
  <2>5. Datagrams(c)' = Datagrams(c)
    <3>1. /\ Datagrams(c)' = UdpRequests(c)' \cup UdpAnswers(c)' \cup ToSet(socket[c])'
          /\ Datagrams(c) = UdpRequests(c) \cup UdpAnswers(c) \cup ToSet(socket[c])
      BY DatagramParts
    <3>. QED
      BY <1>2, <2>1, <2>4, <3>1
  <2>6. OneEach(c)'
    <3>1. \A i, j \in 1 .. Len(socket'[c]) :
             socket'[c][i].turn = socket'[c][j].turn => i = j
      BY <2>1, <2>2, <2>3 DEF StraysFew, OneEach
    <3>2. \A i \in 1 .. Len(socket'[c]) :
            /\ \A q \in UdpRequests(c)' : q.turn # socket'[c][i].turn
            /\ \A b \in UdpAnswers(c)' : b.turn # socket'[c][i].turn
      BY <1>2, <2>1, <2>2, <2>3 DEF StraysFew, OneEach
    <3>. QED
      BY <1>2, <2>5, <3>1, <3>2 DEF StraysFew, OneEach
  <2>7. Strays(c)' = Strays(c)
    BY <2>5 DEF Strays
  <2>. QED
    BY <2>6, <2>7 DEF StraysFew
<1>. QED
  BY <1>3, <1>4

\* The server turns a request into at most one answer.
LEMMA ServeStrays ==
    ASSUME TypeInv, TypeInv', TurnsInv, NEW c \in Clients, StraysFew(c),
           Serve \/ Refuse
    PROVE  StraysFew(c)'
<1>0. PICK q \in requests : /\ requests' = requests \ {q}
                            /\ UNCHANGED <<pc, socket, turn, gaveUps>>
                            /\ \E status : Send(q, status)
  BY DEF Serve, Refuse, serveRest, clientVars
<1>1. PICK status : /\ requests' = requests \ {q}
                    /\ UNCHANGED <<pc, socket, turn, gaveUps>>
                    /\ Send(q, status)
  BY <1>0
<1>2. UdpRequests(c)' = UdpRequests(c) \ {q} /\ socket'[c] = socket[c]
  BY <1>1 DEF UdpRequests
<1>3. CASE q \notin UdpRequests(c)
  <2>1. UdpAnswers(c)' \subseteq UdpAnswers(c)
    BY <1>1, <1>3 DEF Send, UdpAnswers, UdpRequests
  <2>. QED
    BY <1>1, <1>2, <2>1, ElsewhereStrays
<1>4. CASE UdpAnswers(c)' \subseteq UdpAnswers(c)
  BY <1>1, <1>2, <1>4, ElsewhereStrays
<1>5. ASSUME NEW a, q \in UdpRequests(c), a.turn = q.turn,
             UdpAnswers(c)' = UdpAnswers(c) \cup {a}
      PROVE  StraysFew(c)'
  <2>1. Datagrams(c)' \subseteq (Datagrams(c) \ {q}) \cup {a}
    <3>1. q \notin UdpAnswers(c) /\ q \notin ToSet(socket[c])
      BY <1>5, DatagramTurns DEF StraysFew, OneEach
    <3>. QED
      BY <1>2, <1>5, <3>1, DatagramParts DEF ToSet
  <2>2. /\ \A b \in UdpAnswers(c) : b.turn # a.turn
        /\ \A i \in 1 .. Len(socket[c]) : socket[c][i].turn # a.turn
        /\ \A r \in UdpRequests(c) \ {q} : r.turn # a.turn
    BY <1>5 DEF StraysFew, OneEach
  <2>3. a.turn <= turn[c] /\ q \in Datagrams(c)
    BY <1>5, DatagramParts DEF StraysFew, OneEach
  <2>4. OneEach(c)'
    BY <1>1, <1>2, <1>5, <2>1, <2>2, <2>3 DEF StraysFew, OneEach
  <2>5. \/ Strays(c)' \subseteq Strays(c)
        \/ q \in Strays(c) /\ Strays(c)' \subseteq (Strays(c) \ {q}) \cup {a}
    BY <1>1, <1>5, <2>1, <2>3 DEF Strays
  <2>. QED
    BY <1>1, <2>4, <2>5, DatagramTurns, CountKept DEF StraysFew
<1>6. \/ q \notin UdpRequests(c)
      \/ UdpAnswers(c)' \subseteq UdpAnswers(c)
      \/ \E a : a.turn = q.turn /\ UdpAnswers(c)' = UdpAnswers(c) \cup {a}
  BY <1>1 DEF Send, UdpAnswers, UdpRequests
<1>. QED
  BY <1>3, <1>4, <1>5, <1>6

\* In every state, for every client: what StrayAnswers counts.
StraysInv == SessionInv /\ \A c \in Clients : StraysFew(c)

\* No step leaves a stray that no command was given up for.
LEMMA StraysStep == StraysInv /\ [Next]_vars => StraysInv'
<1> SUFFICES ASSUME StraysInv, [Next]_vars PROVE StraysInv'
  OBVIOUS
<1>1. SessionInv' /\ TypeInv /\ TypeInv' /\ TurnsInv
  BY SessionStep DEF StraysInv, SessionInv
<1>2. ASSUME NEW c \in Clients PROVE StraysFew(c)'
  <2>0. StraysFew(c)
    BY DEF StraysInv
  <2>1. CASE Elsewhere(c)
    BY <1>1, <2>0, <2>1, ElsewhereStrays DEF Elsewhere
  <2>2. ASSUME NEW d \in Clients, Type(d) \/ ClientStep(d), ~Elsewhere(c)
        PROVE  StraysFew(c)'
    BY <1>1, <2>0, <2>2, ClientElsewhere, TypeStrays, UdpStrays DEF ClientStep
  <2>3. CASE Deliver
    BY <1>1, <2>0, <2>3, DeliverStrays
  <2>4. CASE Serve \/ Refuse
    BY <1>1, <2>0, <2>4, ServeStrays
  <2>5. CASE UNCHANGED vars
    BY <1>1, <2>0, <2>5, ElsewhereStrays
    DEF vars, clientVars, history, UdpRequests, UdpAnswers
  <2>. QED
    BY <2>1, <2>2, <2>3, <2>4, <2>5 DEF Next
<1>. QED
  BY <1>1, <1>2 DEF StraysInv

\* At first nothing has been sent.
LEMMA StraysInit == Init => StraysInv
<1> SUFFICES ASSUME Init, NEW c \in Clients PROVE StraysFew(c)
  BY SessionInit DEF StraysInv
<1>1. UdpRequests(c) = {} /\ UdpAnswers(c) = {} /\ socket[c] = <<>>
      /\ gaveUps[c] = 0
  BY DEF Init, UdpRequests, UdpAnswers
<1>2. ToSet(socket[c]) = {}
  BY <1>1 DEF ToSet
<1>3. Datagrams(c) = {} /\ Strays(c) = {}
  BY <1>1, <1>2, DatagramParts DEF Strays
<1>. QED
  BY <1>1, <1>3, FS_EmptySet DEF StraysFew, OneEach

\* StrayAnswers of every system of clients: each UDP command that a client gave
\* up, for a timeout or an answer of another command, leaves at most one message
\* whose answer may still come to it.
THEOREM StraysBounded == Spec => []StrayAnswers
<1>1. StraysInv => StrayAnswers
  BY DEF StraysInv, StraysFew, Strays, StrayAnswers
<1>. QED
  BY <1>1, StraysInit, StraysStep, PTL DEF Spec

-----------------------------------------------------------------------------
(* What requests say                                                       *)

\* A user a client may be, what it is about to send, and what it has sent.
WordsInv ==
    /\ \A c \in Clients : user[c] < 10^USER_ID_SIZE
    /\ \A c \in Clients : pc[c] \in {"await", "connect", "write"} =>
                             Verified(typed[c])
    /\ \A q \in requests : /\ Verified(q.typed)
                           /\ q.out = MessageOut(q.typed, q.out.uid, q.out.pw)
                           /\ q.out.uid < 10^USER_ID_SIZE

\* What a menu may hold are commands in words of their own length.
LEMMA CommandWords ==
    ASSUME NEW t \in Menus
    PROVE  /\ t.op \in UdpCodes \cup TcpCodes \cup {"exit"}
           /\ \A w \in {t.aid, t.value, t.time, t.title, t.fname} : WordOfText(w)
           /\ t.size \in Nat
           /\ t.uid.num \in Users /\ t.uid.num \in Nat
           /\ verify_user_id(t.uid) => t.uid.num < 10^6
<1>1. t \in Typed
  BY MenuTyped DEF Menus
<1>2. /\ t.op \in Commands /\ t.size \in Nat
      /\ t.aid \in Word /\ t.value \in Word /\ t.time \in Word
      /\ t.title \in Word /\ t.fname \in Word
      /\ t.uid \in Word /\ t.uid.num \in Users
  BY <1>1 DEF Typed
<1>3. \A w \in Word : WordOfText(w)
  BY DEF Word, WordOfText
<1>4. verify_user_id(t.uid) => t.uid.num < 10^6
  <2>1. t.uid.num \in Int /\ Digits(t.uid.num) <= t.uid.len
    BY <1>2 DEF Word
  <2>2. 6 \in 1 .. 9
    OBVIOUS
  <2>3. Digits(t.uid.num) <= 6 <=> t.uid.num < 10^6
    BY <2>1, <2>2, DigitsOf
  <2>. QED
    BY <2>1, <2>3 DEF verify_user_id, USER_ID_SIZE
<1>. QED
  BY <1>2, <1>3, <1>4, SessionAssumption DEF Commands, SessionAssumption

\* What a client writes says what it has verified.
LEMMA RequestMade ==
    ASSUME NEW c, NEW n, NEW t \in Menus, NEW l, Verified(t),
           user[c] < 10^USER_ID_SIZE
    PROVE  LET q == Request(c, n, t, l) IN
           /\ Verified(q.typed)
           /\ q.out = MessageOut(q.typed, q.out.uid, q.out.pw)
           /\ q.out.uid < 10^USER_ID_SIZE
<1> DEFINE q == Request(c, n, t, l)
<1>1. PICK u, p : /\ q.out = MessageOut(t, u, p)
                  /\ u = IF t.op = "LIN" THEN t.uid.num ELSE user[c]
  BY DEF Request
<1>2. q.out.uid = u /\ q.out.pw = p
  BY <1>1 DEF MessageOut
<1>3. t.op = "LIN" => t.uid.num < 10^6
  BY CommandWords DEF Verified
<1>4. u < 10^USER_ID_SIZE
  BY <1>1, <1>3 DEF USER_ID_SIZE
<1>. QED
  BY <1>1, <1>2, <1>4, RequestIs

\* A message on its way is the one its client made of a verified command.
LEMMA WordsStep == TypeInv /\ WordsInv /\ [Next]_vars => WordsInv'
<1> SUFFICES ASSUME TypeInv, WordsInv, [Next]_vars PROVE WordsInv'
  OBVIOUS
<1>0. /\ typed \in [Clients -> Menus] /\ DOMAIN pc = Clients
      /\ DOMAIN user = Clients
      /\ pc \in [Clients -> {"prompt", "await", "connect", "write", "read",
                           "ended", "killed"}]
  BY DEF TypeInv, TypeOK
\* Nothing is typed or sent.
<1>1. ASSUME requests' \subseteq requests, typed' = typed,
             \A c \in Clients : /\ user'[c] < 10^USER_ID_SIZE
                                /\ pc'[c] \in {"await", "connect", "write"} =>
                                     pc[c] \in {"await", "connect", "write"}
      PROVE  WordsInv'
  BY <1>1 DEF WordsInv
<1>2. ASSUME NEW c \in Clients, NEW t \in Menu[c], NEW l, Begin(c, t), Goto(c, l),
             Verified(t) \/ l = "ended",
             \/ requests' = requests
             \/ Verified(t) /\ \E n, k : requests' = requests \cup {Request(c, n, t, k)}
      PROVE  WordsInv'
  <2>1. user' = user /\ typed' = [typed EXCEPT ![c] = t] /\ t \in Menus
    BY <1>2, MenuTyped DEF Begin
  <2>2. \A d \in Clients : pc'[d] \in {"await", "connect", "write"} =>
           Verified(typed'[d])
    BY <1>0, <1>2, <2>1 DEF WordsInv, Goto
  <2>3. \A q \in requests' : /\ Verified(q.typed)
                             /\ q.out = MessageOut(q.typed, q.out.uid, q.out.pw)
                             /\ q.out.uid < 10^USER_ID_SIZE
    BY <1>2, <2>1, RequestMade DEF WordsInv
  <2>. QED
    BY <2>1, <2>2, <2>3 DEF WordsInv
<1>3. ASSUME NEW c \in Clients, Type(c)
      PROVE  WordsInv'
  <2>1. CASE Exit(c)
    BY <1>2, <2>1 DEF Exit
  <2>2. CASE SendUdp(c)
    BY <1>2, <2>2 DEF SendUdp, Sends
  <2>3. CASE OpenTcpSocket(c)
    BY <1>2, <2>3 DEF OpenTcpSocket, Sends
  <2>. QED
    BY <1>3, <2>1, <2>2, <2>3 DEF Type
<1>4. ASSUME NEW c \in Clients, ClientStep(c)
      PROVE  WordsInv'
  <2>0. typed' = typed
    BY <1>4 DEF ClientStep, Timeout, ReceiveUnexpected, Receive, Connect,
       ConnectFails, Write, WriteFails, WriteKilled, ReadAnswer, ReadFails, tcpRest
  <2>1. CASE Write(c)
    <3>1. /\ pc[c] = "write" /\ pc' = [pc EXCEPT ![c] = "read"] /\ user' = user
          /\ requests' = requests \cup {Request(c, turn[c], typed[c], 0)}
      BY <2>1 DEF Write, Goto, tcpRest
    <3>2. \A q \in requests' : /\ Verified(q.typed)
                               /\ q.out = MessageOut(q.typed, q.out.uid, q.out.pw)
                               /\ q.out.uid < 10^USER_ID_SIZE
      BY <1>0, <3>1, RequestMade DEF WordsInv
    <3>. QED
      BY <1>0, <2>0, <3>1, <3>2 DEF WordsInv
  <2>2. CASE ~Write(c)
    <3>1. requests' = requests
      BY <1>4, <2>2 DEF ClientStep, Timeout, Retries, TimeoutException, GiveUp,
           ReceiveUnexpected, Receive, Connect, ConnectFails, WriteFails,
           WriteKilled, ReadAnswer, ReadFails, tcpRest
    <3>2. PICK l \in {"prompt", "ended", "killed", "write", "read"} : Goto(c, l)
      BY <1>4, <2>2 DEF ClientStep, Timeout, Retries, TimeoutException, GiveUp,
           ReceiveUnexpected, Receive, AfterAnswer, Connect, ConnectFails,
           WriteFails, WriteKilled, ReadAnswer, ReadFails, CloseTcpSocket
    <3>3. l = "write" => pc[c] = "connect"
      BY <1>0, <1>4, <2>2, <3>2
      DEF ClientStep, Timeout, Retries, TimeoutException, GiveUp, Goto,
          ReceiveUnexpected, Receive, AfterAnswer, Connect, ConnectFails,
          WriteFails, WriteKilled, ReadAnswer, ReadFails, CloseTcpSocket
    <3>4. \A d \in Clients : user'[d] < 10^USER_ID_SIZE
      <4>1. CASE Receive(c)
        <5>1. \/ user' = user
              \/ user' = [user EXCEPT ![c] = LOGGED_OUT]
              \/ /\ typed[c].op = "LIN" /\ pc[c] = "await"
                 /\ user' = [user EXCEPT ![c] = typed[c].uid.num]
          BY <4>1 DEF Receive, SetSession, LogsIn
        <5>2. LOGGED_OUT < 10^USER_ID_SIZE
          BY DEF USER_ID_SIZE, LOGGED_OUT
        <5>3. typed[c].op = "LIN" /\ pc[c] = "await" =>
                 typed[c].uid.num < 10^USER_ID_SIZE
          BY <1>0, CommandWords DEF WordsInv, Verified, USER_ID_SIZE
        <5>. QED
          BY <1>0, <5>1, <5>2, <5>3 DEF WordsInv
      <4>2. CASE ~Receive(c)
        <5>1. user' = user
          BY <1>4, <4>2 DEF ClientStep, Timeout, ReceiveUnexpected, Connect,
             ConnectFails, Write, WriteFails, WriteKilled, ReadAnswer,
             ReadFails, tcpRest
        <5>. QED
          BY <5>1 DEF WordsInv
      <4>. QED
        BY <4>1, <4>2
    <3>5. \A d \in Clients : pc'[d] \in {"await", "connect", "write"} =>
                               pc[d] \in {"await", "connect", "write"}
      BY <1>0, <3>2, <3>3 DEF Goto
    <3>. QED
      BY <1>1, <2>0, <3>1, <3>4, <3>5
  <2>. QED
    BY <2>1, <2>2
<1>5. CASE Deliver \/ Serve \/ Refuse \/ UNCHANGED vars
  <2>1. requests' \subseteq requests /\ UNCHANGED <<typed, user, pc>>
    BY <1>5 DEF Deliver, Serve, Refuse, serveRest, vars, clientVars
  <2>. QED
    BY <1>1, <2>1 DEF WordsInv
<1>. QED
  BY <1>3, <1>4, <1>5 DEF Next

\* So it is in every state.
LEMMA WordsCorrect == Spec => [](TypeInv /\ WordsInv)
<1>1. Init => TypeInv /\ WordsInv
  <2>1. LOGGED_OUT < 10^USER_ID_SIZE
    BY DEF USER_ID_SIZE, LOGGED_OUT
  <2>. QED
    BY <2>1, TypeInit DEF Init, WordsInv
<1>2. TypeInv /\ WordsInv /\ [Next]_vars => (TypeInv /\ WordsInv)'
  BY TypeStep, WordsStep
<1>. QED
  BY <1>1, <1>2, PTL DEF Spec

\* A request on its way is a command a client has verified.
LEMMA RequestCommand ==
    ASSUME TypeInv, WordsInv, NEW q \in requests
    PROVE  /\ Command(q.typed, q.out.uid)
           /\ q.out = MessageOut(q.typed, q.out.uid, q.out.pw)
<1>0. q \in Requests
  BY DEF TypeInv, TypeOK
<1>1. q.typed \in Menus /\ q.out.uid \in Users \cup {LOGGED_OUT}
  BY <1>0, RequestOut DEF Requests
<1>2. q.out.uid \in Nat
  <2>1. LOGGED_OUT \in Nat
    BY DEF LOGGED_OUT
  <2>2. Users \cup {LOGGED_OUT} \subseteq Nat
    BY <2>1, SessionAssumption
  <2>. QED
    BY <1>1, <2>2
<1>. QED
  BY <1>1, <1>2, CommandWords DEF WordsInv, Command, USER_ID_SIZE

\* MeaningKept of every system of clients, whatever words their users type:
\* what the server reads of a request is what was typed, through the conversions
\* and the padding of both ends; a value is kept modulo 2^UintWidth.
THEOREM RequestsMean == Spec => []MeaningKept
<1>1. TypeInv /\ WordsInv => MeaningKept
  <2> SUFFICES ASSUME TypeInv, WordsInv, NEW q \in requests,
                      ReadResult(buildMessage(q.out)) = "read"
               PROVE  LET read == MessageIn(buildMessage(q.out))
                          sent == [f \in {"aid", "time", "title", "fname"} |->
                                      q.typed[f].num]
                      IN  /\ \A f \in DOMAIN read \cap DOMAIN sent :
                                read[f].num = sent[f]
                          /\ "value" \in DOMAIN read =>
                               (read["value"].num - q.typed.value.num) % 2^UintWidth = 0
    BY DEF MeaningKept
  <2> DEFINE read == MessageIn(buildMessage(q.out))
  <2>1. DOMAIN read = Fields[q.out.op]
    BY DEF MessageIn, buildMessage
  <2>2. ASSUME NEW f \in Fields[q.out.op]
        PROVE  LET num == read[f].num IN
               /\ f = "aid" => num = q.typed.aid.num
               /\ f = "time" => num = q.typed.time.num
               /\ f = "title" => num = q.typed.title.num
               /\ f = "fname" => num = q.typed.fname.num
               /\ f = "value" => (num - q.typed.value.num) % 2^UintWidth = 0
    BY RequestCommand, MeaningOf
  <2> HIDE DEF read
  <2>3. q.typed["aid"] = q.typed.aid /\ q.typed["time"] = q.typed.time
        /\ q.typed["title"] = q.typed.title /\ q.typed["fname"] = q.typed.fname
    OBVIOUS
  <2>. QED
    BY <2>1, <2>2, <2>3 DEF read
<1>. QED
  BY <1>1, WordsCorrect, PTL

\* ChecksDiffer of every system of clients: the server refuses a request its
\* client has verified in these cases and in no other.
THEOREM ChecksDisagree == Spec => []ChecksDiffer
<1>1. TypeInv /\ WordsInv => ChecksDiffer
  <2> SUFFICES ASSUME TypeInv, WordsInv, NEW q \in requests
               PROVE  ReadResult(buildMessage(q.out)) # "read" <=>
        \/ q.out.op \notin {"LST", "SRC", "SAS"} /\ q.out.uid < 10^(USER_ID_SIZE - 1)
        \/ q.out.op = "OPA" /\ \/ q.typed.title.len > MAX_AUCTION_NAME_SIZE
                               \/ q.typed.size > MAX_FILE_SIZE
        \/ q.out.op \in {"OPA", "BID"} /\ q.out.value >= 10^ValueSize
    BY DEF ChecksDiffer
  <2>. QED
    BY RequestCommand, ReadOrNot
<1>. QED
  BY <1>1, WordsCorrect, PTL
=============================================================================
