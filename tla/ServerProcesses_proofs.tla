----------------------- MODULE ServerProcesses_proofs -----------------------
(***************************************************************************)
(* What processTCP does with its descriptors and its failures, for every   *)
(* number of connections, datagrams, failures and signals.                 *)
(***************************************************************************)
EXTENDS ServerProcesses, FiniteSetTheorems, TLAPS

\* A connection is in the queue once, or has left it.  What is in the queue
\* has no descriptor in the parent yet.
QueueInv == /\ \A i \in 1 .. Len(queue) :
                  queue[i] \in connected /\ queue[i] \notin held
            /\ \A i, j \in 1 .. Len(queue) : queue[i] = queue[j] => i = j
            /\ held \subseteq connected

\* The parent has a connection in hand exactly between accept and the end of
\* wait_for_tcp_message, and holds its descriptor.
HandInv == /\ parent \in {"configure", "fork", "close"} => cur \in held
           /\ parent \notin {"configure", "fork", "close"} => cur = NoConn

\* ex_trial counts failures only, and fewer of them than the limit while the
\* parent runs: those since the last fork, but for the moment before it is
\* reset.  An error that is not a SIGINT's is one it will count.
TrialsInv == /\ unset <= faults
             /\ parent # "exited" => trials < RetryMax
             /\ parent \in {"loop", "blocked", "configure", "fork"} => trials <= row
             /\ parent = "failed" /\ ~sigInt["TCP"] => trials < row

\* The parent's descriptors are finitely many and accounted for.
HeldInv == IsFiniteSet(held) /\ DescriptorsAccounted

IInv == TypeOK /\ QueueInv /\ HandInv /\ TrialsInv /\ StopsForAReason /\ HeldInv
-----------------------------------------------------------------------------
\* What the steps of clients, children and the UDP process do to processTCP:
\* at most, they empty its queue once it has exited, or a call of theirs fails.
OtherStep == /\ UNCHANGED <<parentVars, unset, connected, sigInt>>
             /\ queue' \in {queue, <<>>}
             /\ faults' \in {faults, faults + 1}

LEMMA OtherSteps ==
    ASSUME \/ \E c \in Conns : Send(c) \/ ChildStep(c)
           \/ SendDatagram \/ UdpStep \/ RecvfromFails \/ UNCHANGED vars
    PROVE  OtherStep
  <1> USE DEF OtherStep, netVars, udpRest
  <1>1. CASE \E c \in Conns : Send(c)
    BY <1>1 DEF Send
  <1>2. CASE \E c \in Conns : ChildStep(c)
    BY <1>2 DEF ChildStep, Timeout, Refuse, Call, Enter, Handle, Throw, ChildTo,
                childRest
  <1>3. CASE SendDatagram
    BY <1>3 DEF SendDatagram
  <1>4. CASE \E code \in Codes : Receive(code)
    BY <1>4 DEF Receive, UdpTo
  <1>5. CASE UdpRefuse \/ UdpList \/ UdpHandle \/ UdpThrow
    BY <1>5 DEF UdpRefuse, UdpList, UdpHandle, UdpThrow, HandlerReturns, UdpTo
  <1>6. CASE UdpCall \/ UdpEnter \/ UdpReenter
    BY <1>6 DEF UdpCall, UdpEnter, UdpReenter, UdpTo
  <1>7. CASE BlockInRecvfrom \/ TerminateUdp \/ RecvfromThrows \/ HandlerMissing
    BY <1>7 DEF BlockInRecvfrom, TerminateUdp, RecvfromThrows, HandlerMissing,
                LeaveQueue, UdpTo
  <1>8. CASE RecvfromFails
    BY <1>8 DEF RecvfromFails, UdpTo, Fault
  <1>9. CASE UNCHANGED vars
    BY <1>9 DEF vars
  <1> QED
    BY <1>1, <1>2, <1>3, <1>4, <1>5, <1>6, <1>7, <1>8, <1>9 DEF UdpStep

LEMMA InitInv == Init => IInv
  <1> SUFFICES ASSUME Init PROVE IInv
    OBVIOUS
  <1> USE ProcessesAssumption DEF Init
  <1>1. TypeOK
    <2>1. sem \in 0 .. SemMax
      OBVIOUS
    <2>2. leaked \in BOOLEAN /\ sigInt \in [{"TCP", "UDP"} -> BOOLEAN]
      BY Zenon
    <2> QED
      BY <2>1, <2>2 DEF TypeOK
  <1>2. QueueInv /\ HandInv /\ TrialsInv /\ StopsForAReason
    BY DEF QueueInv, HandInv, TrialsInv, StopsForAReason
  <1>3. HeldInv
    BY FS_EmptySet, {} \ {NoConn} = {} DEF HeldInv, DescriptorsAccounted
  <1> QED
    BY <1>1, <1>2, <1>3 DEF IInv

\* The semaphore stays between 0 and SEM_VALUE_MAX.
SemOK == sem \in 0 .. SemMax /\ leaked \in BOOLEAN

LEMMA SemSteps ==
    ASSUME SemOK, SemWait \/ SemPost \/ SemLeak PROVE SemOK'
  <1> USE ProcessesAssumption DEF SemOK
  <1>1. CASE SemWait
    BY <1>1 DEF SemWait
  <1>2. CASE SemPost
    BY <1>2 DEF SemPost
  <1>3. CASE SemLeak
    BY <1>3 DEF SemLeak
  <1> QED
    BY <1>1, <1>2, <1>3

\* What the parent's steps leave to the others.
RestOK == /\ udp \in {"loop", "blocked", "failed", "handle", "wait", "inside",
                      "stopped", "crashed"}
          /\ inbox \in 0 .. InboxSize
          /\ msg \in Codes \cup {NoCode} /\ left \in 0 .. 2
          /\ SemOK
          /\ connected \subseteq Conns
          /\ sigInt \in [{"TCP", "UDP"} -> BOOLEAN]
          /\ signals \in 0 .. MaxSignals

LEMMA RestKept == ASSUME RestOK, UNCHANGED tcpRest PROVE RestOK'
  BY DEF RestOK, SemOK, tcpRest, udpVars, semVars

LEMMA TypeStep ==
    ASSUME IInv, [Next]_vars PROVE TypeOK'
  <1> USE ProcessesAssumption DEF IInv, TypeOK
  <1>0. RestOK
    BY DEF RestOK, SemOK
  <1>1. ASSUME NEW c \in Conns, Connect(c) PROVE TypeOK'
    BY <1>1 DEF Connect, parentVars, udpVars, semVars
  <1>2. ASSUME NEW c \in Conns, Send(c) PROVE TypeOK'
    BY <1>2 DEF Send, parentVars, udpVars, semVars, netVars
  <1>3. ASSUME NEW c \in Conns, ChildStep(c) PROVE TypeOK'
    <2>1. SemOK'
      BY <1>0, <1>3, SemSteps DEF RestOK, ChildStep, Timeout, Refuse, Call, Enter,
                                  Handle, Throw, semVars, SemOK
    <2>2. \E to \in {"exited", "wait", "inside"} :
             child' = [child EXCEPT ![c] = to] /\ UNCHANGED childRest
      BY <1>3 DEF ChildStep, Timeout, Refuse, Call, Enter, Handle, Throw, ChildTo
    <2> QED
      BY <2>1, <2>2 DEF SemOK, childRest, parentVars, udpVars, netVars
  <1>4. CASE SendDatagram
    BY <1>4 DEF SendDatagram, parentVars, semVars, netVars
  <1>5. CASE ParentStep \/ AcceptFails \/ ConfigureFails \/ ForkFails
    <2>1. RestOK'
      BY <1>0, <1>5, RestKept DEF ParentStep, BlockInAccept, Accept, TerminateTcp,
         AcceptThrows, Configure, Fork, CloseConnection, AcceptFails,
         ConfigureFails, ForkFails
    <2> USE <2>1 DEF RestOK, SemOK
    <2>2. CASE BlockInAccept
      BY <2>2 DEF BlockInAccept
    <2>3. CASE Accept
      <3>1. Head(queue) \in Conns /\ Tail(queue) \in Seq(Conns)
        BY <2>3 DEF Accept
      <3> QED
        BY <2>3, <3>1 DEF Accept
    <2>4. CASE TerminateTcp
      BY <2>4 DEF TerminateTcp, LeaveQueue
    <2>5. CASE AcceptThrows
      BY <2>5 DEF AcceptThrows, CountException, Retry, LeaveQueue, TrialsInv
    <2>6. CASE Configure
      BY <2>6 DEF Configure
    <2>7. CASE Fork
      BY <2>7 DEF Fork
    <2>8. CASE CloseConnection
      BY <2>8 DEF CloseConnection
    <2>9. CASE AcceptFails
      BY <2>9 DEF AcceptFails, TcpFault, Fault
    <2>10. CASE ConfigureFails
      BY <2>10 DEF ConfigureFails, CountException, Retry, LeaveQueue, TcpFault,
                   Fault, TrialsInv
    <2>11. CASE ForkFails
      BY <2>11 DEF ForkFails, CountException, Retry, LeaveQueue, TcpFault, Fault,
                   TrialsInv
    <2> QED
      BY <1>5, <2>2, <2>3, <2>4, <2>5, <2>6, <2>7, <2>8, <2>9, <2>10, <2>11
         DEF ParentStep
  <1>6. CASE UdpStep \/ RecvfromFails
    <2> USE DEF UdpTo, udpRest, parentVars
    <2>1. ASSUME NEW code \in Codes, Receive(code) PROVE TypeOK'
      BY <2>1 DEF Receive, semVars
    <2>2. CASE BlockInRecvfrom \/ RecvfromThrows
      BY <2>2 DEF BlockInRecvfrom, RecvfromThrows, semVars
    <2>3. CASE TerminateUdp \/ HandlerMissing
      <3>1. queue' \in Seq(Conns)
        <4>1. queue' \in {queue, <<>>}
          BY <2>3 DEF TerminateUdp, HandlerMissing, LeaveQueue
        <4>2. queue \in Seq(Conns) /\ <<>> \in Seq(Conns)
          OBVIOUS
        <4> QED
          BY <4>1, <4>2
      <3>2. msg' \in Codes \cup {NoCode} /\ udp' \in {"stopped", "crashed"}
        BY <2>3 DEF TerminateUdp, HandlerMissing
      <3>3. UNCHANGED <<inbox, left, semVars, faults>> /\ UNCHANGED udpRest
        BY <2>3 DEF TerminateUdp, HandlerMissing
      <3> QED
        BY <3>1, <3>2, <3>3 DEF semVars
    <2>4. CASE RecvfromFails
      BY <2>4 DEF RecvfromFails, Fault, semVars
    <2>5. CASE UdpRefuse \/ UdpList \/ UdpHandle \/ UdpThrow
      <3>1. SemOK' /\ HandlerReturns
        BY <1>0, <2>5, SemSteps DEF RestOK, SemOK, semVars, UdpRefuse, UdpList,
                                    UdpHandle, UdpThrow
      <3> QED
        BY <3>1 DEF SemOK, HandlerReturns
    <2>6. CASE UdpCall
      BY <2>6 DEF UdpCall, MoreSections, semVars
    <2>7. CASE UdpEnter \/ UdpReenter
      <3>1. SemOK'
        BY <1>0, <2>7, SemSteps DEF RestOK, UdpEnter, UdpReenter
      <3>2. left' \in 0 .. 2
        BY <2>7 DEF UdpEnter, UdpReenter
      <3> QED
        BY <2>7, <3>1, <3>2 DEF SemOK, UdpEnter, UdpReenter
    <2> QED
      BY <1>6, <2>1, <2>2, <2>3, <2>4, <2>5, <2>6, <2>7 DEF UdpStep
  <1>7. CASE Interrupt
    BY <1>7 DEF Interrupt, Woken, semVars, netVars
  <1>8. CASE UNCHANGED vars
    BY <1>8 DEF vars, parentVars, udpVars, semVars, netVars
  <1> QED
    BY <1>1, <1>2, <1>3, <1>4, <1>5, <1>6, <1>7, <1>8 DEF Next

\* Accept takes the first of the queue, which is nowhere else in it.
LEMMA QueueStep ==
    ASSUME IInv, [Next]_vars PROVE (QueueInv)'
  <1> USE ProcessesAssumption DEF IInv, TypeOK, QueueInv
  <1>1. ASSUME NEW c \in Conns, Connect(c) PROVE (QueueInv)'
    BY <1>1 DEF Connect, parentVars
  <1>2. CASE Accept
    BY <1>2 DEF Accept, tcpRest
  <1>3. CASE TerminateTcp
    BY <1>3 DEF TerminateTcp, LeaveQueue, tcpRest
  <1>4. CASE AcceptThrows
    BY <1>4 DEF AcceptThrows, CountException, Retry, LeaveQueue, tcpRest
  <1>5. CASE BlockInAccept
    BY <1>5 DEF BlockInAccept, tcpRest
  <1>6. CASE Configure
    BY <1>6 DEF Configure, tcpRest
  <1>7. CASE Fork
    BY <1>7 DEF Fork, tcpRest
  <1>8. CASE CloseConnection
    BY <1>8 DEF CloseConnection, tcpRest
  <1>9. CASE AcceptFails
    BY <1>9 DEF AcceptFails, TcpFault, Fault, tcpRest
  <1>10. CASE ConfigureFails
    BY <1>10 DEF ConfigureFails, TcpFault, Fault, CountException, Retry, LeaveQueue,
                 tcpRest
  <1>11. CASE ForkFails
    BY <1>11 DEF ForkFails, TcpFault, Fault, CountException, Retry, LeaveQueue,
                 tcpRest
  <1>12. CASE Interrupt
    BY <1>12 DEF Interrupt, Woken, netVars
  <1>13. CASE OtherStep
    BY <1>13 DEF OtherStep, parentVars
  <1> QED
    BY <1>1, <1>2, <1>3, <1>4, <1>5, <1>6, <1>7,
       <1>8, <1>9, <1>10, <1>11, <1>12, <1>13,
       OtherSteps DEF Next, ParentStep

\* Every way out of the three calls after accept lets go of the connection.
LEMMA HandStep ==
    ASSUME IInv, [Next]_vars PROVE (HandInv)'
  <1> USE ProcessesAssumption DEF IInv, TypeOK, HandInv
  <1>1. ASSUME NEW c \in Conns, Connect(c) PROVE (HandInv)'
    BY <1>1 DEF Connect, parentVars
  <1>2. CASE Accept
    BY <1>2 DEF Accept, tcpRest
  <1>3. CASE TerminateTcp
    BY <1>3 DEF TerminateTcp, LeaveQueue, tcpRest
  <1>4. CASE AcceptThrows
    BY <1>4 DEF AcceptThrows, CountException, Retry, LeaveQueue, tcpRest
  <1>5. CASE BlockInAccept
    BY <1>5 DEF BlockInAccept, tcpRest
  <1>6. CASE Configure
    BY <1>6 DEF Configure, tcpRest
  <1>7. CASE Fork
    BY <1>7 DEF Fork, tcpRest
  <1>8. CASE CloseConnection
    BY <1>8 DEF CloseConnection, tcpRest
  <1>9. CASE AcceptFails
    BY <1>9 DEF AcceptFails, TcpFault, Fault, tcpRest
  <1>10. CASE ConfigureFails
    BY <1>10 DEF ConfigureFails, TcpFault, Fault, CountException, Retry, LeaveQueue,
                 tcpRest
  <1>11. CASE ForkFails
    BY <1>11 DEF ForkFails, TcpFault, Fault, CountException, Retry, LeaveQueue,
                 tcpRest
  <1>12. CASE Interrupt
    BY <1>12 DEF Interrupt, Woken, netVars
  <1>13. CASE OtherStep
    BY <1>13 DEF OtherStep, parentVars
  <1> QED
    BY <1>1, <1>2, <1>3, <1>4, <1>5, <1>6, <1>7,
       <1>8, <1>9, <1>10, <1>11, <1>12, <1>13,
       OtherSteps DEF Next, ParentStep

\* What an exception adds to ex_trial has been a failed call since the last
\* fork: a connection that is handed over starts the count again.
LEMMA TrialsStep ==
    ASSUME IInv, [Next]_vars PROVE (TrialsInv /\ StopsForAReason)'
  <1> USE ProcessesAssumption DEF IInv, TypeOK, TrialsInv, StopsForAReason
  <1>1. ASSUME NEW c \in Conns, Connect(c) PROVE (TrialsInv /\ StopsForAReason)'
    BY <1>1 DEF Connect, parentVars
  <1>2. CASE Accept
    BY <1>2 DEF Accept, tcpRest
  <1>3. CASE TerminateTcp
    BY <1>3 DEF TerminateTcp, LeaveQueue, tcpRest
  <1>4. CASE AcceptThrows
    BY <1>4 DEF AcceptThrows, CountException, Retry, LeaveQueue, tcpRest
  <1>5. CASE BlockInAccept
    BY <1>5 DEF BlockInAccept, tcpRest
  <1>6. CASE Configure
    BY <1>6 DEF Configure, tcpRest
  <1>7. CASE Fork
    BY <1>7 DEF Fork, tcpRest
  <1>8. CASE CloseConnection
    BY <1>8 DEF CloseConnection, tcpRest
  <1>9. CASE AcceptFails
    BY <1>9 DEF AcceptFails, TcpFault, Fault, tcpRest
  <1>10. CASE ConfigureFails
    BY <1>10 DEF ConfigureFails, TcpFault, Fault, CountException, Retry, LeaveQueue,
                 tcpRest
  <1>11. CASE ForkFails
    BY <1>11 DEF ForkFails, TcpFault, Fault, CountException, Retry, LeaveQueue,
                 tcpRest
  <1>12. CASE Interrupt
    BY <1>12 DEF Interrupt, Woken, netVars
  <1>13. CASE OtherStep
    BY <1>13 DEF OtherStep, parentVars
  <1> QED
    BY <1>1, <1>2, <1>3, <1>4, <1>5, <1>6, <1>7,
       <1>8, <1>9, <1>10, <1>11, <1>12, <1>13,
       OtherSteps DEF Next, ParentStep

\* A descriptor is closed or, after a failed setsockopt, one is lost.
LEMMA HeldStep ==
    ASSUME IInv, [Next]_vars PROVE (HeldInv)'
  <1> USE ProcessesAssumption DEF IInv, TypeOK, HeldInv, DescriptorsAccounted, HandInv
  <1>1. ASSUME NEW c \in Conns, Connect(c) PROVE (HeldInv)'
    BY <1>1 DEF Connect, parentVars
  <1>2. CASE Accept
    <2>1. Head(queue) = queue[1] /\ 1 \in 1 .. Len(queue)
      BY <1>2 DEF Accept, tcpRest
    <2>2. held' \ {cur'} = held \ {cur}
      BY <1>2, <2>1 DEF Accept, QueueInv
    <2>3. IsFiniteSet(held')
      BY <1>2, FS_AddElement DEF Accept
    <2> QED
      BY <1>2, <2>2, <2>3 DEF Accept
  <1>3. CASE TerminateTcp
    BY <1>3 DEF TerminateTcp, LeaveQueue, tcpRest
  <1>4. CASE AcceptThrows
    BY <1>4 DEF AcceptThrows, CountException, Retry, LeaveQueue, tcpRest
  <1>5. CASE BlockInAccept
    BY <1>5 DEF BlockInAccept, tcpRest
  <1>6. CASE Configure
    BY <1>6 DEF Configure, tcpRest
  <1>7. CASE Fork
    BY <1>7 DEF Fork, tcpRest
  <1>8. CASE CloseConnection
    <2>1. held' = held \ {cur} /\ held' \ {cur'} = held \ {cur}
      BY <1>8 DEF CloseConnection
    <2>2. IsFiniteSet(held')
      BY <2>1, FS_RemoveElement
    <2>3. Cardinality(held' \ {cur'}) = unset'
      BY <1>8, <2>1 DEF CloseConnection
    <2> QED
      BY <2>2, <2>3
  <1>9. CASE AcceptFails
    BY <1>9 DEF AcceptFails, TcpFault, Fault, tcpRest
  <1>10. CASE ConfigureFails
    <2>1. cur \in held /\ held' \ {cur'} = held
      BY <1>10 DEF ConfigureFails
    <2>2. Cardinality(held \ {cur}) = Cardinality(held) - 1
      BY <2>1, FS_RemoveElement
    <2>3. Cardinality(held) \in Nat
      BY FS_CardinalityType
    <2>4. Cardinality(held) = unset + 1
      BY <2>2, <2>3
    <2>5. IsFiniteSet(held') /\ unset' = unset + 1
      BY <1>10 DEF ConfigureFails
    <2> QED
      BY <2>1, <2>4, <2>5
  <1>11. CASE ForkFails
    <2>1. held' = held \ {cur} /\ held' \ {cur'} = held \ {cur}
      BY <1>11 DEF ForkFails
    <2>2. IsFiniteSet(held')
      BY <2>1, FS_RemoveElement
    <2>3. Cardinality(held' \ {cur'}) = unset'
      BY <1>11, <2>1 DEF ForkFails
    <2> QED
      BY <2>2, <2>3
  <1>12. CASE Interrupt
    BY <1>12 DEF Interrupt, Woken, netVars
  <1>13. CASE OtherStep
    BY <1>13 DEF OtherStep, parentVars
  <1> QED
    BY <1>1, <1>2, <1>3, <1>4, <1>5, <1>6, <1>7,
       <1>8, <1>9, <1>10, <1>11, <1>12, <1>13,
       OtherSteps DEF Next, ParentStep

\* The invariant is inductive.
LEMMA Invariance == Spec => []IInv
  <1>1. IInv /\ [Next]_vars => IInv'
    BY TypeStep, QueueStep, HandStep, TrialsStep, HeldStep DEF IInv
  <1> QED
    BY InitInv, <1>1, PTL DEF Spec

-----------------------------------------------------------------------------
\* Type correctness of the processes (server.cpp).
THEOREM TypeCorrect == Spec => []TypeOK
  BY Invariance, PTL DEF IInv

\* However long it runs, the parent's open descriptors of connections are the
\* one in hand and one for every setsockopt that failed.
THEOREM NoDescriptorLeaks == Spec => []DescriptorsAccounted
  BY Invariance, PTL DEF IInv, HeldInv

\* The TCP server does not stop by itself before EXCEPTION_RETRY_MAX calls
\* have failed in a row, without a connection handed over in between.
THEOREM StopsOnlyForAReason == Spec => []StopsForAReason
  BY Invariance, PTL DEF IInv
=============================================================================
