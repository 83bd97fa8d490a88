--------------------------- MODULE ServerProcesses ---------------------------
(***************************************************************************)
(* The processes of src/src/server/server.cpp: processTCP, which accepts   *)
(* connections and forks a child for each, processUDP, which serves the    *)
(* datagrams one by one, the semaphore their handlers share, and what a    *)
(* failing system call or a SIGINT does to them.  What the handlers do to  *)
(* the database is AuctionServer.                                          *)
(***************************************************************************)
EXTENDS Naturals, FiniteSets, SequencesExt

CONSTANTS
    Conns,      \* the TCP connections clients may make
    Codes,      \* the first three letters of the messages clients send
    NoConn, NoCode,
    RetryMax,   \* EXCEPTION_RETRY_MAX
    QueueSize,  \* TCP_MAX_QUEUE_SIZE
    SemMax,     \* SEM_VALUE_MAX, at which sem_post fails
    InboxSize,  \* bound on the datagrams that wait in the UDP socket
    MaxFaults,  \* bound on the system calls that fail
    MaxSignals  \* bound on the SIGINTs

ASSUME ProcessesAssumption ==
    /\ NoConn \notin Conns /\ NoCode \notin Codes
    /\ RetryMax \in Nat \ {0} /\ QueueSize \in Nat \ {0}
    /\ SemMax \in Nat \ {0} /\ InboxSize \in Nat /\ MaxFaults \in Nat /\ MaxSignals \in Nat

VARIABLES
    parent,     \* where processTCP is
    cur,        \* its connection_fd
    trials,     \* its ex_trial
    held,       \* the connections it has a descriptor of
    row,        \* calls of it that failed since it last forked a child
    queue,      \* connections that are made and not yet accepted
    connected,  \* connections that were ever made
    child,      \* where the child of a connection is
    udp,        \* where processUDP is
    inbox,      \* how many datagrams are in the UDP socket
    msg,        \* code of the datagram that is being served
    left,       \* critical sections its handler has yet to enter again
    sem,        \* the semaphore of the database
    leaked,     \* an exception has left a critical section without a sem_post
    sigInt,     \* sig_int of the two processes
    faults,     \* system calls that have failed
    unset,      \* those of them that are setsockopt of the parent
    signals     \* SIGINTs so far

parentVars == <<parent, cur, trials, held, row>>
udpVars    == <<udp, inbox, msg, left>>
semVars    == <<sem, leaked>>
netVars    == <<queue, connected>>
vars == <<parentVars, child, udpVars, semVars, netVars, sigInt, faults, unset,
          signals>>

\* What no step of the parent, of a child and of the UDP process changes.
tcpRest   == <<udpVars, semVars, connected, sigInt, signals>>
childRest == <<parentVars, udpVars, netVars, sigInt, faults, unset, signals>>
udpRest   == <<parentVars, child, connected, sigInt, unset, signals>>

-----------------------------------------------------------------------------
(* Handlers by message code.  registerRequestHandlers registers both       *)
(* handlers of unknown codes, "ERR", as TCP handlers.                      *)

UdpHandlers == {"LIN", "LOU", "UNR", "LMB", "LMA", "LST", "SRC"}

\* What callHandlerRequest dereferences is a handler: that of the code or, if
\* it has none, that of CODE_ERROR.
HandlerFound(code) == code \in UdpHandlers \/ "ERR" \in UdpHandlers

\* List, and it alone, is called without a sem_wait.  Unregister goes on in two
\* more critical sections.  A listing of a user without directories, or a Close
\* that fails below a listing or a record, throws past every sem_post.
Waits(code)       == code # "LST"
MoreSections(code) == IF code = "UNR" THEN 2 ELSE 0
MayThrow(code)    == code \in {"LMA", "LMB", "SRC"}

-----------------------------------------------------------------------------
Init ==
    /\ parent = "loop" /\ cur = NoConn /\ trials = 0 /\ held = {} /\ row = 0
    /\ child = [c \in Conns |-> "none"]
    /\ queue = <<>> /\ connected = {}
    /\ udp = "loop" /\ inbox = 0 /\ msg = NoCode /\ left = 0
    /\ sem = 1 /\ leaked = FALSE
    /\ sigInt = [p \in {"TCP", "UDP"} |-> FALSE]
    /\ faults = 0 /\ unset = 0 /\ signals = 0

UdpGone == udp \in {"stopped", "crashed"}

\* Both processes have the listening socket, the UDP process since main has
\* forked it: connections are made, and queue, as long as one of them lives.
Listening == parent # "exited" \/ ~UdpGone

Fault == faults < MaxFaults /\ faults' = faults + 1

-----------------------------------------------------------------------------
(* The semaphore, as the handlers of both kinds of processes use it        *)

SemWait == sem > 0 /\ sem' = sem - 1 /\ UNCHANGED leaked
\* At SEM_VALUE_MAX sem_post returns -1 and SemException ends the handler.
SemPost == sem' = (IF sem < SemMax THEN sem + 1 ELSE sem) /\ UNCHANGED leaked
\* An exception passes every sem_post.  The death of a process inside, which
\* AuctionServer has, comes to the same.
SemLeak == leaked' = TRUE /\ UNCHANGED sem

-----------------------------------------------------------------------------
(* Clients                                                                 *)

Connect(c) ==
    /\ Listening /\ Len(queue) < QueueSize
    /\ c \notin connected
    /\ connected' = connected \cup {c}
    /\ queue' = Append(queue, c)
    /\ UNCHANGED <<parentVars, child, udpVars, semVars, sigInt, faults, unset,
                   signals>>

\* The message on a connection.  One that is sent before the child reads it
\* waits in the connection, and nobody sees it until then.
Send(c) ==
    /\ child[c] = "read"
    /\ child' = [child EXCEPT ![c] = "handle"]
    /\ UNCHANGED <<parentVars, udpVars, semVars, netVars, sigInt, faults, unset,
                   signals>>

SendDatagram ==
    /\ inbox < InboxSize
    /\ inbox' = inbox + 1
    /\ UNCHANGED <<parentVars, child, udp, msg, left, semVars, netVars, sigInt,
                   faults, unset, signals>>

-----------------------------------------------------------------------------
(* processTCP                                                              *)

\* The kernel resets what is in the queue when the last process that has the
\* listening socket is gone.
LeaveQueue(gone) == queue' = IF gone THEN <<>> ELSE queue

\* A call of the parent fails.
TcpFault == Fault /\ row' = row + 1

\* accept blocks: there is no timeout on the listening socket.
BlockInAccept ==
    /\ parent = "loop" /\ queue = <<>>
    /\ parent' = "blocked"
    /\ UNCHANGED <<cur, trials, held, row, child, queue, faults, unset, tcpRest>>

Accept ==
    /\ parent \in {"loop", "blocked"} /\ queue # <<>>
    /\ cur' = Head(queue)
    /\ held' = held \cup {Head(queue)}
    /\ queue' = Tail(queue)
    /\ parent' = "configure"
    /\ UNCHANGED <<trials, row, child, faults, unset, tcpRest>>

\* accept returns -1, of a reason other than a signal.
AcceptFails ==
    /\ parent \in {"loop", "blocked"}
    /\ TcpFault
    /\ parent' = "failed"
    /\ UNCHANGED <<cur, trials, held, child, queue, unset, tcpRest>>

\* Where the catch clause of processTCP leads: it counts the exception.
Retry == IF trials + 1 >= RetryMax THEN "exited" ELSE "loop"

\* Mutant: the exception is counted where it is thrown and where it is caught.
CountTwice ==
    /\ trials' = trials + 2
    /\ parent' = Retry
    /\ LeaveQueue(Retry = "exited" /\ UdpGone)

CountException ==
    /\ trials' = trials + 1
    /\ parent' = Retry
    /\ LeaveQueue(Retry = "exited" /\ UdpGone)

\* sig_int is looked at after accept has returned -1 and nowhere else.
TerminateTcp ==
    /\ parent = "failed" /\ sigInt["TCP"]
    /\ parent' = "exited"
    /\ LeaveQueue(UdpGone)
    /\ UNCHANGED <<cur, trials, held, row, child, faults, unset, tcpRest>>

\* EAGAIN, which would not be counted, needs a timeout on the socket.
AcceptThrows ==
    /\ parent = "failed" /\ ~sigInt["TCP"]
    /\ CountException
    /\ UNCHANGED <<cur, held, row, child, faults, unset, tcpRest>>

Configure ==
    /\ parent = "configure"
    /\ parent' = "fork"
    /\ UNCHANGED <<cur, trials, held, row, child, queue, faults, unset, tcpRest>>

\* setsockopt is called outside the try block: nothing closes the connection.
ConfigureFails ==
    /\ parent = "configure"
    /\ TcpFault
    /\ unset' = unset + 1
    /\ cur' = NoConn
    /\ CountException
    /\ UNCHANGED <<held, child, tcpRest>>

Fork ==
    /\ parent = "fork"
    /\ child' = [child EXCEPT ![cur] = "read"]
    /\ row' = 0
    /\ parent' = "close"
    /\ UNCHANGED <<cur, trials, held, queue, faults, unset, tcpRest>>

\* Mutant: the exception of fork passes without closing the connection.
ForkLeaks ==
    /\ parent = "fork"
    /\ TcpFault
    /\ cur' = NoConn
    /\ CountException
    /\ UNCHANGED <<held, child, unset, tcpRest>>

ForkFails ==
    /\ parent = "fork"
    /\ TcpFault
    /\ held' = held \ {cur}
    /\ cur' = NoConn
    /\ CountException
    /\ UNCHANGED <<child, unset, tcpRest>>

\* Mutant: ex_trial is not reset, so that failures add up over connections.
CloseKeepsTrials ==
    /\ parent = "close"
    /\ held' = held \ {cur}
    /\ cur' = NoConn
    /\ parent' = "loop"
    /\ UNCHANGED <<trials, row, child, queue, faults, unset, tcpRest>>

CloseConnection ==
    /\ parent = "close"
    /\ held' = held \ {cur}
    /\ cur' = NoConn
    /\ trials' = 0
    /\ parent' = "loop"
    /\ UNCHANGED <<row, child, queue, faults, unset, tcpRest>>

ParentStep == \/ BlockInAccept \/ Accept \/ TerminateTcp \/ AcceptThrows
              \/ Configure \/ Fork \/ CloseConnection

-----------------------------------------------------------------------------
(* processTCPChild                                                         *)

ChildTo(c, from, to) ==
    /\ child[c] = from
    /\ child' = [child EXCEPT ![c] = to]
    /\ UNCHANGED childRest

\* Mutant: without SO_RCVTIMEO the child waits until the message is there.
NoTimeout(c) == FALSE /\ ChildTo(c, "read", "exited") /\ UNCHANGED semVars
\* No message within TCP_READ_TIMEOUT_SECONDS, or read is interrupted: the
\* exception ends the child and closes the connection.
Timeout(c) == ChildTo(c, "read", "exited") /\ UNCHANGED semVars

\* The handler of the code, or of "ERR", ends before any sem_wait: it cannot
\* read the message, answers ERR or does not find the asset's directory.
Refuse(c) == ChildTo(c, "handle", "exited") /\ UNCHANGED semVars

\* The handler has read the message and calls the database, which waits for
\* the semaphore, for ever if need be.
Call(c)   == ChildTo(c, "handle", "wait") /\ UNCHANGED semVars
Enter(c)  == SemWait /\ ChildTo(c, "wait", "inside")

\* Then the handler returns, or throws after the sem_post: the child exits.
Handle(c) == SemPost /\ ChildTo(c, "inside", "exited")
\* CLS, BID: an exception of a filesystem call, of stol or of Close.
Throw(c)  == SemLeak /\ ChildTo(c, "inside", "exited")

ChildStep(c) == \/ Timeout(c) \/ Refuse(c) \/ Call(c) \/ Enter(c) \/ Handle(c)
                \/ Throw(c)

-----------------------------------------------------------------------------
(* processUDP                                                              *)

UdpTo(to) == udp' = to /\ UNCHANGED udpRest

BlockInRecvfrom ==
    /\ udp = "loop" /\ inbox = 0
    /\ UdpTo("blocked") /\ UNCHANGED <<inbox, msg, left, semVars, queue, faults>>

\* Nobody sees what a datagram is before it is received.
Receive(code) ==
    /\ udp \in {"loop", "blocked"} /\ inbox > 0
    /\ msg' = code /\ inbox' = inbox - 1
    /\ UdpTo("handle") /\ UNCHANGED <<left, semVars, queue, faults>>

RecvfromFails ==
    /\ udp \in {"loop", "blocked"}
    /\ Fault
    /\ UdpTo("failed") /\ UNCHANGED <<inbox, msg, left, semVars, queue>>

TerminateUdp ==
    /\ udp = "failed" /\ sigInt["UDP"]
    /\ UdpTo("stopped") /\ LeaveQueue(parent = "exited")
    /\ UNCHANGED <<inbox, msg, left, semVars, faults>>

\* The exception is one that processUDP logs and does not count.
RecvfromThrows ==
    /\ udp = "failed" /\ ~sigInt["UDP"]
    /\ UdpTo("loop") /\ UNCHANGED <<inbox, msg, left, semVars, queue, faults>>

\* The end of the map is dereferenced: the process dies.
HandlerMissing ==
    /\ udp = "handle" /\ ~HandlerFound(msg)
    /\ UdpTo("crashed") /\ LeaveQueue(parent = "exited")
    /\ msg' = NoCode /\ UNCHANGED <<inbox, left, semVars, faults>>

\* The handler is done, by a return or by an exception that it or processUDP
\* catches and logs: on to the next datagram.
HandlerReturns ==
    /\ UdpTo("loop")
    /\ msg' = NoCode /\ left' = 0
    /\ UNCHANGED <<inbox, queue, faults>>

\* It cannot read the message, or is List and throws.
UdpRefuse ==
    /\ udp = "handle" /\ HandlerFound(msg)
    /\ HandlerReturns /\ UNCHANGED semVars

\* List posts a semaphore it has not taken.
UdpList ==
    /\ udp = "handle" /\ HandlerFound(msg) /\ ~Waits(msg)
    /\ SemPost /\ HandlerReturns

UdpCall ==
    /\ udp = "handle" /\ HandlerFound(msg) /\ Waits(msg)
    /\ left' = MoreSections(msg)
    /\ UdpTo("wait") /\ UNCHANGED <<inbox, msg, semVars, queue, faults>>

UdpEnter ==
    /\ udp = "wait"
    /\ SemWait
    /\ UdpTo("inside") /\ UNCHANGED <<inbox, msg, left, queue, faults>>

UdpHandle == udp = "inside" /\ SemPost /\ HandlerReturns

UdpThrow == udp = "inside" /\ MayThrow(msg) /\ SemLeak /\ HandlerReturns

\* Mutant: Unregister goes on to its next part without a sem_post.
ReenterHolding ==
    /\ udp = "inside" /\ left > 0
    /\ left' = left - 1
    /\ UdpTo("wait") /\ UNCHANGED <<inbox, msg, semVars, queue, faults>>

UdpReenter ==
    /\ udp = "inside" /\ left > 0 /\ sem < SemMax
    /\ left' = left - 1
    /\ SemPost
    /\ UdpTo("wait") /\ UNCHANGED <<inbox, msg, queue, faults>>

UdpStep == \/ \E code \in Codes : Receive(code)
           \/ BlockInRecvfrom \/ TerminateUdp \/ RecvfromThrows
           \/ HandlerMissing \/ UdpRefuse \/ UdpList \/ UdpCall \/ UdpEnter
           \/ UdpHandle \/ UdpThrow \/ UdpReenter

-----------------------------------------------------------------------------
(* SIGINT reaches every process.  The handler sets sig_int; accept and     *)
(* recvfrom return -1 if they are blocked, for sa_flags is 0, and so does  *)
(* sem_wait, whose SemException ends the handler.  A read of a child that  *)
(* is interrupted is a Timeout or a Refuse.                                *)

Woken(state) == IF state = "blocked" THEN "failed" ELSE state

\* Who waits for the semaphore may be in sem_wait or just before it.
Interrupt ==
    /\ signals < MaxSignals
    /\ signals' = signals + 1
    /\ sigInt' = [p \in {"TCP", "UDP"} |-> TRUE]
    /\ parent' = Woken(parent)
    /\ \/ udp' = Woken(udp) /\ UNCHANGED <<msg, left>>
       \/ udp = "wait" /\ udp' = "loop" /\ msg' = NoCode /\ left' = 0
    /\ \E woken \in SUBSET {c \in Conns : child[c] = "wait"} :
          child' = [c \in Conns |-> IF c \in woken THEN "exited" ELSE child[c]]
    /\ UNCHANGED <<cur, trials, held, row, inbox, semVars, netVars, faults, unset>>

-----------------------------------------------------------------------------
Next ==
    \/ \E c \in Conns : Connect(c) \/ Send(c) \/ ChildStep(c)
    \/ SendDatagram
    \/ ParentStep \/ AcceptFails \/ ConfigureFails \/ ForkFails
    \/ UdpStep \/ RecvfromFails
    \/ Interrupt

Spec == Init /\ [][Next]_vars

\* Every process goes on while it can.  Clients need not send anything, no
\* call has to fail, and a child's read does end by its timeout.  Who waits for
\* the semaphore goes on if it stays free: POSIX promises no more, another
\* process may take it first again and again.
Fairness == /\ WF_vars(ParentStep)
            /\ WF_vars(UdpStep)
            /\ \A c \in Conns : WF_vars(ChildStep(c))
FairSpec == Spec /\ Fairness

-----------------------------------------------------------------------------
(* Types.                                                                  *)

TypeOK ==
    /\ parent \in {"loop", "blocked", "failed", "configure", "fork", "close",
                   "exited"}
    /\ cur \in Conns \cup {NoConn}
    /\ trials \in 0 .. RetryMax
    /\ row \in Nat
    /\ held \subseteq Conns /\ connected \subseteq Conns
    /\ queue \in Seq(Conns)
    /\ child \in [Conns -> {"none", "read", "handle", "wait", "inside",
                          "exited"}]
    /\ udp \in {"loop", "blocked", "failed", "handle", "wait", "inside",
                "stopped", "crashed"}
    /\ inbox \in 0 .. InboxSize
    /\ msg \in Codes \cup {NoCode} /\ left \in 0 .. 2
    /\ sem \in 0 .. SemMax /\ leaked \in BOOLEAN
    /\ sigInt \in [{"TCP", "UDP"} -> BOOLEAN]
    /\ faults \in 0 .. MaxFaults /\ unset \in 0 .. MaxFaults
    /\ signals \in 0 .. MaxSignals

-----------------------------------------------------------------------------
(* Safety                                                                  *)

\* The parent keeps no descriptor of a connection it has handed over or given
\* up, but for one per setsockopt that failed: it can accept without end.
DescriptorsAccounted == Cardinality(held \ {cur}) = unset

\* The TCP server stops only on SIGINT or after EXCEPTION_RETRY_MAX failures
\* in a row: a connection it hands over in between makes up for those before.
StopsForAReason == parent = "exited" => sigInt["TCP"] \/ row >= RetryMax

\* A UDP message with an unknown code is answered, "ERR", and is not the end
\* of the process: the comment of WrongRequestUDP, handlers.cpp.
UdpSurvives == udp # "crashed"

-----------------------------------------------------------------------------
(* Progress                                                                *)

Closed(c) == /\ c \notin held /\ ~Contains(queue, c)
             /\ child[c] \in {"none", "exited"}

\* The semaphore is lost: an exception has passed its sem_post, and whoever
\* waits does so for ever, unless an LST posts it.
Inside == {c \in Conns : child[c] = "inside"}
Lost   == leaked /\ sem = 0 /\ Inside = {} /\ udp # "inside"

\* Every connection that is made is closed in the end, by its child or by the
\* parent, although its client may never send anything.  Four cases are left
\* out: a connection the parent has lost, DescriptorsAccounted says how; one
\* that is in the queue of a TCP server that has stopped; one whose child waits
\* for a semaphore that is lost; and a UDP process that takes the semaphore for
\* ever again, before the child.
ConnectionsEnd == \A c \in Conns :
    \/ c \in connected ~> \/ Closed(c)
                          \/ c \in held \ {cur}
                          \/ parent = "exited" /\ Contains(queue, c)
                          \/ child[c] = "wait" /\ Lost
    \/ []<>(udp = "inside")

\* A datagram is served in the end whatever the ones before it did, unless
\* SIGINT or an unknown code has stopped the process or it waits for a
\* semaphore that is lost.
DatagramsServed ==
    inbox > 0 ~> \/ udp = "handle" \/ sigInt["UDP"] \/ udp = "crashed"
                 \/ udp = "wait" /\ Lost

\* SIGINT ends the server (README.md: the global variable "will be evaluated
\* back on the normal program and will start a controlled close").
InterruptEnds == signals > 0 ~> parent = "exited" /\ UdpGone
=============================================================================
