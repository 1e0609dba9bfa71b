---------------------------- MODULE UdpTcpServer ----------------------------
(* udpcliserv/udpservselect01.c: one loop around select serves TCP clients,    *)
(* each with a child, and UDP clients by itself; sigchldwaitpid.c reaps the    *)
(* children.  A signal interrupts select on every system, and the blocking     *)
(* calls behind it only where it does not restart them.                        *)
EXTENDS Naturals, Sequences, FiniteSets, SequencesExt

CONSTANTS Conns,     \* bound: the TCP connections that clients make
          MaxDgrams  \* bound: the datagrams that clients send

VARIABLES
  restarts,  \* does a signal restart a blocked accept or recvfrom (SA_RESTART)
  client,    \* each TCP client: "idle", "talking", "through"
  queue,     \* connections that accept has not returned
  dgrams,    \* the datagrams in udpfd, by number
  sent,      \* datagrams sent by clients
  damaged,   \* those whose checksum is wrong, which only recvfrom sees
  pc,        \* "arm", "select", "errno", "tcp", "accept", "fork", "close", "udp",
             \* "recvfrom", "sendto"; "eintr" while a signal interrupts select;
             \* "err_sys", "failed"
  rset, connfd, mesg, errno,
  holds,     \* connections that the parent has open
  child,     \* the process for each connection: "none", "running", "zombie", "reaped"
  sigchld,   \* is SIGCHLD pending
  handler,   \* sig_chld: "out" or "reap"
  answered   \* the datagrams sent back

sockets  == <<client, queue, dgrams, sent, damaged>>
locals   == <<rset, connfd, mesg>>
children == <<holds, child>>
signals  == <<sigchld, handler>>
vars == <<restarts, sockets, pc, locals, errno, children, signals, answered>>

NoConn == "none"

Init ==
  /\ restarts \in BOOLEAN
  /\ client = [c \in Conns |-> "idle"] /\ queue = <<>>
  /\ dgrams = <<>> /\ sent = 0 /\ damaged = {}
  /\ pc = "arm" /\ rset = {} /\ connfd = NoConn /\ mesg = 0 /\ errno = "none"
  /\ holds = {} /\ child = [c \in Conns |-> "none"]
  /\ sigchld = FALSE /\ handler = "out" /\ answered = {}

-----------------------------------------------------------------------------
(* The clients and the network                                               *)

Connect(c) ==
  /\ pc # "failed" /\ client[c] = "idle" /\ client' = [client EXCEPT ![c] = "talking"]
  /\ queue' = Append(queue, c)
  /\ UNCHANGED <<restarts, dgrams, sent, damaged, pc, locals, errno, children, signals, answered>>

\* The end of a client: a RST takes its connection out of the queue.
Disconnect(c) ==
  /\ client[c] = "talking" /\ client' = [client EXCEPT ![c] = "through"]
  /\ \/ UNCHANGED queue
     \/ \E k \in DOMAIN queue : queue[k] = c /\ queue' = RemoveAt(queue, k)
  /\ UNCHANGED <<restarts, dgrams, sent, damaged, pc, locals, errno, children, signals, answered>>

\* A datagram may be damaged on its way.
Datagram ==
  /\ sent < MaxDgrams /\ sent' = sent + 1
  /\ dgrams' = Append(dgrams, sent') /\ damaged' \in {damaged, damaged \cup {sent'}}
  /\ UNCHANGED <<restarts, client, queue, pc, locals, errno, children, signals, answered>>

-----------------------------------------------------------------------------
(* The loop                                                                  *)

Main(place) == handler = "out" /\ pc = place

\* FD_SET of both: select leaves only what is ready in rset.
ArmedMutant == rset \cup {"listenfd"}
Armed       == rset \cup {"listenfd", "udpfd"}

Arm ==
  /\ Main("arm") /\ rset' = Armed /\ pc' = "select"
  /\ UNCHANGED <<restarts, sockets, connfd, mesg, errno, children, signals, answered>>

Ready == (IF queue # <<>> THEN {"listenfd"} ELSE {})
           \cup (IF dgrams # <<>> THEN {"udpfd"} ELSE {})

Select ==
  /\ Main("select") /\ rset \cap Ready # {}
  /\ rset' = rset \cap Ready /\ pc' = "tcp"
  /\ UNCHANGED <<restarts, sockets, connfd, mesg, errno, children, signals, answered>>

\* errno is set when the handler has returned, and read one step later.
SelectInterrupted ==
  /\ Main("eintr") /\ errno' = "EINTR" /\ pc' = "errno"
  /\ UNCHANGED <<restarts, sockets, locals, children, signals, answered>>

TestErrno ==
  /\ Main("errno") /\ pc' = IF errno = "EINTR" THEN "arm" ELSE "err_sys"
  /\ UNCHANGED <<restarts, sockets, locals, errno, children, signals, answered>>

\* The process ends; init reaps its children.
ErrSys ==
  /\ Main("err_sys") /\ pc' = "failed"
  /\ child' = [c \in Conns |-> IF child[c] = "zombie" THEN "reaped" ELSE child[c]]
  /\ holds' = {} /\ sigchld' = FALSE
  /\ UNCHANGED <<restarts, sockets, locals, errno, handler, answered>>

TestTcp ==
  /\ Main("tcp") /\ pc' = IF "listenfd" \in rset THEN "accept" ELSE "udp"
  /\ UNCHANGED <<restarts, sockets, locals, errno, children, signals, answered>>

\* Accept tries again after ECONNABORTED and blocks.
Accept ==
  /\ Main("accept") /\ queue # <<>>
  /\ connfd' = Head(queue) /\ queue' = Tail(queue)
  /\ holds' = holds \cup {Head(queue)} /\ pc' = "fork"
  /\ UNCHANGED <<restarts, client, dgrams, sent, damaged, rset, mesg, errno, child, signals, answered>>

Fork ==
  /\ Main("fork") /\ child' = [child EXCEPT ![connfd] = "running"] /\ pc' = "close"
  /\ UNCHANGED <<restarts, sockets, locals, errno, holds, signals, answered>>

CloseConnfdMutant == UNCHANGED holds
CloseConnfd       == holds' = holds \ {connfd}

Close ==
  /\ Main("close") /\ CloseConnfd /\ pc' = "udp"
  /\ UNCHANGED <<restarts, sockets, locals, errno, child, signals, answered>>

TestUdp ==
  /\ Main("udp") /\ pc' = IF "udpfd" \in rset THEN "recvfrom" ELSE "arm"
  /\ UNCHANGED <<restarts, sockets, locals, errno, children, signals, answered>>

\* The kernel drops a datagram with a wrong checksum and recvfrom goes on waiting.
Recvfrom ==
  /\ Main("recvfrom") /\ dgrams # <<>> /\ dgrams' = Tail(dgrams)
  /\ IF Head(dgrams) \in damaged THEN UNCHANGED <<mesg, pc>>
     ELSE mesg' = Head(dgrams) /\ pc' = "sendto"
  /\ UNCHANGED <<restarts, client, queue, sent, damaged, rset, connfd, errno, children,
                 signals, answered>>

Sendto ==
  /\ Main("sendto") /\ answered' = answered \cup {mesg} /\ pc' = "arm"
  /\ UNCHANGED <<restarts, sockets, locals, errno, children, signals>>

ServerStep ==
  \/ Arm \/ Select \/ SelectInterrupted \/ TestErrno \/ ErrSys \/ TestTcp \/ Accept
  \/ Fork \/ Close \/ TestUdp \/ Recvfrom \/ Sendto

-----------------------------------------------------------------------------
(* The children and their signal                                             *)

\* str_echo returns at the end of the connection.
StrEchoAndExit(c) ==
  /\ child[c] = "running" /\ client[c] = "through"
  /\ child' = [child EXCEPT ![c] = IF pc = "failed" THEN "reaped" ELSE "zombie"]
  /\ sigchld' = (sigchld \/ pc # "failed")
  /\ UNCHANGED <<restarts, sockets, pc, locals, errno, holds, handler, answered>>

Blocked == \/ pc = "select" /\ rset \cap Ready = {}
           \/ ~restarts /\ pc = "accept" /\ queue = <<>>
           \/ ~restarts /\ pc = "recvfrom" /\ dgrams = <<>>

\* Accept and Recvfrom are err_sys for EINTR.
Interrupted == Blocked /\ pc' = IF pc = "select" THEN "eintr" ELSE "err_sys"

Deliver ==
  /\ sigchld /\ handler = "out" /\ pc # "failed"
  /\ sigchld' = FALSE /\ handler' = "reap"
  /\ Interrupted \/ UNCHANGED pc
  /\ UNCHANGED <<restarts, sockets, locals, errno, children, answered>>

Are(state) == {c \in Conns : child[c] = state}

\* while (waitpid(-1, &stat, WNOHANG) > 0)
CallsAgainMutant == FALSE
CallsAgain       == TRUE

SigChldReaps ==
  /\ handler = "reap"
  /\ \E c \in Are("zombie") : child' = [child EXCEPT ![c] = "reaped"]
  /\ handler' = IF CallsAgain THEN "reap" ELSE "out"
  /\ UNCHANGED <<restarts, sockets, pc, locals, errno, holds, sigchld, answered>>

\* waitpid returns 0 while a child runs, and -1 with ECHILD without any.
SigChldReturns ==
  /\ handler = "reap" /\ Are("zombie") = {} /\ handler' = "out"
  /\ errno' = IF Are("running") = {} THEN "ECHILD" ELSE errno
  /\ UNCHANGED <<restarts, sockets, pc, locals, children, sigchld, answered>>

HandlerStep == Deliver \/ SigChldReaps \/ SigChldReturns

-----------------------------------------------------------------------------
Next ==
  \/ ServerStep \/ HandlerStep \/ Datagram
  \/ \E c \in Conns : Connect(c) \/ Disconnect(c) \/ StrEchoAndExit(c)

Spec == Init /\ [][Next]_vars

\* The server and its children are scheduled; nothing is asked of the clients.
FairSpec ==
  /\ Spec /\ WF_vars(ServerStep) /\ WF_vars(HandlerStep)
  /\ \A c \in Conns : WF_vars(StrEchoAndExit(c))

-----------------------------------------------------------------------------
(* Properties                                                                *)

Dgrams == 1 .. MaxDgrams

TypeOK ==
  /\ restarts \in BOOLEAN
  /\ client \in [Conns -> {"idle", "talking", "through"}]
  /\ queue \in Seq(Conns) /\ dgrams \in Seq(Dgrams) /\ sent \in 0 .. MaxDgrams
  /\ pc \in {"arm", "select", "eintr", "errno", "tcp", "accept", "fork", "close", "udp",
            "recvfrom", "sendto", "err_sys", "failed"}
  /\ rset \subseteq {"listenfd", "udpfd"} /\ connfd \in Conns \cup {NoConn}
  /\ mesg \in Dgrams \cup {0} /\ errno \in {"none", "EINTR", "ECHILD"}
  /\ holds \subseteq Conns
  /\ child \in [Conns -> {"none", "running", "zombie", "reaped"}]
  /\ sigchld \in BOOLEAN /\ handler \in {"out", "reap"}
  /\ damaged \cup answered \subseteq Dgrams

\* select said that there was something, and it has gone since.
StuckInAccept   == pc = "accept" /\ queue = <<>>
StuckInRecvfrom == pc = "recvfrom" /\ dgrams = <<>>
Stopped == StuckInAccept \/ StuckInRecvfrom \/ pc \in {"err_sys", "failed"}

\* The loop stops only for these: a connection that left the queue, a datagram
\* that was dropped, a call that the system does not restart, or errno overwritten
\* by the last of several children (lines 49-53).  No zombie is forgotten.
StopsOnlyFor ==
  /\ TypeOK
  /\ StuckInAccept => \E c \in Conns : client[c] = "through" /\ child[c] = "none"
  /\ StuckInRecvfrom => damaged # {}
  /\ pc \in {"err_sys", "failed"} /\ restarts => Cardinality(Are("reaped")) >= 2
  /\ Are("zombie") # {} => sigchld \/ handler = "reap"

\* The server has no part of the connection any more.
Over(c) == c \notin Range(queue) \cup holds /\ child[c] # "running"

\* Neither service keeps the other waiting: whatever the clients do, there is a
\* time when every intact datagram has been answered and every client that is
\* through has got the end of its connection, unless the loop stops.
NobodyWaits ==
  /\ 1 .. sent \subseteq answered \cup damaged
  /\ \A c \in Conns : client[c] = "through" => Over(c)
BothServed == []<>(NobodyWaits \/ Stopped)
==============================================================================
