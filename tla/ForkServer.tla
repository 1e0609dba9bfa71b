------------------------------ MODULE ForkServer ------------------------------
(* The concurrent servers that fork a child for every connection, and the      *)
(* SIGCHLD handlers that reap those children.  version is the program:         *)
(*   tcpserv01 .. tcpserv04  tcpcliserv/, with sigchldwait.o in 02 and 03 and  *)
(*                           sigchldwaitpid.o in 04                            *)
(*   serv01, unixstrserv01   server/ and unixdomain/                           *)
(*   tcpsrv01, 02 and 04     my-src/Chapter-05; accept is not checked in 01, 02 *)
(*   unix_str_srv01          my-src/Chapter-15, with a wait in its own handler *)
(*   paradigm1               my-src/Chapter-30/Paradigm-1                      *)
EXTENDS Naturals, Sequences, FiniteSets

CONSTANTS Conns,       \* bound: the connections that clients make
          MaxForks     \* bound: process identifiers of children, 1 .. MaxForks

ASSUME ConnsAssumption == IsFiniteSet(Conns) /\ 0 \notin Conns
ASSUME MaxForksAssumption == MaxForks \in Nat /\ MaxForks > Cardinality(Conns)

VARIABLES
  version,     \* the program
  interrupts,  \* what a signal does to a blocked accept: "restart" or "EINTR"
  client,      \* each client: "idle", "talking", "finished" (FIN) or "reset" (RST)
  queue,       \* connections that accept has not returned yet
  listeners,   \* the processes that hold listenfd, the parent being 0
  holders,     \* the processes that hold a descriptor of each connection
  pc,          \* the parent: in accept, at the test of its value, at Fork, at Close;
               \* "eintr" while a signal interrupts accept; "failed" or "exited"
  connfd,      \* the parent's connfd, 0 for -1
  errno,       \* the parent's errno
  cause,       \* why accept returned -1, "none" when it did not
  child,       \* each child: "none", "forked", "serving", "zombie" or "reaped"
  served,      \* the child's copy of connfd
  handler,     \* sig_chld: "out" or "reap"
  pending      \* {"SIGCHLD"} from a child's end to the delivery of the signal

parent   == <<pc, connfd, errno, cause>>
children == <<child, served>>
sockets  == <<queue, listeners, holders>>
signals  == <<handler, pending>>
fixed    == <<version, interrupts>>
vars == <<fixed, client, sockets, parent, children, signals>>

Pids    == 1 .. MaxForks
Parent  == 0
Waits   == {"tcpserv02", "tcpserv03", "unix_str_srv01"}    \* sigchldwait.c
Loops   == {"tcpserv04", "serv01", "unixstrserv01",         \* sigchldwaitpid.c
            "tcpsrv02", "tcpsrv04", "paradigm1"}
Ignores == {"tcpserv01", "tcpsrv01"}     \* no handler for SIGCHLD

Wraps     == {"tcpserv01", "tcpserv02"}    \* Accept, which retries ECONNABORTED
Unchecked == {"tcpsrv01", "tcpsrv02"}      \* accept, whatever it returns
Versions  == Waits \union Loops \union Ignores
Retries   == Versions \ (Wraps \union Unchecked)   \* accept, and continue on EINTR

Init ==
  /\ version \in Versions
  /\ interrupts \in {"restart", "EINTR"}
  /\ client = [c \in Conns |-> "idle"]
  /\ queue = <<>> /\ listeners = {Parent} /\ holders = [c \in Conns |-> {}]
  /\ pc = "accept" /\ connfd = 0 /\ errno = "none" /\ cause = "none"
  /\ child = [p \in Pids |-> "none"] /\ served = [p \in Pids |-> 0]
  /\ handler = "out" /\ pending = {}

Zombies  == {p \in Pids : child[p] = "zombie"}
Running  == {p \in Pids : child[p] \in {"forked", "serving"}}
Alive    == pc \notin {"failed", "exited"}
Main(at) == handler = "out" /\ pc = at

\* The kernel closes what process p held; no listener left resets the queue.
CloseAllOf(p) ==
  /\ holders' = [c \in Conns |-> holders[c] \ {p}]
  /\ listeners' = listeners \ {p}
  /\ queue' = IF listeners' = {} THEN <<>> ELSE queue

\* The server has closed the connection, or it was reset in the queue.
Over(c) == /\ client[c] # "idle"
           /\ holders[c] = {}
           /\ \A i \in 1 .. Len(queue) : queue[i] # c

-----------------------------------------------------------------------------
(* The clients                                                               *)

Connect(c) ==
  /\ client[c] = "idle" /\ listeners # {}
  /\ client' = [client EXCEPT ![c] = "talking"]
  /\ queue' = Append(queue, c)
  /\ UNCHANGED <<fixed, listeners, holders, parent, children, signals>>

\* The client closes, or its process or its host ends it with a RST.
Disconnect(c) ==
  /\ client[c] = "talking"
  /\ \E how \in {"finished", "reset"} : client' = [client EXCEPT ![c] = how]
  /\ UNCHANGED <<fixed, sockets, parent, children, signals>>

-----------------------------------------------------------------------------
(* The parent's loop                                                         *)

Accept ==
  /\ Main("accept") /\ queue # <<>>
  /\ connfd' = Head(queue) /\ queue' = Tail(queue)
  /\ holders' = [holders EXCEPT ![Head(queue)] = {Parent}]
  /\ pc' = "fork"
  /\ UNCHANGED <<fixed, client, listeners, errno, cause, children, signals>>

\* A connection reset in the queue may make accept fail, as in POSIX.
AcceptAborted ==
  /\ Main("accept") /\ queue # <<>> /\ client[Head(queue)] = "reset"
  /\ queue' = Tail(queue)
  /\ pc' = "test" /\ errno' = "ECONNABORTED" /\ cause' = "ECONNABORTED"
  /\ UNCHANGED <<fixed, client, listeners, holders, connfd, children, signals>>

AcceptInterrupted ==
  /\ Main("eintr")
  /\ pc' = "test" /\ errno' = "EINTR" /\ cause' = "EINTR"
  /\ UNCHANGED <<fixed, client, sockets, connfd, children, signals>>

\* The parent ends: init is the parent of its children from now on.
EndParent(how) ==
  /\ pc' = how
  /\ child' = [p \in Pids |-> IF child[p] = "zombie" THEN "reaped" ELSE child[p]]
  /\ handler' = "out" /\ pending' = {}
  /\ CloseAllOf(Parent)
  /\ UNCHANGED <<fixed, client, connfd, errno, served>>

TriesAgain == \/ version \in Wraps /\ errno = "ECONNABORTED"
              \/ version \in Retries /\ errno = "EINTR"

TestErrno ==
  /\ Main("test") /\ TriesAgain
  /\ pc' = "accept" /\ cause' = "none"
  /\ UNCHANGED <<fixed, client, sockets, connfd, errno, children, signals>>

ErrSys ==
  /\ Main("test") /\ ~TriesAgain
  /\ EndParent("failed")
  /\ UNCHANGED cause

NoTest ==
  /\ Main("test")
  /\ connfd' = 0 /\ cause' = "none" /\ pc' = "fork"
  /\ UNCHANGED <<fixed, client, sockets, errno, children, signals>>

\* The child has a copy of every descriptor of the parent.
Fork ==
  /\ Main("fork")
  /\ \E p \in Pids :
       /\ child[p] = "none" /\ \A q \in Pids : child[q] = "none" => p <= q
       /\ child' = [child EXCEPT ![p] = "forked"]
       /\ served' = [served EXCEPT ![p] = connfd]
       /\ listeners' = listeners \union {p}
       /\ holders' = [c \in Conns |-> holders[c] \union
                                        (IF Parent \in holders[c] THEN {p} ELSE {})]
  /\ pc' = "close"
  /\ UNCHANGED <<fixed, client, queue, connfd, errno, cause, signals>>

ForkFails == Main("fork") /\ EndParent("failed") /\ UNCHANGED cause

CloseConnfdMutant == UNCHANGED holders
CloseConnfd == holders' = [holders EXCEPT ![connfd] = @ \ {Parent}]

Close ==
  /\ Main("close") /\ connfd # 0
  /\ CloseConnfd
  /\ pc' = "accept"
  /\ UNCHANGED <<fixed, client, queue, listeners, connfd, errno, cause, children, signals>>

CloseFails == Main("close") /\ connfd = 0 /\ EndParent("failed") /\ UNCHANGED cause

\* SIGINT ends the parent wherever it is; serv01 prints its times first.
SigInt == Alive /\ EndParent("exited") /\ UNCHANGED cause

-----------------------------------------------------------------------------
(* The children                                                              *)

CloseListenfd(p) ==
  /\ child[p] = "forked"
  /\ child' = [child EXCEPT ![p] = "serving"]
  /\ listeners' = listeners \ {p}
  /\ queue' = IF listeners' = {} THEN <<>> ELSE queue
  /\ UNCHANGED <<fixed, client, holders, parent, served, signals>>

\* str_echo returns at the end of the connection, or fails on connfd -1.
StrEchoAndExit(p) ==
  /\ child[p] = "serving"
  /\ served[p] # 0 => client[served[p]] # "talking"
  /\ CloseAllOf(p)
  /\ child' = [child EXCEPT ![p] = IF Alive THEN "zombie" ELSE "reaped"]
  /\ pending' = IF Alive /\ version \notin Ignores THEN {"SIGCHLD"} ELSE pending
  /\ UNCHANGED <<fixed, client, parent, served, handler>>

-----------------------------------------------------------------------------
(* The signal.  It may find the parent before accept or blocked in it.       *)

Deliver ==
  /\ Alive /\ handler = "out" /\ pending # {}
  /\ handler' = "reap" /\ pending' = {}
  /\ \/ UNCHANGED pc
     \/ /\ pc = "accept" /\ queue = <<>> /\ interrupts = "EINTR"
        /\ pc' = "eintr"
  /\ UNCHANGED <<fixed, client, sockets, connfd, errno, cause, children>>

\* if for while, and while (wait(&stat) > 0)
CallsAgainMutant    == FALSE
CallsAgainMutantAll == TRUE
CallsAgain          == version \in Loops

SigChldReaps(p) ==
  /\ handler = "reap" /\ child[p] = "zombie"
  /\ child' = [child EXCEPT ![p] = "reaped"]
  /\ handler' = IF CallsAgain THEN "reap" ELSE "out"
  /\ UNCHANGED <<fixed, client, sockets, parent, served, pending>>

\* WNOHANG: waitpid returns 0, or -1 and ECHILD without any child; wait blocks
\* as long as there is one.
SigChldFindsNone ==
  /\ handler = "reap" /\ Zombies = {}
  /\ version \in Waits => Running = {}
  /\ errno' = IF Running = {} THEN "ECHILD" ELSE errno
  /\ handler' = "out"
  /\ UNCHANGED <<fixed, client, sockets, pc, connfd, cause, children, pending>>

-----------------------------------------------------------------------------
(* Each server's own process                                                 *)

\* accept returns a connection, or it is interrupted, or a connection is gone.
Accepts == Accept \/ AcceptAborted \/ AcceptInterrupted
\* The child is made for the connection, which the parent closes then.
Forks   == Fork \/ ForkFails \/ Close

Tcpserv01 == version = "tcpserv01" /\ (Accepts \/ TestErrno \/ ErrSys \/ Forks)
Tcpserv02 == version = "tcpserv02" /\ (Accepts \/ TestErrno \/ ErrSys \/ Forks)
Tcpserv03 == version = "tcpserv03" /\ (Accepts \/ TestErrno \/ ErrSys \/ Forks)
Tcpserv04 == version = "tcpserv04" /\ (Accepts \/ TestErrno \/ ErrSys \/ Forks)
Serv01    == version = "serv01" /\ (Accepts \/ TestErrno \/ ErrSys \/ Forks)
Paradigm1 == version = "paradigm1" /\ (Accepts \/ TestErrno \/ ErrSys \/ Forks)
Tcpsrv04  == version = "tcpsrv04" /\ (Accepts \/ TestErrno \/ ErrSys \/ Forks)

Unixstrserv01  == version = "unixstrserv01" /\ (Accepts \/ TestErrno \/ ErrSys \/ Forks)
Unix_str_srv01 == version = "unix_str_srv01" /\ (Accepts \/ TestErrno \/ ErrSys \/ Forks)

Tcpsrv01 == version = "tcpsrv01" /\ (Accepts \/ NoTest \/ Forks \/ CloseFails)
Tcpsrv02 == version = "tcpsrv02" /\ (Accepts \/ NoTest \/ Forks \/ CloseFails)

ParentStep ==
  \/ Tcpserv01 \/ Tcpserv02 \/ Tcpserv03 \/ Tcpserv04 \/ Serv01 \/ Paradigm1
  \/ Tcpsrv01 \/ Tcpsrv02 \/ Tcpsrv04 \/ Unixstrserv01 \/ Unix_str_srv01
HandlerStep == (\E p \in Pids : SigChldReaps(p)) \/ SigChldFindsNone

Next ==
  \/ ParentStep \/ HandlerStep \/ Deliver \/ SigInt
  \/ \E c \in Conns : Connect(c) \/ Disconnect(c)
  \/ \E p \in Pids : CloseListenfd(p) \/ StrEchoAndExit(p)

Spec == Init /\ [][Next]_vars

\* The system runs every process that can run and delivers a pending signal;
\* nothing is assumed of the clients or of SIGINT.
Fairness ==
  /\ WF_vars(ParentStep) /\ WF_vars(HandlerStep) /\ WF_vars(Deliver)
  /\ \A p \in Pids : WF_vars(CloseListenfd(p)) /\ WF_vars(StrEchoAndExit(p))
FairSpec == Spec /\ Fairness

-----------------------------------------------------------------------------
TypeOK ==
  /\ version \in Versions
  /\ interrupts \in {"restart", "EINTR"}
  /\ client \in [Conns -> {"idle", "talking", "finished", "reset"}]
  /\ queue \in Seq(Conns)
  /\ listeners \subseteq Pids \union {Parent}
  /\ holders \in [Conns -> SUBSET (Pids \union {Parent})]
  /\ pc \in {"accept", "eintr", "test", "fork", "close", "failed", "exited"}
  /\ connfd \in Conns \union {0}
  /\ errno \in {"none", "EINTR", "ECONNABORTED", "ECHILD"}
  /\ cause \in {"none", "EINTR", "ECONNABORTED"}
  /\ child \in [Pids -> {"none", "forked", "serving", "zombie", "reaped"}]
  /\ served \in [Pids -> Conns \union {0}]
  /\ handler \in {"out", "reap"} /\ pending \subseteq {"SIGCHLD"}

\* sig_chld of sigchldwaitpid.c leaves no zombie that is not announced by a
\* signal still to come, although a signal may stand for several ends.
ZombiesAnnounced ==
  version \in Loops /\ Zombies # {} => pending # {} \/ handler = "reap"

\* wait in sig_chld of sigchldwait.c never blocks the server: there is a zombie
\* for it, and another for a signal that is pending behind it.
WaitFindsZombie ==
  version \in Waits => Cardinality(Zombies) >= Cardinality(pending)
                                                 + (IF handler = "reap" THEN 1 ELSE 0)

\* A connection whose client is through ends at the server too: it is accepted
\* and every process that has its descriptor closes it, or the last process that
\* listens is gone.
Concluded ==
  \A c \in Conns : client[c] \in {"finished", "reset"} ~> Over(c)

\* An accept interrupted by SIGCHLD is called again (the comment in tcpsrv04.c).
\* It is not when another SIGCHLD comes between accept and the test of errno,
\* finds no child left and leaves ECHILD there.
EintrIsRetried ==
  pc = "failed" /\ version \in Retries => cause # "EINTR"
=============================================================================
