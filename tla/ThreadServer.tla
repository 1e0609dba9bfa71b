----------------------------- MODULE ThreadServer -----------------------------
(* A thread per connection: server/serv06.c with web_child, for client.c and   *)
(* clientrst.c; threads/tcpserv01.c and tcpserv02.c with str_echo, for clients *)
(* that echo a few lines over one connection.  The threads share a process:    *)
(* what err_quit, err_sys or SIGPIPE ends, ends for every client.              *)
EXTENDS Naturals, FiniteSets

CONSTANTS MaxChildren, \* bound: the client's processes
          MaxLoops,    \* bound: requests of each
          MaxRequests, \* bound: of all
          Third,       \* the child that resets, i == 2 in clientrst.c
          Pieces,      \* of a reply, written and read one by one
          MaxKills     \* bound: children that a user kills

VARIABLES
  version,    \* "serv06", or "tcpserv" for tcpserv01 and tcpserv02, whose steps are the same
  client,     \* "client", "clientrst", "tcpcli"
  nchildren, nloops,
  nbytes,     \* asked for: "valid", or "over" MAXN
  child,      \* of each: "connect", "write", "read", "close", "linger", "done", ...
  loops,      \* replies that it got
  resets,     \* connections that the third child has reset
  made,       \* connections made, which are numbered
  ofChild,    \* of each connection: its child
  queue,      \* the connections that accept has not returned yet
  request, reply,     \* under way, in each connection
  peer,       \* "open", "fin", "rst": the client's end as the server sees it
  main,       \* "accept", "create"
  cell,       \* *iptr, or the argument itself
  created,    \* connections that accept returned, and so threads
  thread,     \* of each: "none", "start", "read", "write", "close", "ended"
  connfd,     \* of each thread
  towrite,    \* pieces left of its reply
  closed,     \* descriptors that the server has closed
  server,     \* "running", "ended"
  kills,      \* children killed
  forgotten   \* reset connections that accept did not return

clients == <<child, loops, resets, kills>>
network == <<made, ofChild, request, reply, peer>>
threads == <<thread, connfd, towrite, closed>>
listen  == <<main, cell, created, queue, forgotten>>
fixed   == <<version, client, nchildren, nloops, nbytes>>
vars == <<fixed, clients, network, threads, listen, server>>

Children == 1 .. nchildren
MaxResets == (MaxLoops + 2) \div 3     \* every third connection of one child
MaxConns == MaxRequests + MaxResets
Conns    == 1 .. MaxConns

OneConnection == client = "tcpcli"     \* for all requests
Reply == IF version = "serv06" THEN Pieces ELSE 1

Init ==
  /\ \/ version = "serv06" /\ client \in {"client", "clientrst"} /\ nbytes \in {"valid", "over"}
     \/ version = "tcpserv" /\ client = "tcpcli" /\ nbytes = "valid"
  /\ nchildren \in 1 .. MaxChildren /\ nloops \in 1 .. MaxLoops
  /\ nchildren * nloops <= MaxRequests
  /\ child = [i \in Children |-> "connect"] /\ loops = [i \in Children |-> 0]
  /\ resets = 0 /\ kills = 0 /\ forgotten = {}
  /\ made = 0 /\ ofChild = [c \in Conns |-> 0] /\ queue = {}
  /\ request = [c \in Conns |-> 0] /\ reply = [c \in Conns |-> 0]
  /\ peer = [c \in Conns |-> "open"]
  /\ main = "accept" /\ cell = [k \in Conns |-> 0] /\ created = 0
  /\ thread = [k \in Conns |-> "none"] /\ connfd = [k \in Conns |-> 0]
  /\ towrite = [k \in Conns |-> 0] /\ closed = {}
  /\ server = "running"

Set(f, x, v) == [f EXCEPT ![x] = v]

\* What ends the server's process closes every connection.
EndServer == server' = "ended"

-----------------------------------------------------------------------------
(* The server                                                                *)

Up == server = "running"

\* tcpserv02 allocates the cell that the thread is given; the others pass connfd.
NewCellMutant == 1
NewCell == created + 1

\* Accept tries again after ECONNABORTED; or the kernel has forgotten the
\* connection that was reset, or returns it.
Accept ==
  /\ Up /\ main = "accept"
  /\ \E c \in queue :
       /\ queue' = queue \ {c}
       /\ \/ /\ main' = "create" /\ cell' = Set(cell, NewCell, c) /\ UNCHANGED forgotten
          \/ /\ peer[c] = "rst"
             /\ forgotten' = forgotten \union {c} /\ UNCHANGED <<main, cell>>
  /\ UNCHANGED <<fixed, clients, network, threads, created, server>>

\* Pthread_create
Create ==
  /\ Up /\ main = "create" /\ main' = "accept"
  /\ created' = created + 1
  /\ thread' = Set(thread, created', "start")
  /\ UNCHANGED <<fixed, clients, network, connfd, towrite, closed, cell, queue,
                 forgotten, server>>

CellOf(k) == k

\* doit: the argument is read, the cell freed, the thread detached.
Doit(k) ==
  /\ Up /\ thread[k] = "start"
  /\ thread' = Set(thread, k, "read")
  /\ connfd' = Set(connfd, k, cell[CellOf(k)])
  /\ UNCHANGED <<fixed, clients, network, towrite, closed, listen, server>>

\* Readline or read: a request, end of file, or the error of a reset.  web_child
\* ends the process if the request is out of range.
ReadRequest(k) ==
  /\ Up /\ thread[k] = "read"
  /\ LET c == connfd[k]
     IN  \/ /\ peer[c] # "rst" /\ request[c] > 0
            /\ request' = Set(request, c, request[c] - 1)
            /\ IF nbytes = "over"
               THEN EndServer /\ UNCHANGED <<thread, towrite>>
               ELSE /\ towrite' = Set(towrite, k, Reply)
                    /\ thread' = Set(thread, k, "write") /\ UNCHANGED server
         \/ /\ peer[c] = "fin" /\ request[c] = 0
            /\ thread' = Set(thread, k, "close") /\ UNCHANGED <<request, towrite, server>>
         \/ /\ peer[c] = "rst"
            /\ EndServer /\ UNCHANGED <<thread, request, towrite>>
  /\ UNCHANGED <<fixed, clients, made, ofChild, reply, peer, connfd, closed, listen>>

WrittenAllMutant(k) == TRUE
WrittenAll(k) == towrite[k] = 1

\* Writen: a client that is gone answers with a reset, and after that SIGPIPE
\* ends the process.
WritePiece(k) ==
  /\ Up /\ thread[k] = "write"
  /\ LET c == connfd[k]
     IN  IF peer[c] = "rst" THEN EndServer /\ UNCHANGED <<thread, towrite, reply, peer>>
         ELSE /\ towrite' = Set(towrite, k, towrite[k] - 1)
              /\ thread' = Set(thread, k, IF WrittenAll(k) THEN "read" ELSE "write")
              /\ IF peer[c] = "open"
                 THEN reply' = Set(reply, c, reply[c] + 1) /\ UNCHANGED peer
                 ELSE peer' = Set(peer, c, "rst") /\ UNCHANGED reply
              /\ UNCHANGED server
  /\ UNCHANGED <<fixed, clients, made, ofChild, request, connfd, closed, listen>>

Close(k) ==
  /\ Up /\ thread[k] = "close"
  /\ thread' = Set(thread, k, "ended")
  /\ closed' = closed \union {connfd[k]}
  /\ UNCHANGED <<fixed, clients, network, connfd, towrite, listen, server>>

Thread(k) == Doit(k) \/ ReadRequest(k) \/ WritePiece(k) \/ Close(k)

-----------------------------------------------------------------------------
(* The clients                                                               *)

Conn(i) == CHOOSE c \in 1 .. made : ofChild[c] = i /\ \A d \in c + 1 .. made : ofChild[d] # i

\* clientrst: every third connection of the third child is reset first.
ResetsFirst(i) ==
  client = "clientrst" /\ i = Third /\ loops[i] % 3 = 0 /\ resets = loops[i] \div 3

\* Tcp_connect; no server is an error.
Connect(i) ==
  /\ child[i] = "connect"
  /\ IF Up
     THEN /\ made' = made + 1 /\ ofChild' = Set(ofChild, made', i)
          /\ queue' = queue \union {made'}
          /\ child' = Set(child, i, IF ResetsFirst(i) THEN "linger" ELSE "write")
     ELSE child' = Set(child, i, "failed") /\ UNCHANGED <<made, ofChild, queue>>
  /\ UNCHANGED <<fixed, loops, resets, kills, request, reply, peer, threads, main, cell,
                 created, forgotten, server>>

\* SO_LINGER with 0, and Close
Linger(i) ==
  /\ child[i] = "linger" /\ child' = Set(child, i, "connect")
  /\ peer' = Set(peer, Conn(i), "rst") /\ resets' = resets + 1
  /\ UNCHANGED <<fixed, loops, kills, made, ofChild, request, reply, threads, listen,
                 server>>

\* Write; a server that has gone is noticed here, by SIGPIPE, or by the read.
Write(i) ==
  /\ child[i] = "write"
  /\ \/ /\ child' = Set(child, i, "read")
        /\ request' = Set(request, Conn(i), request[Conn(i)] + 1)
     \/ ~Up /\ child' = Set(child, i, "failed") /\ UNCHANGED request
  /\ UNCHANGED <<fixed, loops, resets, kills, made, ofChild, reply, peer, threads, listen,
                 server>>

\* Readn of nbytes, or Readline of the echo; or less, when the server has gone.
Readn(i) ==
  /\ child[i] = "read"
  /\ LET c == Conn(i)
     IN  \/ /\ reply[c] = Reply
            /\ reply' = Set(reply, c, 0) /\ loops' = Set(loops, i, loops[i] + 1)
            /\ child' = Set(child, i, IF OneConnection /\ loops'[i] < nloops
                                      THEN "write" ELSE "close")
         \/ /\ reply[c] < Reply /\ (~Up \/ c \in closed)
            /\ child' = Set(child, i, "failed") /\ UNCHANGED <<reply, loops>>
  /\ UNCHANGED <<fixed, resets, kills, made, ofChild, request, peer, threads, listen, server>>

ClientClose(i) ==
  /\ child[i] = "close"
  /\ peer' = Set(peer, Conn(i), "fin")
  /\ child' = Set(child, i, IF loops[i] < nloops THEN "connect" ELSE "done")
  /\ UNCHANGED <<fixed, loops, resets, kills, made, ofChild, request, reply, threads, listen,
                 server>>

\* A reply not read makes the kernel reset the connection.
Kill(i) ==
  /\ child[i] \in {"write", "read", "close"} /\ kills < MaxKills
  /\ kills' = kills + 1 /\ child' = Set(child, i, "killed")
  /\ peer' = Set(peer, Conn(i), IF reply[Conn(i)] > 0 THEN "rst" ELSE "fin")
  /\ UNCHANGED <<fixed, loops, resets, made, ofChild, request, reply, threads, listen, server>>

Child(i) == Connect(i) \/ Linger(i) \/ Write(i) \/ Readn(i) \/ ClientClose(i)

-----------------------------------------------------------------------------
Next ==
  \/ Accept \/ Create
  \/ \E k \in 1 .. created : Thread(k)
  \/ \E i \in Children : Child(i) \/ Kill(i)

Spec == Init /\ [][Next]_vars

\* Main, the threads and the clients are scheduled.
FairSpec ==
  /\ Spec /\ WF_vars(Accept \/ Create)
  /\ \A k \in Conns : WF_vars(k <= created /\ Thread(k))
  /\ \A i \in 1 .. MaxChildren : WF_vars(i \in Children /\ Child(i))

-----------------------------------------------------------------------------
(* Properties                                                                *)

TypeOK ==
  /\ created \in 0 .. MaxConns /\ made \in 0 .. MaxConns
  /\ closed \subseteq 1 .. made /\ queue \subseteq 1 .. made
  /\ \A k \in Conns : (thread[k] = "none") = (k > created)

Serving(c) == {k \in 1 .. created : thread[k] \notin {"start", "ended"} /\ connfd[k] = c}
HandedTo(c) == {k \in 1 .. created : thread[k] = "start" /\ cell[CellOf(k)] = c}

\* threads/tcpserv02.c:24-42, tcpserv01.c:25, serv06.c:28: the descriptor that
\* accept returned reaches one thread, which closes it once, whatever main accepts
\* before the thread reads its argument.
OneThreadEach ==
  \A c \in 1 .. made :
    LET one(b) == IF b THEN 1 ELSE 0
    IN  Cardinality(Serving(c)) + Cardinality(HandedTo(c)) + one(c \in closed)
        + one(c \in queue) + one(c \in forgotten)
        + one(main = "create" /\ cell[NewCell] = c) = 1

\* server/client.c:29: a child gets fewer bytes than it asked for only from a
\* server that has ended, and the server ends only because of a request out of
\* range, a child that was killed, or a reset connection that accept returned: one
\* client ends the service of all (server/web_child.c:18-19, readline.c:21-22).
ShortOnlyAtTheEnd ==
  /\ \A i \in Children : child[i] = "failed" => ~Up
  /\ ~Up => \/ nbytes = "over" \/ kills > 0
            \/ \E c \in 1 .. made : peer[c] = "rst" /\ c \notin forgotten \union queue

ThreadsServe == TypeOK /\ OneThreadEach /\ ShortOnlyAtTheEnd

\* client.c:40: every child ends, so that the parent does; and while the server
\* runs it closes what the children have closed.
AllEnded ==
  /\ \A i \in Children : child[i] \in {"done", "failed", "killed"}
  /\ Up => \A k \in 1 .. created : connfd[k] \in closed
=============================================================================
