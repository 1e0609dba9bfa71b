------------------------------ MODULE MuxServer ------------------------------
(* One process that echoes to many clients: tcpcliserv/tcpservselect01.c with   *)
(* select, tcpservpoll01.c with poll, and two of their variants:                *)
(* nonblock/tcpservselect03.c reads with Readline and its process-wide buffer   *)
(* (lib/readline.c), my-src/Chapter-06/tcpsrvpoll01.c has its own scan.         *)
(* Slot s stands for client[s] of the select servers and client[s + 1] of the   *)
(* poll servers, whose client[0] is the listening socket.                       *)
EXTENDS Integers, FiniteSets, Sequences, SequencesExt, FiniteSetsExt

CONSTANTS Versions,     \* the programs: "select01", "select03", "poll01", "mypoll01"
          Clients,      \* the connections made to the server
          MaxUnits,     \* bound: units of data the clients send; two make a line
          FD_SETSIZE,   \* slots of client[], and 1 + the largest bit of an fd_set
          OpenMax       \* the largest descriptor the process may have

ASSUME SizeAssumption == FD_SETSIZE \in Nat \ {0} /\ OpenMax \in Nat
ASSUME VersionAssumption == Versions \subseteq {"select01", "select03", "poll01", "mypoll01"}

VARIABLES
  version,   \* which program runs
  server,    \* "select", "accept", "scan", "read", "write", "undefined", "exited"
  i,         \* the slot being looked at
  client, maxi, maxfd, allset, rset, nready,
  revents,   \* poll: the slots whose revents has an event
  line,      \* what the last read returned: buf in select01, line in select03
  read_buf,  \* the unread part of readline's static buffer
  conn,      \* the connection of each open descriptor
  backlog,   \* connections the kernel has completed and nobody has accepted
  state,     \* of each connection: "none", "queued", "accepted", "closed"
  peer,      \* what its client did last: "open", "fin", "rst"
  received,  \* what the kernel holds for the server to read
  nsent, echoed

table  == <<client, maxi, maxfd, allset, conn>>
loop   == <<i, rset, nready, revents>>
data   == <<line, read_buf>>
net    == <<version, backlog, state, peer, nsent>>
vars   == <<server, table, loop, data, net, received, echoed>>

Slots    == 0 .. FD_SETSIZE - 1
Fds      == 1 .. OpenMax
listenfd == 0
None     == "none"
ASSUME NoneAssumption == None \notin Clients
Total(f) == MapThenSumSet(LAMBDA c : f[c], Clients)
Eol(u)   == u.k % 2 = 0

Poll     == version \in {"poll01", "mypoll01"}

\* client[] of the poll servers is not initialised, but for fd.
Init ==
  /\ version \in Versions
  /\ server = "select" /\ i = 0
  /\ client = [s \in Slots |-> -1]
  /\ maxi = -1 /\ maxfd = listenfd
  /\ allset = {listenfd} /\ rset = {} /\ nready = 0
  /\ revents \in IF Poll THEN SUBSET Slots ELSE {{}}
  /\ line = <<>> /\ read_buf = <<>>
  /\ conn = [f \in Fds |-> None]
  /\ backlog = <<>>
  /\ state = [c \in Clients |-> "none"] /\ peer = [c \in Clients |-> "open"]
  /\ received = [c \in Clients |-> <<>>]
  /\ nsent = [c \in Clients |-> 0] /\ echoed = [c \in Clients |-> <<>>]

-----------------------------------------------------------------------------
(* The clients and the kernel                                                *)

Connect(c) ==
  /\ state[c] = "none" /\ state' = [state EXCEPT ![c] = "queued"]
  /\ backlog' = Append(backlog, c)
  /\ UNCHANGED <<server, table, loop, data, version, peer, received, nsent, echoed>>

Connected(c) == state[c] \in {"queued", "accepted"}

Send(c) ==
  /\ Connected(c) /\ peer[c] = "open" /\ Total(nsent) < MaxUnits
  /\ nsent' = [nsent EXCEPT ![c] = @ + 1]
  /\ received' = [received EXCEPT ![c] = Append(@, [from |-> c, k |-> nsent'[c]])]
  /\ UNCHANGED <<server, table, loop, data, version, backlog, state, peer, echoed>>

Finish(c) ==
  /\ Connected(c) /\ peer[c] = "open" /\ peer' = [peer EXCEPT ![c] = "fin"]
  /\ UNCHANGED <<server, table, loop, data, version, backlog, state, received, nsent, echoed>>

\* A RST discards what was received, and a connection not yet accepted.
Reset(c) ==
  /\ Connected(c) /\ peer[c] # "rst" /\ peer' = [peer EXCEPT ![c] = "rst"]
  /\ received' = [received EXCEPT ![c] = <<>>]
  /\ IF state[c] = "queued"
     THEN /\ \E n \in 1 .. Len(backlog) : backlog[n] = c /\ backlog' = RemoveAt(backlog, n)
          /\ state' = [state EXCEPT ![c] = "closed"]
     ELSE UNCHANGED <<backlog, state>>
  /\ UNCHANGED <<server, table, loop, data, version, nsent, echoed>>

Readable(f) == IF f = listenfd THEN backlog # <<>>
               ELSE conn[f] # None /\ (received[conn[f]] # <<>> \/ peer[conn[f]] # "open")

-----------------------------------------------------------------------------
(* The server                                                                *)

Exit(why) ==
  /\ server' = why
  /\ UNCHANGED <<table, loop, data, net, received, echoed>>

Select ==
  /\ server = "select" /\ ~Poll
  /\ rset' = {f \in allset : f <= maxfd /\ Readable(f)} /\ rset' # {}
  /\ nready' = Cardinality(rset')
  /\ server' = IF listenfd \in rset' THEN "accept" ELSE "scan"
  /\ i' = 0
  /\ UNCHANGED <<table, revents, data, net, received, echoed>>

\* poll fills revents of entries 0 to maxi; the entries beyond keep what they had.
PollFds ==
  /\ server = "select" /\ Poll
  /\ LET ready == {s \in Slots : s <= maxi /\ client[s] >= 0 /\ Readable(client[s])}
     IN  /\ revents' = ready \union {s \in revents : s > maxi}
         /\ nready' = Cardinality(ready) + (IF Readable(listenfd) THEN 1 ELSE 0)
  /\ nready' > 0
  /\ server' = IF Readable(listenfd) THEN "accept" ELSE "scan"
  /\ i' = 0
  /\ UNCHANGED <<table, rset, data, net, received, echoed>>

FreeFds   == {f \in Fds : conn[f] = None}
FreeSlots == {s \in Slots : client[s] < 0}

\* --nready <= 0: back to select, else the next slot.
NextSlotMutant(next) ==
  /\ server' = (IF nready <= 0 THEN "select" ELSE "scan") /\ i' = next
  /\ UNCHANGED nready
NextSlot(next) ==
  /\ nready' = nready - 1
  /\ server' = IF nready' <= 0 THEN "select" ELSE "scan"
  /\ i' = next

MaxI(s) == IF s > maxi THEN s ELSE maxi
MaxFd(f) == IF f > maxfd THEN f ELSE maxfd

Least(n, S) == n \in S /\ \A m \in S : n <= m

\* accept blocks until a connection is there; it gets the lowest descriptor.
AcceptClient ==
  /\ server = "accept" /\ backlog # <<>>
  /\ \E connfd \in Fds, s \in Slots :
       /\ Least(connfd, FreeFds) /\ Least(s, FreeSlots)
       /\ Poll \/ connfd < FD_SETSIZE
       /\ conn' = [conn EXCEPT ![connfd] = Head(backlog)]
       /\ client' = [client EXCEPT ![s] = connfd]
       /\ IF Poll THEN UNCHANGED <<allset, maxfd>>
          ELSE allset' = allset \union {connfd} /\ maxfd' = MaxFd(connfd)
       /\ maxi' = MaxI(s)
  /\ state' = [state EXCEPT ![Head(backlog)] = "accepted"]
  /\ backlog' = Tail(backlog)
  /\ NextSlot(0)
  /\ UNCHANGED <<version, rset, revents, data, peer, received, nsent, echoed>>

\* accept fails with EMFILE: err_sys.  "too many clients": err_quit.  FD_SET of a
\* descriptor that is no bit of an fd_set is undefined: nothing after it is modelled.
AcceptFails ==
  /\ server = "accept" /\ backlog # <<>>
  /\ IF FreeFds = {} \/ FreeSlots = {} THEN Exit("exited")
     ELSE ~Poll /\ (\A f \in FreeFds : f >= FD_SETSIZE) /\ Exit("undefined")

IsSetMutant(s) == client[s] \in allset
IsSet(s) == IF Poll THEN s \in revents ELSE client[s] \in rset

\* The last slot that is looked at.  mypoll01 has i < maxi for i <= maxi.
LastSlotMutant == maxi - 1
LastSlot == IF version = "mypoll01" THEN maxi - 1 ELSE maxi

Scan ==
  /\ server = "scan"
  /\ LET ready == {s \in i .. LastSlot : client[s] >= 0 /\ IsSet(s)}
     IN  \/ ready = {} /\ server' = "select" /\ i' = 0
         \/ server' = "read" /\ i' \in Slots /\ Least(i', ready)
  /\ UNCHANGED <<table, rset, revents, nready, data, net, received, echoed>>

sockfd == client[i]
cli    == conn[sockfd]

\* Read: everything received, at most MAXLINE bytes.
ReadData ==
  /\ server = "read" /\ version # "select03"
  /\ received[cli] # <<>> /\ received' = [received EXCEPT ![cli] = <<>>]
  /\ line' = received[cli]
  /\ server' = "write"
  /\ UNCHANGED <<table, loop, read_buf, net, echoed>>

\* my_read: only an empty buffer makes it read the descriptor.
FillBuffer ==
  /\ server = "read" /\ version = "select03" /\ read_buf = <<>>
  /\ received[cli] # <<>> /\ received' = [received EXCEPT ![cli] = <<>>]
  /\ read_buf' = received[cli]
  /\ UNCHANGED <<server, table, loop, line, net, echoed>>

\* Readline takes from the buffer until the end of a line.
TakeUnit ==
  /\ server = "read" /\ read_buf # <<>>
  /\ line' = Append(line, Head(read_buf)) /\ read_buf' = Tail(read_buf)
  /\ server' = IF Eol(Head(read_buf)) THEN "write" ELSE "read"
  /\ UNCHANGED <<table, loop, net, received, echoed>>

\* A line without its end: Readline returns it at end of file.
PartialLine ==
  /\ server = "read" /\ read_buf = <<>> /\ received[cli] = <<>> /\ peer[cli] = "fin"
  /\ line # <<>> /\ server' = "write"
  /\ UNCHANGED <<table, loop, data, net, received, echoed>>

ClearSlotMutant == UNCHANGED allset
ClearSlot == allset' = allset \ {sockfd}

\* End of file; the poll servers close a connection that was reset, too.
CloseClient ==
  /\ server = "read" /\ read_buf = <<>> /\ received[cli] = <<>> /\ line = <<>>
  /\ peer[cli] = "fin" \/ (Poll /\ peer[cli] = "rst")
  /\ conn' = [conn EXCEPT ![sockfd] = None]
  /\ IF Poll THEN UNCHANGED allset ELSE ClearSlot
  /\ client' = [client EXCEPT ![i] = -1]
  /\ state' = [state EXCEPT ![cli] = "closed"]
  /\ NextSlot(i + 1)
  /\ UNCHANGED <<rset, revents, maxi, maxfd, data, version, backlog, peer, received,
                 nsent, echoed>>

WrittenMutant == read_buf' = <<>> /\ line' = line
Written == line' = <<>> /\ UNCHANGED read_buf

EchoMutant == echoed' = [echoed EXCEPT ![cli] = Append(@, Head(line))]
Echo == echoed' = [echoed EXCEPT ![cli] = @ \o line]

Write ==
  /\ server = "write" /\ peer[cli] # "rst"
  /\ Echo
  /\ Written
  /\ NextSlot(i + 1)
  /\ UNCHANGED <<table, rset, revents, net, received>>

\* ECONNRESET from read: err_sys; a write after the RST: SIGPIPE.
ResetByClient ==
  /\ \/ server = "read" /\ read_buf = <<>> /\ ~Poll
     \/ server = "write"
  /\ peer[cli] = "rst"
  /\ Exit("exited")

-----------------------------------------------------------------------------
ServerStep == \/ Select \/ PollFds \/ AcceptClient \/ AcceptFails \/ Scan \/ ReadData
              \/ FillBuffer \/ TakeUnit \/ PartialLine \/ CloseClient \/ Write
              \/ ResetByClient

Next == ServerStep \/ \E c \in Clients : Connect(c) \/ Send(c) \/ Finish(c) \/ Reset(c)

Spec == Init /\ [][Next]_vars

\* The server's process is scheduled; a client promises nothing, except that it
\* reads what is echoed, so that Writen returns.
FairSpec == Spec /\ WF_vars(ServerStep)

-----------------------------------------------------------------------------
(* Properties                                                                *)

Units == [from : Clients, k : Nat \ {0}]

TypeOK ==
  /\ server \in {"select", "accept", "scan", "read", "write", "undefined", "exited"}
  /\ i \in 0 .. FD_SETSIZE /\ maxi \in -1 .. FD_SETSIZE - 1 /\ maxfd \in 0 .. OpenMax
  /\ client \in [Slots -> Fds \union {-1}] /\ conn \in [Fds -> Clients \union {None}]
  /\ allset \subseteq Fds \union {listenfd} /\ rset \subseteq Fds \union {listenfd}
  /\ nready \in 0 .. OpenMax + 1
  /\ {line, read_buf} \subseteq Seq(Units)
  /\ state \in [Clients -> {"none", "queued", "accepted", "closed"}]
  /\ peer \in [Clients -> {"open", "fin", "rst"}]
  /\ nsent \in [Clients -> Nat]

Open == {f \in Fds : conn[f] # None}

\* The records of who is connected agree: client[] and the open descriptors, the
\* bound maxi, and for select allset and the bound maxfd.
TableConsistent ==
  /\ \A f \in Open : \E s \in Slots : client[s] = f /\ s <= maxi
  /\ \A s \in Slots : client[s] >= 0 => client[s] \in Open
  /\ \A s, t \in Slots : client[s] = client[t] /\ client[s] >= 0 => s = t
  /\ ~Poll => allset = Open \union {listenfd} /\ \A f \in Open : f <= maxfd

\* rset and revents are older than the table they are tested against, descriptors
\* and slots are used again, and a new slot's revents is uninitialised: still a
\* client is only read when that does not block.
ReadDoesNotBlock ==
  server = "read" /\ version # "select03" => Readable(sockfd)

\* nready counts the ready slots not looked at yet, so that leaving the loop at
\* nready = 0 forgets nobody.
CountsReadySlots ==
  ~Poll /\ server \in {"scan", "read", "write"} =>
    nready = Cardinality({s \in i .. FD_SETSIZE - 1 : client[s] \in rset})

\* Every client is echoed all that it sent, in order.
Echoes ==
  version # "select03" => \A c \in Clients :
    peer[c] # "rst" =>
      LET inhand == IF server = "write" /\ cli = c THEN line ELSE <<>>
      IN  echoed[c] \o inhand \o received[c] =
            [n \in 1 .. nsent[c] |-> [from |-> c, k |-> n]]

\* A connection that was reset after select saw it leaves the server in accept
\* until another client connects.
StuckInAccept == server = "accept" /\ backlog = <<>>

Owed(c) == Connected(c) /\ (Len(echoed[c]) < nsent[c] \/ peer[c] = "fin")

\* mypoll01 does not look at the highest slot in use.
Overlooked(c) == version = "mypoll01" /\ maxi >= 0 /\ client[maxi] >= 0
                   /\ conn[client[maxi]] = c

\* Who has sent data, or closed, gets its echo, or the end of the connection,
\* unless a client's RST stopped the server, or mypoll01 overlooks it.
Served ==
  version # "select03" => \A c \in Clients :
    Owed(c) ~> \/ ~Owed(c) \/ Overlooked(c)
               \/ server \in {"undefined", "exited"} \/ StuckInAccept

\* Where a unit may be: with the kernel, in the server's buffers, echoed.
Places == ({"received", "echoed"} \X Clients) \union {<<"line", None>>, <<"read_buf", None>>}
Contents(p) == CASE p[1] = "received" -> received[p[2]]
                 [] p[1] = "echoed"   -> echoed[p[2]]
                 [] p[1] = "line"     -> line
                 [] p[1] = "read_buf" -> read_buf
Held    == UNION {{p} \X (1 .. Len(Contents(p))) : p \in Places}
Unit(x) == Contents(x[1])[x[2]]

\* Readline keeps what it has read beyond a line: the buffer outlives the call, so
\* that nothing is lost, whoever it is delivered to.
NothingLost ==
  (\A c \in Clients : peer[c] # "rst") =>
    \A c \in Clients : \A n \in 1 .. nsent[c] :
      \E x \in Held : Unit(x) = [from |-> c, k |-> n]

\* Nothing is invented or delivered twice.
NothingRepeated ==
  /\ \A x \in Held : Unit(x).k <= nsent[Unit(x).from]
  /\ \A x, y \in Held : Unit(x) = Unit(y) => x = y

\* "check all clients for data" (tcpservselect03.c:65): the data found on a
\* client's descriptor is that client's.
OwnData == server = "write" => \A n \in 1 .. Len(line) : line[n].from = cli

\* Nothing sent is lost, and but for select03 it goes back to its sender, in order.
EchoesInOrder == Echoes /\ NothingLost /\ NothingRepeated

\* The table, the sets, the bounds and nready agree whenever the loop is
\* anywhere (tcpservselect01.c:39-80), and no read blocks.
Consistent == TypeOK /\ TableConsistent /\ ReadDoesNotBlock /\ CountsReadySlots
==============================================================================
