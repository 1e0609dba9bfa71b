------------------------------- MODULE UdpEcho --------------------------------
(* The UDP clients that wait for an answer without a time limit, and the       *)
(* servers they talk to: udpcliserv/, unixdomain/unixdg*, advio/udpserv0*,     *)
(* the UDP daytime programs of names/ and advio/, and my-src/Chapter-08 (names *)
(* with my_).  client and server are the programs, one of each.                *)
EXTENDS Naturals, Sequences, FiniteSets, SequencesExt

CONSTANTS Interfaces,   \* the addresses of the server's host, in Get_ifi_info's
                        \* order: the loopback, then those of one network
          Late,         \* an address that it has and get_ifi_info did not list
          Lines,        \* bound: the lines of standard input
          MaxFaults     \* bound: datagrams lost, repeated or from somebody else

VARIABLES
  client, server,
  servaddr,    \* the server's address at the client; "0.0.0.0" is its own host
  at,          \* the client: "fgets", "recv", "reread" after MSG_PEEK, "done", "failed"
  sent,        \* lines sent
  printed,     \* answers taken: the line answered, the line asked for, the source
  toServer, toClient,   \* datagrams on their way
  peeked,      \* what MSG_PEEK showed, first in the socket's queue
  bound,       \* the addresses that the server's sockets are bound to, in order
  told,        \* where the last datagram went: in fact, and by the server's printf
  count,       \* datagrams counted by the servers that do not answer
  lost, strange,        \* datagrams lost; repeated or sent by somebody else
  cause        \* why an answer will not come: "lost", "refused", "filtered"

programs == <<client, server, servaddr>>
network  == <<toServer, toClient, lost, strange, cause>>
vars == <<programs, at, sent, printed, peeked, network, bound, told, count>>

Wild    == "0.0.0.0"
Brd    == "broadcast"      \* of every interface but the loopback
Addrs  == ToSet(Interfaces) \union {Late}
Dst    == IF servaddr = Wild THEN Interfaces[1] ELSE servaddr

\* Each client by the function that it calls.
Plain     == {"udpcli01", "udpcli03", "unixdgcli01", "my_udpcli01", "udpcli10",
              "daytimeudpcli1", "daytimeudpcli3"}
Verifies  == {"udpcli02", "my_dgcliaddr"}
Connected == {"udpcli04", "my_dgcliconnect", "daytimeudpcli2", "daytimeudpcli4"}
Floods    == {"udpcli06", "udpcli08", "my_dgcliloop1"}
Peeks     == {"daytimeudpcli3", "daytimeudpcli4"}
Daytimes  == Peeks \union {"daytimeudpcli1", "daytimeudpcli2"}
Mine      == {"my_udpcli01", "my_dgcliaddr", "my_dgcliconnect", "my_dgcliloop1"}

Wildcards == {"udpserv01", "dgechoaddr", "my_udpsrv01"}
PerAddress == {"udpserv03", "udpserv04"}
Counters  == {"udpserv06", "udpserv07", "my_dgecholoop1"}
DaytimeServers == {"daytimeudpsrv2", "daytimeudpsrv3"}

\* udpcli10 and the daytime clients ask once.
Questions == IF client \in Daytimes \union {"udpcli10"} THEN 1 ELSE Lines

\* Which client asks which server; those that call the same function are paired
\* with one server of each kind.
Runs(c, s) ==
  \/ c \in Floods /\ s \in Counters
  \/ c \in Daytimes /\ s \in DaytimeServers \union {"none"}
  \/ c = "unixdgcli01" /\ s = "unixdgserv01"
  \/ /\ c \in (Plain \union Verifies \union Connected) \ (Daytimes \union {"unixdgcli01"})
     /\ s \in Wildcards \union PerAddress \union {"none"}
     /\ s \in {"udpserv01", "udpserv04", "none"} \/ c \in {"udpcli01", "udpcli02"}

Init ==
  /\ \E c \in Plain \union Verifies \union Connected \union Floods,
        s \in Wildcards \union PerAddress \union Counters \union DaytimeServers
              \union {"unixdgserv01", "none"} :
       /\ Runs(c, s)
       /\ client = c /\ server = s
       /\ bound = IF s \in PerAddress \union {"none"} THEN <<>> ELSE <<Wild>>
  /\ servaddr \in (IF client \in Mine THEN {Wild}
                   ELSE IF client = "unixdgcli01" THEN {Interfaces[1]} ELSE Addrs)
  /\ at = "fgets" /\ sent = 0 /\ printed = <<>> /\ peeked = <<>>
  /\ toServer = {} /\ toClient = {} /\ lost = 0 /\ strange = 0 /\ cause = {}
  /\ told = [dst |-> Wild, said |-> Wild] /\ count = 0

-----------------------------------------------------------------------------
(* The clients                                                               *)

Sendto ==
  /\ at = "fgets" /\ sent < Questions
  /\ sent' = sent + 1
  /\ toServer' = toServer \union {[line |-> sent', dst |-> Dst]}
  /\ at' = IF client \in Floods THEN "fgets" ELSE "recv"
  /\ UNCHANGED <<programs, printed, peeked, toClient, lost, strange, cause, bound, told, count>>

EndOfInput ==
  /\ at = "fgets" /\ sent = Questions
  /\ at' = "done"
  /\ UNCHANGED <<programs, sent, printed, peeked, network, bound, told, count>>

Puts(m) == printed' = Append(printed, [line |-> m.line, asked |-> sent, src |-> m.src])
Received == UNCHANGED <<programs, sent, toServer, lost, strange, bound, told, count>>

\* dg_cli takes whatever comes.
RecvfromAny ==
  /\ at = "recv" /\ client \in Plain \ Peeks
  /\ \E m \in toClient : toClient' = toClient \ {m} /\ Puts(m)
  /\ at' = "fgets"
  /\ Received /\ UNCHANGED <<peeked, cause>>

\* dgcliaddr compares the source with servaddr, and goes on with the next line.
IsServerMutant(m) == TRUE
IsServer(m) == m.src = servaddr

\* continue
AfterIgnoredMutant == "recv"
AfterIgnored == "fgets"

RecvfromVerified ==
  /\ at = "recv" /\ client \in Verifies
  /\ \E m \in toClient :
       /\ toClient' = toClient \ {m}
       /\ IF IsServer(m) THEN Puts(m) ELSE UNCHANGED printed
       /\ at' = IF IsServer(m) THEN "fgets" ELSE AfterIgnored
  /\ Received /\ UNCHANGED <<peeked, cause>>

\* The kernel gives a connected socket only what comes from its peer.
FromPeer(m) == m.src = Dst

ReadConnected ==
  /\ at = "recv" /\ client \in Connected \ Peeks
  /\ \E m \in toClient : FromPeer(m) /\ toClient' = toClient \ {m} /\ Puts(m)
  /\ at' = "fgets"
  /\ Received /\ UNCHANGED <<peeked, cause>>

Filtered ==
  /\ client \in Connected
  /\ \E m \in toClient : /\ ~FromPeer(m) /\ toClient' = toClient \ {m}
                         /\ cause' = cause \union {"filtered"}
  /\ Received /\ UNCHANGED <<at, printed, peeked>>

\* MSG_PEEK leaves the datagram where the next call finds it.
Peek ==
  /\ at = "recv" /\ client \in Peeks
  /\ \E m \in toClient : /\ client \in Connected => FromPeer(m)
                         /\ toClient' = toClient \ {m} /\ peeked' = <<m>>
  /\ at' = "reread"
  /\ Received /\ UNCHANGED <<printed, cause>>

Reread ==
  /\ at = "reread"
  /\ Puts(Head(peeked)) /\ peeked' = <<>>
  /\ at' = "fgets"
  /\ Received /\ UNCHANGED <<toClient, cause>>

-----------------------------------------------------------------------------
(* The servers                                                               *)

Bind(address) == bound' = Append(bound, address)
Here == UNCHANGED <<programs, at, sent, printed, peeked, network, told, count>>

\* udpserv03 and udpserv04 bind each address, the interface's broadcast address
\* unless that is EADDRINUSE (with SO_REUSEADDR, not on every system), and the
\* wildcard; a child serves each socket.
Unbound == {k \in DOMAIN Interfaces : Interfaces[k] \notin ToSet(bound)}
Setting == server \in PerAddress /\ Wild \notin ToSet(bound)

BindUnicast ==
  /\ Setting
  /\ \E k \in Unbound : /\ \A j \in Unbound : k <= j
                        /\ k > 2 => Brd \in ToSet(bound)
                        /\ Bind(Interfaces[k])
  /\ Here

BindBroadcast ==
  /\ Setting
  /\ \E k \in DOMAIN Interfaces \ Unbound : k > 1
  /\ Last(bound) # Brd
  /\ Bind(Brd)
  /\ Here

BindWild ==
  /\ Setting /\ Unbound = {} /\ Brd \in ToSet(bound)
  /\ Bind(Wild)
  /\ Here

\* The socket that a datagram to dst comes to, "none" without one.
SocketForMutant(dst) == IF Wild \in ToSet(bound) THEN Wild ELSE "none"
SocketFor(dst) ==
  CASE dst \in ToSet(bound) -> dst
    [] dst \notin ToSet(bound) /\ Wild \in ToSet(bound) -> Wild
    [] OTHER -> "none"

\* What the server prints as the destination: udpserv03 hands its last child the
\* address of the socket before; dgechoaddr has it from IP_RECVDSTADDR.
Says(sock, m) ==
  CASE server = "udpserv03" /\ sock = Wild -> Brd
    [] server = "dgechoaddr" -> m.dst
    [] OTHER -> sock

\* A socket bound to the wildcard address answers from the address that the
\* kernel chooses.
Source(sock, m) == IF sock = Wild /\ server # "unixdgserv01" THEN Addrs ELSE {m.dst}

Answer ==
  /\ server \notin Counters
  /\ \E m \in toServer :
       LET sock == SocketFor(m.dst)
       IN  /\ sock # "none"
           /\ toServer' = toServer \ {m}
           /\ told' = [dst |-> m.dst, said |-> Says(sock, m)]
           /\ \E s \in Source(sock, m) : toClient' = toClient \union {[line |-> m.line, src |-> s]}
  /\ UNCHANGED <<programs, at, sent, printed, peeked, lost, strange, cause, bound, count>>

CountDatagram ==
  /\ server \in Counters
  /\ \E m \in toServer : toServer' = toServer \ {m}
  /\ count' = count + 1
  /\ UNCHANGED <<programs, at, sent, printed, peeked, toClient, lost, strange, cause, bound, told>>

-----------------------------------------------------------------------------
(* The network: Unix domain datagrams are neither lost nor repeated          *)

Faulty == client # "unixdgcli01" /\ lost + strange < MaxFaults
Elsewhere == UNCHANGED <<programs, sent, printed, peeked, bound, told, count>>

Lose ==
  /\ Faulty
  /\ \/ \E m \in toServer : toServer' = toServer \ {m} /\ UNCHANGED toClient
     \/ \E m \in toClient : toClient' = toClient \ {m} /\ UNCHANGED toServer
  /\ lost' = lost + 1 /\ cause' = cause \union {"lost"}
  /\ Elsewhere /\ UNCHANGED <<at, strange>>

\* A datagram arrives a second time, or somebody else writes to the client.
Extra ==
  /\ Faulty /\ server \notin Counters
  /\ \/ \E i \in 1 .. sent : toServer' = toServer \union {[line |-> i, dst |-> Dst]}
        /\ UNCHANGED toClient
     \/ sent > 0 /\ toClient' = toClient \union {[line |-> 0, src |-> "stranger"]}
        /\ UNCHANGED toServer
  /\ strange' = strange + 1
  /\ Elsewhere /\ UNCHANGED <<at, lost, cause>>

\* ICMP port unreachable: only a connected socket hears of it, at its next call.
Unreachable ==
  /\ at \notin {"done", "failed"}
  /\ \E m \in toServer : /\ SocketFor(m.dst) = "none" /\ toServer' = toServer \ {m}
  /\ IF client \in Connected
     THEN at' = (IF sent < Questions \/ at # "fgets" THEN "failed" ELSE at) /\ UNCHANGED cause
     ELSE cause' = cause \union {"refused"} /\ UNCHANGED at
  /\ Elsewhere /\ UNCHANGED <<toClient, lost, strange>>

-----------------------------------------------------------------------------
(* The programs                                                              *)

\* The functions that they call.
DgCli         == Sendto \/ RecvfromAny \/ EndOfInput
DgCliInetaddr == Sendto \/ RecvfromAny \/ EndOfInput
DgCliBig      == Sendto \/ RecvfromAny \/ EndOfInput
MyDgCli       == Sendto \/ RecvfromAny \/ EndOfInput
DgCliAddr     == Sendto \/ RecvfromVerified \/ EndOfInput
DgCliConnect  == Sendto \/ ReadConnected \/ Filtered \/ EndOfInput
DgCliLoop1    == Sendto \/ EndOfInput
DgCliLoop3    == Sendto \/ EndOfInput
DgEcho        == Answer
DgEchoFlags   == Answer
MyDgEcho      == Answer
MydgEcho03    == Answer
MydgEcho04    == Answer
DgEchoLoop1   == CountDatagram
DgEchoLoop2   == CountDatagram
Binds         == BindUnicast \/ BindBroadcast \/ BindWild

Udpcli01 == client = "udpcli01" /\ DgCli
Udpcli02 == client = "udpcli02" /\ DgCliAddr
Udpcli03 == client = "udpcli03" /\ DgCliInetaddr
Udpcli04 == client = "udpcli04" /\ DgCliConnect
Udpcli06 == client = "udpcli06" /\ DgCliLoop1
Udpcli08 == client = "udpcli08" /\ DgCliLoop3
Udpcli10 == client = "udpcli10" /\ DgCliBig
MyUdpcli01     == client = "my_udpcli01" /\ MyDgCli
MyDgcliaddr    == client = "my_dgcliaddr" /\ DgCliAddr
MyDgcliconnect == client = "my_dgcliconnect" /\ DgCliConnect
MyDgcliloop1   == client = "my_dgcliloop1" /\ DgCliLoop1
Unixdgcli01    == client = "unixdgcli01" /\ DgCli
Daytimeudpcli1 == client = "daytimeudpcli1" /\ DgCli
Daytimeudpcli2 == client = "daytimeudpcli2" /\ DgCliConnect
Daytimeudpcli3 == client = "daytimeudpcli3" /\ (Sendto \/ Peek \/ Reread \/ EndOfInput)
Daytimeudpcli4 == client = "daytimeudpcli4"
                  /\ (Sendto \/ Filtered \/ Peek \/ Reread \/ EndOfInput)

Udpserv01      == server = "udpserv01" /\ DgEcho
Dgechoaddr     == server = "dgechoaddr" /\ DgEchoFlags
MyUdpsrv01     == server = "my_udpsrv01" /\ MyDgEcho
Unixdgserv01   == server = "unixdgserv01" /\ DgEcho
Udpserv03      == server = "udpserv03" /\ (Binds \/ MydgEcho03)
Udpserv04      == server = "udpserv04" /\ (Binds \/ MydgEcho04)
Udpserv06      == server = "udpserv06" /\ DgEchoLoop1
Udpserv07      == server = "udpserv07" /\ DgEchoLoop2
MyDgecholoop1  == server = "my_dgecholoop1" /\ DgEchoLoop1
Daytimeudpsrv2 == server = "daytimeudpsrv2" /\ Answer
Daytimeudpsrv3 == server = "daytimeudpsrv3" /\ Answer

ClientStep ==
  \/ Udpcli01 \/ Udpcli02 \/ Udpcli03 \/ Udpcli04 \/ Udpcli06 \/ Udpcli08 \/ Udpcli10
  \/ MyUdpcli01 \/ MyDgcliaddr \/ MyDgcliconnect \/ MyDgcliloop1 \/ Unixdgcli01
  \/ Daytimeudpcli1 \/ Daytimeudpcli2 \/ Daytimeudpcli3 \/ Daytimeudpcli4
ServerStep ==
  \/ Udpserv01 \/ Dgechoaddr \/ MyUdpsrv01 \/ Unixdgserv01 \/ Udpserv03 \/ Udpserv04
  \/ Udpserv06 \/ Udpserv07 \/ MyDgecholoop1 \/ Daytimeudpsrv2 \/ Daytimeudpsrv3

Next == ClientStep \/ ServerStep \/ Lose \/ Extra \/ Unreachable

Spec == Init /\ [][Next]_vars

\* Client and server run; a datagram to a port that nobody has is answered.
FairSpec == Spec /\ WF_vars(ClientStep) /\ WF_vars(ServerStep) /\ WF_vars(Unreachable)

-----------------------------------------------------------------------------
(* Properties                                                                *)

TypeOK ==
  /\ at \in {"fgets", "recv", "reread", "done", "failed"}
  /\ sent \in 0 .. Lines /\ count \in 0 .. Lines
  /\ \A m \in toServer : m.dst \in Addrs
  /\ ToSet(bound) \subseteq ToSet(Interfaces) \union {Brd, Wild}
  /\ lost + strange <= MaxFaults

\* dg_cli takes each answer for its last line (lib/dg_cli.c:9-17).  That is right
\* even if datagrams are lost, since it then waits for ever; a repeated datagram
\* or one from somebody else shifts every answer after it, also in dgcliaddr.c.
AnswersMatch ==
  strange = 0 => \A i \in 1 .. Len(printed) : printed[i].line = printed[i].asked

\* dgcliaddr.c:18-23 and dgcliconnect.c:9 print answers of the server only.
OnlyFromServer ==
  client \in Verifies \union Connected =>
    \A i \in 1 .. Len(printed) : printed[i].src = Dst

\* udpserv03.c and udpserv04.c bind every address so that an answer comes from the
\* address asked: a client that verifies the source has every answer from them,
\* whenever it starts.
AnswersFromAddress ==
  client = "udpcli02" /\ server \in PerAddress /\ servaddr # Late =>
    (at = "done" /\ lost + strange = 0 => Len(printed) = Questions)

\* my-src/Chapter-08/udpcli01.c does not use its argument and asks 0.0.0.0, from
\* which no answer comes: dgcliaddr.c ignores every one.
VerifiesInVain == client = "my_dgcliaddr" => printed = <<>>

\* "to %s" of mydg_echo and dg_echo is the address that the client sent to, or the
\* wildcard; not in udpserv03's last child, whose datagrams go to other addresses.
SaysDestination ==
  \/ told.said \in {told.dst, Wild}
  \/ server = "udpserv03" /\ told.dst \notin ToSet(Interfaces)

\* What recvfrom_int prints accounts for all that was sent and not lost.
CountsWhatCame == server \in Counters => count + Cardinality(toServer) + lost = sent

UdpAnswers == /\ TypeOK /\ AnswersMatch /\ OnlyFromServer /\ AnswersFromAddress
              /\ VerifiesInVain /\ SaysDestination /\ CountsWhatCame

\* Every client ends, or waits in recvfrom for an answer that was lost, that no
\* server will send, or that its kernel does not give it.
EndsOrWaits ==
  <>[](\/ at \in {"done", "failed"}
       \/ at = "recv" /\ toServer = {} /\ toClient = {} /\ cause # {})
=============================================================================
