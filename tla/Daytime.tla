------------------------------- MODULE Daytime --------------------------------
(* The TCP daytime clients and servers of intro/, names/, advio/, inetd/,      *)
(* unixdomain/ and my-src/Chapter-01, 04 and 11 (names with my_).  Every       *)
(* client runs one program; so does the one server.                            *)
EXTENDS Naturals, Sequences, FiniteSets

CONSTANTS Clients,      \* bound: the clients
          Text,         \* bound: the length of ctime's text, in reads that it takes
          MaxAddresses, \* bound: the addresses of a host name
          MaxKills      \* bound: processes killed

VARIABLES
  client, server,    \* the programs
  addresses,   \* what connect does at each address: "accepts" or "refuses"
  cli,         \* each client: "connect", "read", "reread", "exited", "failed"
  tried,       \* the addresses it has tried
  printed,     \* what it has printed of the text
  peeked,      \* what MSG_PEEK and FIONREAD showed it
  place,       \* the server: "accept", "write", "died"
  served,      \* the connections it has accepted and not closed; one, except for inetd
  written,     \* what it has written to each
  queue,       \* connections not accepted yet
  inbox,       \* what each client has received and not read
  end,         \* how each client's connection ended: "open", "FIN", "RST"
  gone,        \* what the server got from it: "no", "FIN", "RST"
  kills        \* processes killed

programs == <<client, server, addresses>>
clientVars == <<cli, tried, printed, peeked>>
serverVars == <<place, served, written, queue>>
vars == <<programs, clientVars, serverVars, inbox, end, gone, kills>>

\* connect to one address, or to each of a list until one accepts
OneAddress == {"daytimetcpcli", "daytimetcpcli1", "daytimetcpcli2", "daytimetcpcli3",
               "daytimetcpcliv6", "my_daytimetcpcli", "my_exercise_cli"}
Peeking    == {"advio_daytimetcpcli"}
Lists      == {"names_daytimetcpcli", "names_daytimetcpcli1", "names_daytimetcpcli2",
               "names_daytimetcpcli3", "my_daytimetcpcli1", "my_daytimetcpcli2",
               "unix_daytimetcpcli"} \union Peeking

Bytewise  == {"daytimetcpsrv2", "my_exercise_srv", "unix_daytimetcpsrv2"}  \* a Write for each byte
Lingers   == {"names_daytimetcpsrv3"}                  \* SO_LINGER of zero
PerProcess == {"inetd_daytimetcpsrv3"}                 \* inetd starts one for each
Whole     == {"daytimetcpsrv", "daytimetcpsrv1", "daytimetcpsrv3", "daytimetcpsrvv6",
              "my_daytimetcpsrv", "my_ch04_srv1", "names_daytimetcpsrv1",
              "names_daytimetcpsrv2", "names_daytimetcpsrv4", "inetd_daytimetcpsrv2",
              "my_daytimetcpsrv1", "my_daytimetcpsrv2"}

\* Every client with one server, every server with one client, and one client of
\* each kind with one server of each.
Runs(c, s) ==
  \/ c \in OneAddress \union Lists /\ s = "names_daytimetcpsrv1"
  \/ c = "names_daytimetcpcli" /\ s \in Whole \union Bytewise \union Lingers \union PerProcess
  \/ c \in {"daytimetcpcli"} \union Peeking
     /\ s \in {"daytimetcpsrv2"} \union Lingers \union PerProcess

Init ==
  /\ \E c \in OneAddress \union Lists,
        s \in Whole \union Bytewise \union Lingers \union PerProcess :
       Runs(c, s) /\ client = c /\ server = s
  /\ addresses \in UNION {[1 .. n -> {"accepts", "refuses"}] :
                            n \in 1 .. (IF client \in Lists THEN MaxAddresses ELSE 1)}
  /\ client \in {"daytimetcpcli", "names_daytimetcpcli1"} \/ addresses[Len(addresses)] = "accepts"
  /\ cli = [c \in Clients |-> "connect"] /\ tried = [c \in Clients |-> 0]
  /\ printed = [c \in Clients |-> 0] /\ peeked = [c \in Clients |-> 0]
  /\ place = "accept" /\ served = {} /\ written = [c \in Clients |-> 0] /\ queue = <<>>
  /\ inbox = [c \in Clients |-> 0] /\ end = [c \in Clients |-> "open"]
  /\ gone = [c \in Clients |-> "no"] /\ kills = 0

To(c, where) == cli' = [cli EXCEPT ![c] = where]

-----------------------------------------------------------------------------
(* The clients                                                               *)

\* The next address; err_quit("unable to connect") after the last.
Connect(c) ==
  /\ cli[c] = "connect"
  /\ IF tried[c] = Len(addresses)
     THEN To(c, "failed") /\ UNCHANGED <<tried, queue>>
     ELSE /\ tried' = [tried EXCEPT ![c] = @ + 1]
          /\ IF addresses[tried[c] + 1] = "accepts" /\ place # "died"
             THEN To(c, "read") /\ queue' = Append(queue, c)
             ELSE UNCHANGED <<cli, queue>>
  /\ UNCHANGED <<programs, printed, peeked, place, served, written, inbox, end, gone, kills>>

\* Recv(MSG_PEEK), then FIONREAD.
Peek(c) ==
  /\ cli[c] = "read" /\ inbox[c] > 0
  /\ \E n \in 1 .. inbox[c] : peeked' = [peeked EXCEPT ![c] = n]
  /\ To(c, "reread")
  /\ UNCHANGED <<programs, tried, printed, serverVars, inbox, end, gone, kills>>

\* while ( (n = read(...)) > 0)
ReadsOnMutant(c) == To(c, "exited")
ReadsOn(c) == To(c, "read")

Read(c) ==
  /\ inbox[c] > 0
  /\ \E n \in 1 .. inbox[c] : /\ inbox' = [inbox EXCEPT ![c] = @ - n]
                              /\ printed' = [printed EXCEPT ![c] = @ + n]
  /\ ReadsOn(c)
  /\ UNCHANGED <<programs, tried, peeked, serverVars, end, gone, kills>>

ReadText(c) == cli[c] = "read" /\ Read(c)
Reread(c)   == cli[c] = "reread" /\ Read(c)

\* n == 0 ends the loop, n < 0 is err_sys.
ReadEnd(c) ==
  /\ cli[c] \in {"read", "reread"} /\ inbox[c] = 0 /\ end[c] # "open"
  /\ To(c, IF end[c] = "FIN" THEN "exited" ELSE "failed")
  /\ UNCHANGED <<programs, tried, printed, peeked, serverVars, inbox, end, gone, kills>>

Kill == kills < MaxKills /\ kills' = kills + 1

\* The client's process is killed.
Killed(c) ==
  /\ cli[c] \in {"read", "reread"} /\ Kill
  /\ To(c, "failed")
  /\ \E how \in {"FIN", "RST"} : gone' = [gone EXCEPT ![c] = how]
  /\ inbox' = [inbox EXCEPT ![c] = 0]
  /\ UNCHANGED <<programs, tried, printed, peeked, serverVars, end>>

-----------------------------------------------------------------------------
(* The server                                                                *)

Keep == UNCHANGED <<programs, clientVars, kills>>

Accept ==
  /\ place = "accept" /\ queue # <<>>
  /\ served' = served \union {Head(queue)} /\ queue' = Tail(queue)
  /\ place' = IF server \in PerProcess THEN "accept" ELSE "write"
  /\ Keep /\ UNCHANGED <<written, inbox, end, gone>>

\* A FIN from the client does not fail the first Write, but the RST that answers
\* it fails the next one.
Fails(c)  == gone[c] = "RST"
Amount(c) == IF server \in Bytewise THEN 1 ELSE Text

Write(c) ==
  /\ c \in served /\ place \in {"write", "accept"} /\ written[c] < Text /\ ~Fails(c)
  /\ written' = [written EXCEPT ![c] = @ + Amount(c)]
  /\ IF gone[c] = "no"
     THEN inbox' = [inbox EXCEPT ![c] = @ + Amount(c)] /\ UNCHANGED gone
     ELSE UNCHANGED inbox /\ \E g \in {"FIN", "RST"} : gone' = [gone EXCEPT ![c] = g]
  /\ Keep /\ UNCHANGED <<place, served, queue, end>>

\* err_sys, or SIGPIPE: the end of the server, or of one of inetd's.
WriteFails(c) ==
  /\ c \in served /\ place \in {"write", "accept"} /\ written[c] < Text /\ Fails(c)
  /\ IF server \in PerProcess
     THEN served' = served \ {c} /\ UNCHANGED <<place, queue, end>>
     ELSE /\ place' = "died" /\ served' = {} /\ queue' = <<>>
          /\ end' = [x \in Clients |->
                       IF \E i \in 1 .. Len(queue) : queue[i] = x THEN "RST" ELSE end[x]]
  /\ Keep /\ UNCHANGED <<written, inbox, gone>>

\* With SO_LINGER the end is a RST, two seconds later; what the client has not
\* read may be lost.
Close(c) ==
  /\ c \in served /\ place \in {"write", "accept"} /\ written[c] = Text
  /\ served' = served \ {c} /\ place' = "accept"
  /\ end' = [end EXCEPT ![c] = IF server \in Lingers THEN "RST" ELSE "FIN"]
  /\ \/ UNCHANGED inbox
     \/ server \in Lingers /\ inbox' = [inbox EXCEPT ![c] = 0]
  /\ Keep /\ UNCHANGED <<written, queue, gone>>

\* The server is killed, wherever it is; before or after it has set SO_LINGER.
ServerKilled ==
  /\ place # "died" /\ server \notin PerProcess /\ Kill
  /\ place' = "died" /\ served' = {} /\ queue' = <<>>
  /\ \E how \in IF server \in Lingers THEN {"FIN", "RST"} ELSE {"FIN"} :
       end' = [x \in Clients |-> CASE x \in served -> how
                                   [] \E i \in 1 .. Len(queue) : queue[i] = x -> "RST"
                                   [] OTHER -> end[x]]
  /\ UNCHANGED <<programs, clientVars, written, inbox, gone>>

-----------------------------------------------------------------------------
(* The programs                                                              *)

ReadLoop(c)    == ReadText(c) \/ ReadEnd(c)
ConnectRead(c) == Connect(c) \/ ReadLoop(c)
Serve == Accept \/ \E c \in Clients : Write(c) \/ WriteFails(c) \/ Close(c)

Daytimetcpcli(c)   == client = "daytimetcpcli" /\ ConnectRead(c)
Daytimetcpcli1(c)  == client = "daytimetcpcli1" /\ ConnectRead(c)
Daytimetcpcli2(c)  == client = "daytimetcpcli2" /\ ConnectRead(c)
Daytimetcpcli3(c)  == client = "daytimetcpcli3" /\ ConnectRead(c)
Daytimetcpcliv6(c) == client = "daytimetcpcliv6" /\ ConnectRead(c)
MyDaytimetcpcli(c) == client = "my_daytimetcpcli" /\ ConnectRead(c)
MyExerciseCli(c)   == client = "my_exercise_cli" /\ ConnectRead(c)
UnixDaytimetcpcli(c)   == client = "unix_daytimetcpcli" /\ ConnectRead(c)
NamesDaytimetcpcli(c)  == client = "names_daytimetcpcli" /\ ConnectRead(c)
NamesDaytimetcpcli1(c) == client = "names_daytimetcpcli1" /\ ConnectRead(c)
NamesDaytimetcpcli2(c) == client = "names_daytimetcpcli2" /\ ConnectRead(c)
NamesDaytimetcpcli3(c) == client = "names_daytimetcpcli3" /\ ConnectRead(c)
MyDaytimetcpcli1(c)    == client = "my_daytimetcpcli1" /\ ConnectRead(c)
MyDaytimetcpcli2(c)    == client = "my_daytimetcpcli2" /\ ConnectRead(c)
AdvioDaytimetcpcli(c)  == client \in Peeking
                          /\ (Connect(c) \/ Peek(c) \/ Reread(c) \/ ReadEnd(c))

Daytimetcpsrv       == server = "daytimetcpsrv" /\ Serve
Daytimetcpsrv1      == server = "daytimetcpsrv1" /\ Serve
Daytimetcpsrv2      == server = "daytimetcpsrv2" /\ Serve
Daytimetcpsrv3      == server = "daytimetcpsrv3" /\ Serve
Daytimetcpsrvv6     == server = "daytimetcpsrvv6" /\ Serve
MyDaytimetcpsrv     == server = "my_daytimetcpsrv" /\ Serve
MyExerciseSrv       == server = "my_exercise_srv" /\ Serve
MyCh04Srv1          == server = "my_ch04_srv1" /\ Serve
MyDaytimetcpsrv1    == server = "my_daytimetcpsrv1" /\ Serve
MyDaytimetcpsrv2    == server = "my_daytimetcpsrv2" /\ Serve
NamesDaytimetcpsrv1 == server = "names_daytimetcpsrv1" /\ Serve
NamesDaytimetcpsrv2 == server = "names_daytimetcpsrv2" /\ Serve
NamesDaytimetcpsrv3 == server = "names_daytimetcpsrv3" /\ Serve
NamesDaytimetcpsrv4 == server = "names_daytimetcpsrv4" /\ Serve
InetdDaytimetcpsrv2 == server = "inetd_daytimetcpsrv2" /\ Serve
InetdDaytimetcpsrv3 == server = "inetd_daytimetcpsrv3" /\ Serve
UnixDaytimetcpsrv2  == server = "unix_daytimetcpsrv2" /\ Serve

ClientStep(c) ==
  \/ Daytimetcpcli(c) \/ Daytimetcpcli1(c) \/ Daytimetcpcli2(c) \/ Daytimetcpcli3(c)
  \/ Daytimetcpcliv6(c) \/ MyDaytimetcpcli(c) \/ MyExerciseCli(c) \/ UnixDaytimetcpcli(c)
  \/ NamesDaytimetcpcli(c) \/ NamesDaytimetcpcli1(c) \/ NamesDaytimetcpcli2(c)
  \/ NamesDaytimetcpcli3(c) \/ MyDaytimetcpcli1(c) \/ MyDaytimetcpcli2(c)
  \/ AdvioDaytimetcpcli(c)
ServerStep ==
  \/ Daytimetcpsrv \/ Daytimetcpsrv1 \/ Daytimetcpsrv2 \/ Daytimetcpsrv3 \/ Daytimetcpsrvv6
  \/ MyDaytimetcpsrv \/ MyExerciseSrv \/ MyCh04Srv1 \/ MyDaytimetcpsrv1 \/ MyDaytimetcpsrv2
  \/ NamesDaytimetcpsrv1 \/ NamesDaytimetcpsrv2 \/ NamesDaytimetcpsrv3 \/ NamesDaytimetcpsrv4
  \/ InetdDaytimetcpsrv2 \/ InetdDaytimetcpsrv3 \/ UnixDaytimetcpsrv2

Next == \/ ServerStep \/ ServerKilled
        \/ \E c \in Clients : ClientStep(c) \/ Killed(c)

Spec == Init /\ [][Next]_vars

\* Clients and server run; nothing is assumed of kills.
FairSpec == Spec /\ WF_vars(ServerStep) /\ \A c \in Clients : WF_vars(ClientStep(c))

-----------------------------------------------------------------------------
(* Properties                                                                *)

TypeOK ==
  /\ cli \in [Clients -> {"connect", "read", "reread", "exited", "failed"}]
  /\ printed \in [Clients -> 0 .. Text] /\ inbox \in [Clients -> 0 .. Text]
  /\ tried \in [Clients -> 0 .. MaxAddresses]
  /\ place \in {"accept", "write", "died"}
  /\ end \in [Clients -> {"open", "FIN", "RST"}] /\ gone \in [Clients -> {"no", "FIN", "RST"}]

\* A client that ends well has printed the whole text in however many pieces it
\* came (daytimetcpcli.c:24-28), unless the server died while it wrote.  A client
\* of names/daytimetcpsrv3.c (SO_LINGER) does not end well unless that one died.
ExitMeansText ==
  \A c \in Clients : cli[c] = "exited" =>
    place = "died" \/ (printed[c] = Text /\ server \notin Lingers)

\* A client is connected to the first address that accepts, and gives up only
\* after the last (names/daytimetcpcli1.c:34-50).
FirstThatAccepts ==
  \A c \in Clients :
    /\ \A i \in 1 .. tried[c] - 1 : place = "died" \/ addresses[i] = "refuses"
    /\ cli[c] \in {"read", "reread", "exited"} => addresses[tried[c]] = "accepts"

\* What MSG_PEEK and FIONREAD showed is there to read, unless a RST took it
\* (advio/daytimetcpcli.c:21-27).
PeekedIsThere ==
  \A c \in Clients : cli[c] = "reread" => inbox[c] >= peeked[c] \/ end[c] = "RST"

DaytimeTold == TypeOK /\ ExitMeansText /\ FirstThatAccepts /\ PeekedIsThere

\* Every client ends, however many are queued before it: the server waits for no
\* client.
ClientsEnded    == \A c \in Clients : cli[c] \in {"exited", "failed"}
=============================================================================
