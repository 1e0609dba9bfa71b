------------------------------ MODULE SctpEcho -------------------------------
(* The one-to-many SCTP echo servers (sctpserv01-07, sctpserv_fork, and        *)
(* sctpsrv01 of Chapter-09) and their clients.  A message is its number and    *)
(* its pieces: the kernel may deliver it in part, marking the last piece with   *)
(* MSG_EOR.  Streams are ordered each by itself.  Clients find room for whole   *)
(* replies.                                                                    *)
EXTENDS Naturals, Sequences, SequencesExt, FiniteSets

CONSTANTS Clients,
          Streams,        \* outbound streams of an association at the server,
          MoreStreams,    \* at sctpserv02,
          ClientStreams,  \* and at a client
          EchoStreams,    \* SERV_MAX_SCTP_STRM
          IncrSize, Threshold,  \* SCTP_PDAPI_INCR_SZ, SCTP_PDAPI_NEED_MORE_THRESHOLD
          Parts,          \* the size of a message
          MaxMessages, MaxLosses   \* bounds: for all clients; broken associations

VARIABLES
  version, increment,  \* the server; stream_increment
  kind,                \* the clients
  host,                \* delivers "whole" messages, "partial" ones, or these "mixed"
  spc, cause,          \* of the server: "recv", "more", "status", "send", "peel", "exit"
  buf,                 \* the pieces in readbuf
  size, alloc,         \* sctp_pdapi_rdbuf_sz, and what it has been allocated
  cliaddr, stream,     \* from the first piece
  snotes,              \* notifications for the server
  assoc,               \* of a client: "none", "up", "eof" (the server ends it), "closing"
  peeled,              \* clients that a child of sctpserv_fork serves
  up, down,            \* messages and replies on each stream, not read yet
  notes,               \* notifications for a client
  cpc, line, i,        \* of a client: "fgets", "sendall", "recv", "exit"
  got,                 \* what it has read for this line
  lost,                \* broken associations so far
  split, glued         \* history: a piece was taken for a message, pieces of two for one

vars == <<version, increment, kind, host, spc, cause, buf, size, alloc, cliaddr,
          stream, snotes, assoc, peeled, up, down, notes, cpc, line, i, got, lost, split,
          glued>>
setup == <<version, increment, kind, host>>
hist  == <<lost, split, glued>>
cli   == <<notes, cpc, line, i, got>>
net   == <<assoc, up, down>>
pdapi == <<size, alloc>>

Versions == {"serv01", "serv02", "serv03", "serv04", "serv05", "serv06", "serv07", "fork",
             "srv09", "pdapi23"}   \* the last two of Chapter-09 and Chapter-23
Kinds    == {"cli", "notified", "unordered", "echoall", "twice"}
Reassembles == version \in {"serv05", "pdapi23"}
Notified    == version \in {"serv06", "serv07"}
Outstrms == IF version = "serv02" THEN MoreStreams ELSE Streams
Outs     == 0 .. Outstrms - 1
Unordered == ClientStreams   \* messages sent with MSG_UNORDERED
Lanes     == 0 .. ClientStreams

\* Bounds: of the servers that differ in one option, one is tried with every client
\* and with a host that splits messages.
Tried ==
  /\ host # "whole" => kind = "cli" /\ version \in {"serv01", "serv05", "pdapi23", "fork"}
  /\ kind # "cli" => version \in {"serv01", "serv06", "fork"}
  /\ version = "pdapi23" => ~increment

Init ==
  /\ version \in Versions /\ increment \in BOOLEAN /\ kind \in Kinds
  /\ version \in {"serv07", "fork"} => ~increment
  /\ host \in {"whole", "partial", "mixed"}
  /\ host = "mixed" => Reassembles
  /\ Tried
  /\ spc = "recv" /\ cause = "none" /\ buf = <<>> /\ size = IncrSize /\ alloc = IncrSize
  /\ cliaddr = (CHOOSE c \in Clients : TRUE) /\ stream = 0 /\ snotes = 0
  /\ assoc = [c \in Clients |-> "none"] /\ peeled = {}
  /\ up = [c \in Clients |-> [s \in Lanes |-> <<>>]]
  /\ down = [c \in Clients |-> [s \in Outs |-> <<>>]]
  /\ notes = [c \in Clients |-> 0] /\ cpc = [c \in Clients |-> "fgets"]
  /\ line = [c \in Clients |-> 0] /\ i = [c \in Clients |-> 0]
  /\ got = [c \in Clients |-> <<>>] /\ lost = 0 /\ split = FALSE /\ glued = FALSE

ServerQuits(why) == spc' = "exit" /\ cause' = why

-----------------------------------------------------------------------------
(* recvmsg at the server                                                     *)

\* How much of a message one call returns.
Sizes(m, room) ==
  LET most == IF m.left < room THEN m.left ELSE room
  IN  IF host = "whole" THEN {most} ELSE 1 .. most

\* A piece of n of the first message on a stream, or its rest.
Waiting(c, s) == up[c][s] # <<>>
Begun(c, s)   == Waiting(c, s) /\ Head(up[c][s]).left < Parts
Piece(c, s, n) ==
  LET m == Head(up[c][s])
  IN  [k \in 1 .. n |-> [from |-> c, id |-> m.id, part |-> Parts - m.left + k]]
Taken(c, s, n) ==
  LET m == Head(up[c][s])
  IN  [up EXCEPT ![c][s] = IF n = m.left THEN Tail(@)
                           ELSE <<[m EXCEPT !.left = @ - n]>> \o Tail(@)]

\* What the host delivers next: with no mixing the rest of what it has begun.
Deliverable ==
  {x \in (Clients \ peeled) \X Lanes :
     /\ Waiting(x[1], x[2])
     /\ \/ host = "mixed" \/ Begun(x[1], x[2])
        \/ \A y \in Clients \X Lanes : ~Begun(y[1], y[2])}

\* A notification is printed and the loop goes on.
Notification ==
  /\ spc = "recv" /\ Notified /\ snotes > 0 /\ snotes' = snotes - 1
  /\ UNCHANGED <<setup, spc, cause, buf, pdapi, cliaddr, stream, net, peeled, cli, hist>>

AfterRecvMutant(eor) == IF increment THEN "status" ELSE "send"
AfterRecv(eor) == IF ~eor /\ Reassembles THEN "more" ELSE IF increment THEN "status" ELSE "send"

Recv ==
  /\ spc = "recv"
  /\ \E x \in Deliverable :
     \E n \in Sizes(Head(up[x[1]][x[2]]), IF Reassembles THEN size ELSE Parts) :
       LET eor == n = Head(up[x[1]][x[2]]).left
       IN  /\ buf' = Piece(x[1], x[2], n) /\ up' = Taken(x[1], x[2], n)
           /\ cliaddr' = x[1] /\ stream' = Head(up[x[1]][x[2]]).stream
           /\ spc' = AfterRecv(eor)
           /\ split' = (split \/ (Len(buf') < Parts /\ ~Reassembles))
           /\ glued' = (glued \/ (Reassembles /\ buf'[1].part > 1))
  /\ UNCHANGED <<setup, cause, pdapi, snotes, assoc, down, peeled, cli, lost>>

Reallocated == IF version = "serv05" THEN size + IncrSize ELSE IncrSize

\* pdapi_recvmsg: make room, then append what comes, whoever it is from.
Realloc ==
  /\ spc = "more" /\ size - Len(buf) < Threshold
  /\ size' = size + IncrSize
  /\ alloc' = Reallocated
  /\ UNCHANGED <<setup, spc, cause, buf, cliaddr, stream, snotes, net, peeled, cli, hist>>

RecvMore ==
  /\ spc = "more" /\ size - Len(buf) >= Threshold
  /\ \E x \in Deliverable : \E n \in Sizes(Head(up[x[1]][x[2]]), size - Len(buf)) :
       LET eor == n = Head(up[x[1]][x[2]]).left  p == Piece(x[1], x[2], n)
       IN  /\ buf' = buf \o p /\ up' = Taken(x[1], x[2], n)
           /\ spc' = AfterRecv(eor)
           /\ glued' = (glued \/ p[1].from # buf[1].from \/ p[1].id # buf[1].id)
  /\ UNCHANGED <<setup, cause, pdapi, cliaddr, stream, snotes, assoc, down, peeled, cli,
                 lost, split>>

-----------------------------------------------------------------------------
(* The reply                                                                 *)

Associated(c) == assoc[c] # "none"

NextStreamMutant == IF stream + 1 > Outstrms THEN 0 ELSE stream + 1

\* sinfo_stream++, unless sctp_get_no_strms says that there are no more.
NextStream == IF stream + 1 >= Outstrms THEN 0 ELSE stream + 1

\* Getsockopt(SCTP_STATUS) fails when the association has gone; that of Chapter-09
\* returns 0 streams.
IncrementStream ==
  /\ spc = "status"
  /\ IF Associated(cliaddr) \/ version = "srv09"
     THEN /\ spc' = "send" /\ UNCHANGED cause
          /\ stream' = (IF Associated(cliaddr) THEN NextStream ELSE 0)
     ELSE ServerQuits("status") /\ UNCHANGED stream
  /\ UNCHANGED <<setup, buf, pdapi, cliaddr, snotes, net, peeled, cli, hist>>

\* To a client that has gone the host tries to set up an association, in vain.
Send ==
  /\ spc = "send"
  /\ CASE stream >= Outstrms             -> ServerQuits("stream") /\ UNCHANGED <<assoc, down>>
       [] stream < Outstrms /\ assoc[cliaddr] \in {"eof", "closing"} ->
            ServerQuits("shutdown") /\ UNCHANGED <<assoc, down>>
       [] OTHER ->
            /\ spc' = (IF version = "fork" THEN "peel" ELSE "recv") /\ UNCHANGED cause
            /\ assoc' = (IF version = "serv03" /\ Associated(cliaddr)
                         THEN [assoc EXCEPT ![cliaddr] = "eof"] ELSE assoc)
            /\ down' = (IF Associated(cliaddr)
                        THEN [down EXCEPT ![cliaddr][stream] = Append(@, buf)] ELSE down)
  /\ UNCHANGED <<setup, buf, pdapi, cliaddr, stream, snotes, up, peeled, cli, hist>>

\* sctp_address_to_associd finds nothing, or the child gets the association.
Peeloff ==
  /\ spc = "peel" /\ spc' = "recv"
  /\ peeled' = (IF Associated(cliaddr) THEN peeled \cup {cliaddr} ELSE peeled)
  /\ UNCHANGED <<setup, cause, buf, pdapi, cliaddr, stream, snotes, net, cli, hist>>

\* The child's str_echo: bytes, answered on stream 0.
ChildEcho(c) ==
  /\ c \in peeled
  /\ \E s \in {r \in Lanes : Waiting(c, r)} : \E n \in Sizes(Head(up[c][s]), Parts) :
       /\ \A r \in Lanes : r # s => ~Begun(c, r)
       /\ up' = Taken(c, s, n) /\ split' = (split \/ n < Parts)
       /\ down' = [down EXCEPT ![c][0] = Append(@, Piece(c, s, n))]
  /\ UNCHANGED <<setup, spc, cause, buf, pdapi, cliaddr, stream, snotes, assoc, peeled, cli,
                 lost, glued>>

-----------------------------------------------------------------------------
(* Associations                                                              *)

\* The association of c ends: what was not read may be lost with it.
Ends(c) ==
  /\ assoc' = [assoc EXCEPT ![c] = "none"] /\ peeled' = peeled \ {c}
  /\ snotes' = snotes + (IF Notified THEN 1 ELSE 0)

\* MSG_EOF: the client learns of the shutdown, and it completes.
ShutdownArrives(c) ==
  /\ assoc[c] = "eof" /\ assoc' = [assoc EXCEPT ![c] = "closing"]
  /\ UNCHANGED <<setup, spc, cause, buf, pdapi, cliaddr, stream, snotes, up, down, peeled,
                 cli, hist>>
ShutdownComplete(c) ==
  /\ assoc[c] = "closing" /\ Ends(c)
  /\ UNCHANGED <<setup, spc, cause, buf, pdapi, cliaddr, stream, up, down, cli, hist>>

\* SCTP_AUTOCLOSE: nothing has gone either way for close_time.
Autoclose(c) ==
  /\ version = "serv04" /\ assoc[c] = "up" /\ cpc[c] \in {"fgets", "exit"}
  /\ \A s \in Lanes : ~Waiting(c, s)
  /\ ~(cliaddr = c /\ spc \in {"status", "send"}) /\ Ends(c)
  /\ UNCHANGED <<setup, spc, cause, buf, pdapi, cliaddr, stream, up, down, cli, hist>>

\* It breaks: what is on its way goes, and what was received if the host so wants.
Break(c) ==
  /\ lost < MaxLosses /\ assoc[c] # "none" /\ Ends(c) /\ lost' = lost + 1
  /\ up' \in {up, [up EXCEPT ![c] = [s \in Lanes |-> <<>>]]}
  /\ down' = [down EXCEPT ![c] = [s \in Outs |-> <<>>]]
  /\ notes' = [notes EXCEPT ![c] = IF kind = "notified" THEN 1 ELSE 0]
  /\ UNCHANGED <<setup, spc, cause, buf, pdapi, cliaddr, stream, cpc, line, i, got, split,
                 glued>>

-----------------------------------------------------------------------------
(* Clients                                                                   *)

Echoing == kind \in {"echoall", "twice"}
Copies  == IF kind = "twice" THEN 2 ELSE 1
Awaited == IF Echoing THEN EchoStreams * Copies ELSE 1
MoreInput == FoldFunctionOnSet(LAMBDA a, b : a + b, 0, line, Clients) * Awaited < MaxMessages

\* sendmsg: sets an association up when there is none.
SendOn(c, s, next) ==
  IF s >= ClientStreams \/ assoc[c] = "closing"
  THEN /\ cpc' = [cpc EXCEPT ![c] = "exit"] /\ UNCHANGED <<assoc, up, notes, snotes>>
  ELSE /\ cpc' = [cpc EXCEPT ![c] = next]
       /\ assoc' = [assoc EXCEPT ![c] = IF @ = "none" THEN "up" ELSE @]
       /\ notes' = [notes EXCEPT ![c] = @ + IF kind = "notified" /\ assoc[c] = "none"
                                            THEN 1 ELSE 0]
       /\ snotes' = snotes + (IF Notified /\ assoc[c] = "none" THEN 1 ELSE 0)
       /\ up' = [up EXCEPT ![c][IF kind = "unordered" THEN Unordered ELSE s] =
                   Append(@, [id |-> <<line'[c], i[c]>>, stream |-> s, left |-> Parts])]

\* sctpstr_cli: the line names its stream.
SendLine(c) ==
  /\ cpc[c] = "fgets" /\ ~Echoing /\ MoreInput /\ spc # "exit"
  /\ line' = [line EXCEPT ![c] = @ + 1] /\ got' = [got EXCEPT ![c] = <<>>]
  /\ \E s \in 0 .. ClientStreams : SendOn(c, s, "recv")
  /\ UNCHANGED <<setup, spc, cause, buf, pdapi, cliaddr, stream, peeled, down, i, hist>>

\* sctpstr_cli_echoall: one line, on all streams.
NextLine(c) ==
  /\ cpc[c] = "fgets" /\ Echoing /\ MoreInput /\ spc # "exit"
  /\ line' = [line EXCEPT ![c] = @ + 1] /\ got' = [got EXCEPT ![c] = <<>>]
  /\ i' = [i EXCEPT ![c] = 0] /\ cpc' = [cpc EXCEPT ![c] = "sendall"]
  /\ UNCHANGED <<setup, spc, cause, buf, pdapi, cliaddr, stream, snotes, peeled, net, notes,
                 hist>>
SendAll(c) ==
  /\ cpc[c] = "sendall" /\ spc # "exit" /\ i' = [i EXCEPT ![c] = @ + 1] /\ line' = line
  /\ SendOn(c, i[c] \div Copies, IF i[c] + 1 = Awaited THEN "recv" ELSE "sendall")
  /\ UNCHANGED <<setup, spc, cause, buf, pdapi, cliaddr, stream, peeled, down, got, hist>>

ReadReplyMutant(c) ==
  /\ cpc[c] = "recv" /\ notes[c] = 0
  /\ \E s \in Outs :
       /\ down[c][s] # <<>> /\ down' = [down EXCEPT ![c][s] = Tail(@)]
       /\ got' = [got EXCEPT ![c] = Append(@, Head(down[c][s]))]
  /\ cpc' = [cpc EXCEPT ![c] = IF Len(got'[c]) > Awaited THEN "fgets" ELSE @]
  /\ UNCHANGED <<setup, spc, cause, buf, pdapi, cliaddr, stream, snotes, peeled, assoc, up,
                 notes, line, i, hist>>

\* recvmsg: the next reply of some stream.
ReadReply(c) ==
  /\ cpc[c] = "recv" /\ notes[c] = 0
  /\ \E s \in Outs :
       /\ down[c][s] # <<>> /\ down' = [down EXCEPT ![c][s] = Tail(@)]
       /\ got' = [got EXCEPT ![c] = Append(@, Head(down[c][s]))]
  /\ cpc' = [cpc EXCEPT ![c] = IF Len(got'[c]) = Awaited THEN "fgets" ELSE @]
  /\ UNCHANGED <<setup, spc, cause, buf, pdapi, cliaddr, stream, snotes, peeled, assoc, up,
                 notes, line, i, hist>>

\* sctp_strcli1: check_notification, and again.
CheckNotification(c) ==
  /\ cpc[c] = "recv" /\ notes[c] > 0 /\ notes' = [notes EXCEPT ![c] = @ - 1]
  /\ UNCHANGED <<setup, spc, cause, buf, pdapi, cliaddr, stream, snotes, peeled, net, cpc,
                 line, i, got, hist>>

\* End of input: close, in sctpclient02 after MSG_ABORT.
Bye(c) ==
  /\ cpc[c] = "fgets" /\ cpc' = [cpc EXCEPT ![c] = "exit"]
  /\ IF assoc[c] = "none" THEN UNCHANGED <<assoc, peeled, snotes, up, down>>
     ELSE /\ Ends(c)
          /\ up' \in {up, [up EXCEPT ![c] = [s \in Lanes |-> <<>>]]}
          /\ down' = [down EXCEPT ![c] = [s \in Outs |-> <<>>]]
  /\ UNCHANGED <<setup, spc, cause, buf, pdapi, cliaddr, stream, notes, line, i, got, hist>>

-----------------------------------------------------------------------------
\* The programs.
Serv01 == version = "serv01" /\ (Recv \/ IncrementStream \/ Send)
Serv02 == version = "serv02" /\ (Recv \/ IncrementStream \/ Send)
Serv03 == version = "serv03" /\ (Recv \/ IncrementStream \/ Send)
Serv04 == version = "serv04" /\ (Recv \/ IncrementStream \/ Send)
Serv05 == Reassembles /\ (Recv \/ Realloc \/ RecvMore \/ IncrementStream \/ Send)
Serv06 == version = "serv06" /\ (Notification \/ Recv \/ IncrementStream \/ Send)
Serv07 == version = "serv07" /\ (Notification \/ Recv \/ Send)
Srv09  == version = "srv09" /\ (Recv \/ IncrementStream \/ Send)
ServFork == version = "fork" /\ (Recv \/ Send \/ Peeloff)
Server ==
  Serv01 \/ Serv02 \/ Serv03 \/ Serv04 \/ Serv05 \/ Serv06 \/ Serv07 \/ Srv09 \/ ServFork

StrCli(c)    == kind = "cli" /\ (SendLine(c) \/ ReadReply(c))
StrCliUn(c)  == kind = "unordered" /\ (SendLine(c) \/ ReadReply(c))
StrCli1(c)   == kind = "notified" /\ (SendLine(c) \/ ReadReply(c) \/ CheckNotification(c))
EchoAll(c)   == kind = "echoall" /\ (NextLine(c) \/ SendAll(c) \/ ReadReply(c))
EchoTwice(c) == kind = "twice" /\ (NextLine(c) \/ SendAll(c) \/ ReadReply(c))
Client(c)    == StrCli(c) \/ StrCliUn(c) \/ StrCli1(c) \/ EchoAll(c) \/ EchoTwice(c)
Waits(c)     == ReadReply(c) \/ CheckNotification(c) \/ SendAll(c)
Kernel(c) == ShutdownArrives(c) \/ ShutdownComplete(c) \/ Autoclose(c) \/ Break(c)
Next ==
  \/ Server
  \/ \E c \in Clients : Client(c) \/ Bye(c) \/ Kernel(c) \/ ChildEcho(c)

Spec == Init /\ [][Next]_vars
FairSpec ==
  /\ Spec /\ WF_vars(Server)
  /\ \A c \in Clients : WF_vars(Waits(c)) /\ WF_vars(ChildEcho(c))

-----------------------------------------------------------------------------
(* Properties                                                                *)

Whole(c, reply, id) == reply = [k \in 1 .. Parts |-> [from |-> c, id |-> id, part |-> k]]

\* Nothing disturbs an association: no break, no piece taken for a message, no
\* other client's pieces in between.
Undisturbed == lost = 0 /\ ~split /\ ~glued

\* A client reads back its own messages of this line, whole; and those it sent
\* on one stream in the order it sent them, though the server moves them (the child
\* of sctpserv_fork has another stream than its parent had).
RepliesMatch ==
  Undisturbed => \A c \in Clients :
    /\ \A k \in DOMAIN got[c] : \E n \in 0 .. Awaited : Whole(c, got[c][k], <<line[c], n>>)
    /\ \A j, k \in DOMAIN got[c] :
         LET a == got[c][j][1].id[2]  b == got[c][k][1].id[2]
         IN  j < k => a # b \/ ~Echoing
    /\ kind = "twice" /\ version # "fork" => \A j, k \in DOMAIN got[c] :
         LET a == got[c][j][1].id[2]  b == got[c][k][1].id[2]
         IN  j < k /\ a \div 2 = b \div 2 => a < b

\* pdapi_recvmsg gives one message, unless its rest was lost, or the host mixes
\* pieces, for it asks neither whose they are nor which stream's.
OneMessage ==
  Reassembles /\ spc \in {"status", "send"} /\ lost = 0 /\ host # "mixed" =>
    Whole(cliaddr, buf, buf[1].id)

\* The buffer is as large as its size says; that of Chapter-23 reallocates the
\* increment alone.
BufferIsAllocated == size = alloc \/ version = "pdapi23"
FitsBuffer        == Reassembles => Len(buf) <= size

\* One client's association ends the server for all: when it goes while the
\* server is about to look at its streams, when the server, told not to increment,
\* has fewer streams than the client, and when MSG_EOF has been sent and another
\* message of the client was on its way.
ServerEndsOnlyFor ==
  /\ cause = "status"   => increment /\ version # "srv09" /\ (~Undisturbed \/ version = "serv03")
  /\ cause = "stream"   => ~increment /\ Outstrms < ClientStreams
  /\ cause = "shutdown" => version = "serv03"

SctpEchoes == RepliesMatch /\ OneMessage /\ BufferIsAllocated /\ FitsBuffer /\ ServerEndsOnlyFor

\* Who has asked is answered, while nothing is lost and the server runs.  With
\* MSG_EOF (sctpserv03) a client may ask before it learns that the association
\* ends, and the answer finds none.
Unanswerable ==
  spc = "exit" \/ ~Undisturbed \/ version = "serv03"
SctpAnswers == \A c \in Clients : cpc[c] = "recv" ~> cpc[c] # "recv" \/ Unanswerable
==============================================================================
