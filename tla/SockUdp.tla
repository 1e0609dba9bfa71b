------------------------------ MODULE SockUdp --------------------------------
(* sock over UDP: loop_udp at both ends, or with -i source_udp and sink_udp.   *)
(* A datagram is its sender and its size.  The network loses datagrams; another *)
(* host sends to whoever has not connected its socket.  A connected socket is  *)
(* told by ICMP that nobody listens.  (Conversion is as in SockTcp.)           *)
EXTENDS SockLib, FiniteSets

CONSTANTS ReadLen,     \* readlen
          Nbuf,        \* nbuf
          MaxOptions,  \* bound: options on the two command lines
          MaxTyped,    \* bound: lines typed at each side
          MaxOther,    \* bound: datagrams from the other host
          MaxQueue     \* datagrams that a socket holds

VARIABLES
  opts,      \* letters of each command line
  pc,        \* "select", "stdin", "recv", "again", "source", "exit"
  ready,     \* rset after select
  lines,     \* lines not yet typed
  others,    \* datagrams the other host has still to send
  queue,     \* datagrams at each socket
  soerror,   \* a pending error on each socket
  servaddr,  \* loop_udp's own variable: "unset", or the sender of the last datagram
  i,         \* of source_udp
  shown,     \* the last datagram that was looked at with MSG_PEEK
  sentto,    \* history: the destinations the client sent to, each with servaddr
  halfclosed, cause

vars == <<opts, pc, ready, lines, others, queue, soerror, servaddr, i, shown, sentto,
          halfclosed, cause>>

Sides == {"client", "server"}
Peer(p) == IF p = "client" THEN "server" ELSE "client"
Has(p, o) == o \in opts[p]
Gone(p)   == pc[p] = "exit"
Nothing   == [from |-> "nobody", size |-> 0]
Sizes     == {1, ReadLen + 1}    \* of a line; the second does not fit rbuf

Init ==
  /\ opts \in [Sides -> SUBSET {"f", "h", "i", "o", "s", "u", "W", "Z"}]
  /\ \A p \in Sides : /\ (p = "server") <=> Has(p, "s")
                      /\ Has(p, "u") /\ MakesSense(opts[p])
                      /\ Has(p, "f") => p = "server"
                      /\ Has(p, "o") => p = "client"
                      /\ Has(p, "W") => Routine(opts[p]) = "source_udp"
  /\ Cardinality(opts["client"] \ {"u"}) + Cardinality(opts["server"] \ {"s", "u"})
       <= MaxOptions
  /\ pc = [p \in Sides |-> IF Routine(opts[p]) = "loop_udp" THEN "select"
                           ELSE IF Has(p, "s") THEN "recv" ELSE "source"]
  /\ ready = [p \in Sides |-> {}] /\ lines = [p \in Sides |-> MaxTyped]
  /\ others = MaxOther /\ queue = [p \in Sides |-> <<>>]
  /\ soerror = [p \in Sides |-> FALSE] /\ servaddr = "unset" /\ i = 1
  /\ shown = [p \in Sides |-> Nothing] /\ sentto = {} /\ halfclosed = FALSE
  /\ cause = [p \in Sides |-> "none"]

Go(p, place)  == pc' = [pc EXCEPT ![p] = place]
Exit(p, why)  == Go(p, "exit") /\ cause' = [cause EXCEPT ![p] = why]

-----------------------------------------------------------------------------
(* The network                                                               *)

\* -f connects the server to the client.
Connected(p) == IF p = "client" THEN ~Has(p, "o") ELSE Has(p, "f")

\* A datagram of p to q arrives, is lost, or finds nobody.
Deliver(p, q, size) ==
  \/ UNCHANGED <<queue, soerror>>
  \/ /\ q \in Sides /\ ~Gone(q) /\ Len(queue[q]) < MaxQueue
     /\ queue' = [queue EXCEPT ![q] = Append(@, [from |-> p, size |-> size])]
     /\ UNCHANGED soerror
  \/ /\ q \in Sides /\ Gone(q) /\ p \in Sides /\ Connected(p)
     /\ soerror' = [soerror EXCEPT ![p] = TRUE] /\ UNCHANGED queue

Other(p) ==
  /\ others > 0 /\ others' = others - 1 /\ ~Connected(p)
  /\ \E size \in Sizes \cup {0} : Deliver("other", p, size)
  /\ UNCHANGED <<opts, pc, ready, lines, servaddr, i, shown, sentto, halfclosed, cause>>

-----------------------------------------------------------------------------
(* loop_udp                                                                  *)

Readable(p) == queue[p] # <<>> \/ soerror[p]

Select(p) ==
  /\ pc[p] = "select"
  /\ \E R \in SUBSET {"stdin", "sock"} :
       /\ R # {} /\ ("sock" \in R <=> Readable(p))
       /\ ready' = [ready EXCEPT ![p] = R]
       /\ Go(p, IF "stdin" \in R THEN "stdin" ELSE "recv")
  /\ UNCHANGED <<opts, lines, others, queue, soerror, servaddr, i, shown, sentto,
                 halfclosed, cause>>

StdinEof(p) ==
  /\ pc[p] = "stdin" /\ lines[p] = 0
  /\ IF Has(p, "h")
     THEN Go(p, "select") /\ halfclosed' = TRUE /\ UNCHANGED cause
     ELSE Exit(p, "stdin") /\ UNCHANGED halfclosed
  /\ UNCHANGED <<opts, ready, lines, others, queue, soerror, servaddr, i, shown, sentto>>

DestinationMutant(p) == IF Has(p, "Z") THEN servaddr ELSE Peer(p)

\* write where connectudp is set, which it is for a server; sendto the local
\* servaddr with -o.  While nobody has set that, what it holds is no address
\* that sendto takes ("sendto error"), or the address of some other host.
Destination(p) == IF Has(p, "o") THEN servaddr ELSE Peer(p)

SendLine(p) ==
  /\ pc[p] = "stdin" /\ lines[p] > 0 /\ lines' = [lines EXCEPT ![p] = @ - 1]
  /\ IF soerror[p] \/ (~Has(p, "o") /\ ~Connected(p))
     THEN Exit(p, "write") /\ UNCHANGED <<queue, soerror, sentto>>
     ELSE \/ /\ Destination(p) = "unset" /\ Exit(p, "sendto")
             /\ UNCHANGED <<queue, soerror, sentto>>
          \/ /\ Go(p, IF "sock" \in ready[p] THEN "recv" ELSE "select") /\ UNCHANGED cause
             /\ \E size \in Sizes : Deliver(p, Destination(p), size)
             /\ sentto' = IF p = "client" THEN sentto \cup {<<Destination(p), servaddr>>}
                          ELSE sentto
  /\ UNCHANGED <<opts, ready, others, servaddr, i, shown, halfclosed>>

-----------------------------------------------------------------------------
(* The socket: loop_udp and sink_udp                                         *)

\* loop_udp's server and unconnected client call recvmsg and recvfrom; the
\* others call recv, with MSG_PEEK first under -Z, and leave at an empty datagram.
Loops(p)     == Routine(opts[p]) = "loop_udp"
CallsRecv(p) == ~Loops(p) \/ (p = "client" /\ Connected(p))
Peeks(p)     == CallsRecv(p) /\ Has(p, "Z") /\ pc[p] = "recv"

RecvMutant(p) ==
  /\ pc[p] \in {"recv", "again"} /\ ~soerror[p] /\ queue[p] # <<>>
  /\ LET d == Head(queue[p])
     IN  /\ IF CallsRecv(p) /\ d.size = 0
            THEN Exit(p, "closed")
            ELSE /\ Go(p, IF Peeks(p) THEN "again" ELSE IF Loops(p) THEN "select" ELSE "recv")
                 /\ UNCHANGED cause
         /\ queue' = [queue EXCEPT ![p] = Tail(@)]
         /\ shown' = [shown EXCEPT ![p] = IF Peeks(p) THEN d ELSE Nothing]
         /\ servaddr' = IF p = "client" /\ ~CallsRecv(p) THEN d.from ELSE servaddr
  /\ UNCHANGED <<opts, ready, lines, others, soerror, i, sentto, halfclosed>>

Recv(p) ==
  /\ pc[p] \in {"recv", "again"} /\ ~soerror[p] /\ queue[p] # <<>>
  /\ LET d == Head(queue[p])
     IN  /\ IF CallsRecv(p) /\ d.size = 0
            THEN Exit(p, "closed")
            ELSE /\ Go(p, IF Peeks(p) THEN "again" ELSE IF Loops(p) THEN "select" ELSE "recv")
                 /\ UNCHANGED cause
         /\ queue' = [queue EXCEPT ![p] = IF Peeks(p) THEN @ ELSE Tail(@)]
         /\ shown' = [shown EXCEPT ![p] = IF Peeks(p) THEN d ELSE Nothing]
         /\ servaddr' = IF p = "client" /\ ~CallsRecv(p) THEN d.from ELSE servaddr
  /\ UNCHANGED <<opts, ready, lines, others, soerror, i, sentto, halfclosed>>

RecvError(p) ==
  /\ pc[p] \in {"recv", "again"} /\ soerror[p] /\ Exit(p, "refused")
  /\ soerror' = [soerror EXCEPT ![p] = FALSE]
  /\ UNCHANGED <<opts, ready, lines, others, queue, servaddr, i, shown, sentto, halfclosed>>

-----------------------------------------------------------------------------
(* source_udp                                                                *)

\* write, or sendto the address that cliopen found; an error is ignored with -W.
Source(p) ==
  /\ pc[p] = "source" /\ i <= Nbuf
  /\ IF soerror[p]
     THEN /\ soerror' = [soerror EXCEPT ![p] = FALSE] /\ UNCHANGED <<queue, sentto>>
          /\ IF Has(p, "W") THEN i' = i + 1 /\ UNCHANGED <<pc, cause>>
             ELSE Exit(p, "write") /\ UNCHANGED i
     ELSE /\ Deliver(p, "server", WriteLen) /\ i' = i + 1
          /\ sentto' = sentto \cup {<<"server", servaddr>>} /\ UNCHANGED <<pc, cause>>
  /\ UNCHANGED <<opts, ready, lines, others, servaddr, shown, halfclosed>>

SourceEnds(p) ==
  /\ pc[p] = "source" /\ i > Nbuf /\ Exit(p, "done")
  /\ UNCHANGED <<opts, ready, lines, others, queue, soerror, servaddr, i, shown, sentto,
                 halfclosed>>

-----------------------------------------------------------------------------
Step(p) ==
  \/ Select(p) \/ StdinEof(p) \/ SendLine(p) \/ Recv(p) \/ RecvError(p)
  \/ Source(p) \/ SourceEnds(p) \/ Other(p)
Next == \E p \in Sides : Step(p)
Spec == Init /\ [][Next]_vars

-----------------------------------------------------------------------------
(* Properties                                                                *)

\* The client sends to the server of its command line, or with -o to whoever it
\* heard last.  But loop_udp's servaddr hides the one that cliopen filled in: with
\* -o and nothing heard yet the datagram goes to an address nobody set.
SentWhereNamed ==
  \A x \in sentto :
    LET d == x[1]  last == x[2]
    IN  d \in {"server", last} /\ (d = "unset" => Has("client", "o") /\ last = "unset")

\* The datagram read after MSG_PEEK is the one that was shown.
PeekedIsNext ==
  \A p \in Sides :
    pc[p] = "again" => shown[p] = (IF queue[p] = <<>> THEN Nothing ELSE Head(queue[p]))

\* loop_udp never calls shutdown.  "write error" ends a client whose server is
\* gone, and a server that is typed at without -f; with -W no source.  "sendto
\* error" ends a client with -o that has heard nothing yet.  A process
\* that says "connection closed by peer" has read an empty datagram: no sock
\* sends one, but with -w 0, so the other side is not the reason.
EndsForAReason ==
  /\ ~halfclosed
  /\ \A p \in Sides :
       /\ cause[p] \in {"write", "refused"} =>
            ~Has(p, "W") /\ (Gone(Peer(p)) \/ (p = "server" /\ ~Has(p, "f")))
       /\ cause[p] = "sendto" => p = "client" /\ Has(p, "o") /\ servaddr = "unset"
       /\ cause[p] = "closed" =>
            p = "server" /\ Has(p, "i") /\ (others < MaxOther \/ WriteLen = 0)

UdpAsNamed == SentWhereNamed /\ PeekedIsNext /\ EndsForAReason
==============================================================================
