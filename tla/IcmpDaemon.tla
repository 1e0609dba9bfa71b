----------------------------- MODULE IcmpDaemon ------------------------------
(* icmpd: a daemon reads ICMP errors from two raw sockets and passes each to   *)
(* the client that owns the UDP port in it.  A client (icmpd/dgcli01.c) shows  *)
(* its UDP socket to the daemon over a Unix domain stream and is answered one  *)
(* byte; after that the stream carries errors.                                 *)
EXTENDS Integers, Sequences, FiniteSets

CONSTANTS Clients,
          V6,         \* the clients whose sockets are IPv6
          Ports,
          NSlots,     \* FD_SETSIZE, the size of client[]
          NoOne,      \* a slot without a client; no client
          MaxErrors   \* bound: datagrams that cause an ICMP error

ASSUME IcmpAssumption == NSlots \in Nat /\ NoOne \notin Clients

VARIABLES
  at,       \* each client: "new", "asking" to be registered, "registered", "quit"
  port,     \* the port of its UDP socket, 0 before and after
  backlog,  \* connections that the daemon has not accepted
  shown,    \* clients whose descriptor is in their stream, unread
  inbox,    \* for each client: "1", "error" for an icmpd_err, "eof"
  raw,      \* errors in the two raw sockets
  errors,   \* ICMP errors so far
  table,    \* client[]: [conn, family, lport]
  maxi,     \* largest slot ever used
  rset,     \* what select returned, of "listen", "v4", "v6" and clients
  nready,   \* descriptors of rset that are left
  pc,       \* of the daemon: "select", "listen", "v4", "v6", "conn", "killed"
  i,        \* the slot in the loop over client[]
  misled    \* clients that got an error for another's port

vars == <<at, port, backlog, shown, inbox, raw, errors, table, maxi, rset, nready,
          pc, i, misled>>
clientVars == <<at, port, shown>>
daemonVars == <<table, maxi, rset, nready, pc, i, misled>>

Slots     == 1 .. NSlots
Family(c) == IF c \in V6 THEN "v6" ELSE "v4"
Live(c)   == at[c] \in {"asking", "registered"}

\* client[i].connfd = -1; the other members of a static array are zero.
Init ==
  /\ at = [c \in Clients |-> "new"] /\ port = [c \in Clients |-> 0]
  /\ backlog = {} /\ shown = {} /\ inbox = [c \in Clients |-> <<>>]
  /\ raw = [f \in {"v4", "v6"} |-> <<>>] /\ errors = 0
  /\ table = [s \in Slots |-> [conn |-> NoOne, family |-> "none", lport |-> 0]]
  /\ maxi = 0 /\ rset = {} /\ nready = 0 /\ pc = "select" /\ i = 1 /\ misled = {}

-----------------------------------------------------------------------------
(* dg_cli of the clients                                                     *)

\* Sock_bind_wild, Connect, Write_fd.
Ask(c) ==
  /\ at[c] = "new" /\ pc # "killed"
  /\ at' = [at EXCEPT ![c] = "asking"]
  /\ \E p \in Ports :
       /\ \A d \in Clients : Family(d) = Family(c) => port[d] # p
       /\ port' = [port EXCEPT ![c] = p]
  /\ backlog' = backlog \cup {c} /\ shown' = shown \cup {c}
  /\ UNCHANGED <<inbox, raw, errors, daemonVars>>

\* The byte that is read is '1', or the client gives up: err_quit.
ReadReply(c) ==
  /\ at[c] = "asking" /\ inbox[c] # <<>>
  /\ IF Head(inbox[c]) = "1"
     THEN /\ at' = [at EXCEPT ![c] = "registered"]
          /\ inbox' = [inbox EXCEPT ![c] = Tail(@)] /\ UNCHANGED port
     ELSE /\ at' = [at EXCEPT ![c] = "quit"] /\ port' = [port EXCEPT ![c] = 0]
          /\ inbox' = [inbox EXCEPT ![c] = <<>>]
  /\ UNCHANGED <<backlog, shown, raw, errors, daemonVars>>

\* Sendto, and a router or the server's host that answers with an ICMP error.
SendAndFail(c) ==
  /\ at[c] = "registered" /\ errors < MaxErrors /\ errors' = errors + 1
  /\ raw' = [raw EXCEPT ![Family(c)] = Append(@, port[c])]
  /\ UNCHANGED <<clientVars, backlog, inbox, daemonVars>>

ReadError(c) ==
  /\ at[c] = "registered" /\ inbox[c] # <<>>
  /\ inbox' = [inbox EXCEPT ![c] = Tail(@)]
  /\ UNCHANGED <<clientVars, backlog, raw, errors, daemonVars>>

\* Read returns 0: the daemon has terminated.
DaemonGone(c) ==
  /\ pc = "killed" /\ Live(c) /\ inbox[c] = <<>>
  /\ at' = [at EXCEPT ![c] = "quit"] /\ port' = [port EXCEPT ![c] = 0]
  /\ UNCHANGED <<backlog, shown, inbox, raw, errors, daemonVars>>

\* End of input, or the end of a client for any other reason, its reply unread.
Quit(c) ==
  /\ Live(c) /\ at' = [at EXCEPT ![c] = "quit"]
  /\ port' = [port EXCEPT ![c] = 0] /\ inbox' = [inbox EXCEPT ![c] = <<>>]
  /\ UNCHANGED <<backlog, shown, raw, errors, daemonVars>>

-----------------------------------------------------------------------------
(* The daemon                                                                *)

ReadableConn(c) == /\ \E s \in Slots : table[s].conn = c
                   /\ c \in shown \/ ~Live(c)
ReadableNow ==
  {x \in {"listen"} : backlog # {}} \cup {f \in {"v4", "v6"} : raw[f] # <<>>}
    \cup {c \in Clients : ReadableConn(c)}

Select ==
  /\ pc = "select" /\ ReadableNow # {} /\ pc' = "listen"
  /\ rset' = ReadableNow /\ nready' = Cardinality(ReadableNow) /\ i' = 1
  /\ UNCHANGED <<clientVars, backlog, inbox, raw, errors, table, maxi, misled>>

\* return(--nready), and continue or break at zero.
Handled(next) == /\ nready' = nready - 1
                 /\ pc' = IF nready' <= 0 THEN "select" ELSE next

Skip(x, from, to) ==
  /\ pc = from /\ x \notin rset /\ pc' = to
  /\ UNCHANGED <<clientVars, backlog, inbox, raw, errors, table, maxi, rset, nready,
                 i, misled>>

\* The first slot without a descriptor; family and lport are left as they are.
FreeSlots == {s \in Slots : table[s].conn = NoOne}
TakeSlot(s, c) == table' = [table EXCEPT ![s].conn = c]
UpToMutant(s) == maxi
UpTo(s) == IF s > maxi THEN s ELSE maxi

ReadableListen ==
  /\ pc = "listen" /\ "listen" \in rset
  /\ \E c \in backlog :
       /\ backlog' = backlog \ {c}
       /\ IF FreeSlots # {}
          THEN \E s \in FreeSlots :
                 /\ \A t \in FreeSlots : s <= t
                 /\ TakeSlot(s, c)
                 /\ maxi' = UpTo(s)
                 /\ UNCHANGED inbox
          ELSE \* close: end of file for the client
               inbox' = [inbox EXCEPT ![c] = IF Live(c) THEN Append(@, "eof") ELSE @]
               /\ UNCHANGED <<table, maxi>>
  /\ Handled("v4")
  /\ UNCHANGED <<clientVars, raw, errors, rset, i, misled>>

\* The slots whose client is told of an error for port p.
MatchesMutant(s, f, p) == table[s].lport = p
Matches(s, f, p) == table[s].family = f /\ table[s].lport = p
Told(f, p) == {s \in 1 .. maxi : table[s].conn # NoOne /\ Matches(s, f, p)}

\* readable_v4 and readable_v6.  Write to a client that has gone is SIGPIPE.
ReadableRaw(f, next) ==
  LET p    == Head(raw[f])
      told == {table[s].conn : s \in Told(f, p)}
  IN
  /\ pc = f /\ f \in rset
  /\ raw' = [raw EXCEPT ![f] = Tail(@)]
  /\ IF \A c \in told : Live(c)
     THEN /\ inbox' = [c \in Clients |-> IF c \in told THEN Append(inbox[c], "error")
                                                       ELSE inbox[c]]
          /\ misled' = misled \cup {c \in told : <<Family(c), port[c]>> # <<f, p>>}
          /\ Handled(next)
     ELSE pc' = "killed" /\ UNCHANGED <<inbox, misled, nready>>
  /\ UNCHANGED <<clientVars, backlog, errors, table, maxi, rset, i>>

ReadableV4 == ReadableRaw("v4", "v6")
ReadableV6 == ReadableRaw("v6", "conn")

\* End of file: the client has gone.
ClientDone(s) == table' = [table EXCEPT ![s].conn = NoOne]

\* A descriptor: its family and port, '1' for the client.
Register(s, c) ==
  table' = [table EXCEPT ![s].family = Family(c), ![s].lport = port[c]]

Conn == table[i].conn
ReadableConnection ==
  /\ pc = "conn" /\ i <= maxi /\ Conn \in rset /\ i' = i + 1
  /\ LET c == Conn IN
     IF c \in shown
     THEN /\ shown' = shown \ {c}
          /\ IF Live(c)
             THEN /\ Register(i, c) /\ Handled("conn")
                  /\ inbox' = [inbox EXCEPT ![c] = Append(@, "1")]
             ELSE pc' = "killed" /\ UNCHANGED <<table, nready, inbox>>
     ELSE ClientDone(i) /\ Handled("conn") /\ UNCHANGED <<shown, inbox>>
  /\ UNCHANGED <<at, port, backlog, raw, errors, maxi, rset, misled>>

NextSlot ==
  /\ pc = "conn"
  /\ i <= maxi => Conn \notin rset
  /\ IF i < maxi THEN i' = i + 1 /\ UNCHANGED pc
                 ELSE pc' = "select" /\ UNCHANGED i
  /\ UNCHANGED <<clientVars, backlog, inbox, raw, errors, table, maxi, rset, nready,
                 misled>>

Daemon ==
  \/ Select \/ ReadableListen \/ ReadableV4 \/ ReadableV6
  \/ Skip("listen", "listen", "v4") \/ Skip("v4", "v4", "v6") \/ Skip("v6", "v6", "conn")
  \/ ReadableConnection \/ NextSlot

Client(c) == ReadReply(c) \/ ReadError(c) \/ DaemonGone(c)

Next ==
  \/ \E c \in Clients : Ask(c) \/ SendAndFail(c) \/ Client(c) \/ Quit(c)
  \/ Daemon

Spec == Init /\ [][Next]_vars

\* The daemon is scheduled and its clients read what they are sent.
FairSpec ==
  /\ Spec /\ WF_vars(Daemon)
  /\ \A c \in Clients : WF_vars(Client(c))

-----------------------------------------------------------------------------
(* Properties                                                                *)

\* Nobody is told of the errors of another's port (readable_v4.c:57-59) but a
\* newcomer: its slot still has the family and port of the client before it
\* (readable_listen.c:15), and it takes the error for the refusal of its request.
OnlyNewcomersMisled == \A c \in misled : at[c] # "registered"

\* Every client that asks is answered '1' or '0' or sees the daemon close its
\* stream (dgcli01.c:22), whatever others do meanwhile.  The daemon's own end
\* closes them all: it comes only of a client that has gone while its slot is
\* still taken (readable_v4.c:83), never of anything that those who stay do.
EndedByGone ==
  pc = "killed" => \E s \in Slots : table[s].conn # NoOne /\ ~Live(table[s].conn)
EveryClientAnswered ==
  (\A c \in Clients : at[c] = "asking" ~> at[c] # "asking") /\ []EndedByGone
==============================================================================
