------------------------------ MODULE MCTools -------------------------------
(* Two tools that the book builds, in one run: the ICMP daemon with its       *)
(* clients (IcmpDaemon), and sock, which opens its socket (SockOpen) and      *)
(* copies over TCP (SockTcp) or UDP (SockUdp); program says which of them     *)
(* runs. The proofs about both follow the properties.                         *)
EXTENDS IcmpDaemon, FiniteSetTheorems, WellFoundedInduction, SequenceTheorems, TLAPS

CONSTANTS MaxAsked, MaxConns, WriteLen, MaxIov, ReadLen, TcpBuffers,
          UdpBuffers, TcpOptions, UdpOptions, MaxInput, MaxTyped, MaxOther,
          MaxQueue

ASSUME ToolsAssumption ==
  /\ {MaxConns, WriteLen, MaxInput, MaxOther} \subseteq Nat
  /\ {ReadLen, MaxIov} \subseteq Nat \ {0}

VARIABLES
  program,  \* the one that runs
  so_cfg, so_pc, so_cause, so_fd, so_sroute, so_interrupted, so_queue,
  so_conns, so_child, so_childfd, so_sigflag, so_blocked, so_pending,
  st_opts, st_pc, st_ready, st_input, st_towrite, st_i, st_net, st_fin,
  st_reset, st_out, st_typed, st_wrote, st_cause,
  su_opts, su_pc, su_ready, su_lines, su_others, su_queue, su_soerror,
  su_servaddr, su_i, su_shown, su_sentto, su_halfclosed, su_cause

SO ==
  INSTANCE SockOpen WITH cfg <- so_cfg, pc <- so_pc, cause <- so_cause,
                         fd <- so_fd, sroute <- so_sroute,
                         interrupted <- so_interrupted, queue <- so_queue,
                         conns <- so_conns, child <- so_child,
                         childfd <- so_childfd, sigflag <- so_sigflag,
                         blocked <- so_blocked, pending <- so_pending
ST ==
  INSTANCE SockTcp WITH Nbuf <- TcpBuffers, MaxOptions <- TcpOptions,
                        opts <- st_opts, pc <- st_pc, ready <- st_ready,
                        input <- st_input, towrite <- st_towrite, i <- st_i,
                        net <- st_net, fin <- st_fin, reset <- st_reset,
                        out <- st_out, typed <- st_typed, wrote <- st_wrote,
                        cause <- st_cause
SU ==
  INSTANCE SockUdp WITH Nbuf <- UdpBuffers, MaxOptions <- UdpOptions,
                        opts <- su_opts, pc <- su_pc, ready <- su_ready,
                        lines <- su_lines, others <- su_others,
                        queue <- su_queue, soerror <- su_soerror,
                        servaddr <- su_servaddr, i <- su_i, shown <- su_shown,
                        sentto <- su_sentto, halfclosed <- su_halfclosed,
                        cause <- su_cause

so_vars == <<so_cfg, so_pc, so_cause, so_fd, so_sroute, so_interrupted,
             so_queue, so_conns, so_child, so_childfd, so_sigflag, so_blocked,
             so_pending>>
st_vars == <<st_opts, st_pc, st_ready, st_input, st_towrite, st_i, st_net,
             st_fin, st_reset, st_out, st_typed, st_wrote, st_cause>>
su_vars == <<su_opts, su_pc, su_ready, su_lines, su_others, su_queue,
             su_soerror, su_servaddr, su_i, su_shown, su_sentto, su_halfclosed,
             su_cause>>
all == <<vars, so_vars, st_vars, su_vars, program>>

\* One program runs; the others do not.
Daemoned == program = "icmpd" /\ UNCHANGED <<so_vars, st_vars, su_vars, program>>
Opening == program = "open" /\ UNCHANGED <<vars, st_vars, su_vars, program>>
Tcp == program = "tcp" /\ UNCHANGED <<vars, so_vars, su_vars, program>>
Udp == program = "udp" /\ UNCHANGED <<vars, so_vars, st_vars, program>>

Programs == {"icmpd", "open", "tcp", "udp"}

\* What does not run starts in one state.
SumInit ==
  /\ program \in Programs /\ Init
  /\ program = "open" \/ so_cfg = [flags |-> {}, asked |-> {}]
  /\ program = "tcp" \/ /\ st_opts = [p \in ST!Sides |-> IF p = "server" THEN {"s"} ELSE {}]
                        /\ st_input = [p \in ST!Sides |-> <<>>]
  /\ program = "udp" \/ su_opts = [p \in SU!Sides |-> IF p = "server" THEN {"s", "u"} ELSE {"u"}]
  /\ SO!Init /\ ST!Init /\ SU!Init

SumNext ==
  \/ Daemoned /\ Next
  \/ Opening /\ SO!Next
  \/ Tcp /\ ST!Next
  \/ Udp /\ SU!Next

\* The daemon and its clients are scheduled, and so are a server and its children.
SumSpec ==
  /\ SumInit /\ [][SumNext]_all
  /\ WF_all(Daemoned /\ Daemon)
  /\ \A x \in Clients : WF_all(Daemoned /\ Client(x))
  /\ WF_all(Opening /\ SO!Parent)
  /\ \A x \in SO!Children : WF_all(Opening /\ SO!Child(x))

-----------------------------------------------------------------------------
(* Properties                                                                *)

\* cliopen.c, servopen.c, sockopts.c, tellwait.c: see SockOpen.
SocketsAsAsked == SO!SetupSound

\* The daemon answers who asks (IcmpDaemon); sock -F goes on accepting (SockOpen).
AskersAreServed == EveryClientAnswered /\ SO!ConcurrentServerAccepts

\* looptcp.c, loopudp.c, source*.c, sink*.c: see SockTcp and SockUdp.
CopiesAsAsked == ST!CopiesFaithfully /\ SU!UdpAsNamed

-----------------------------------------------------------------------------
(* Why only newcomers are misled                                             *)

Bytes == {"1", "error", "eof"}
NoAnswer(q) == \A k \in 1 .. Len(q) : q[k] # "1"

TypeOK ==
  /\ at \in [Clients -> {"new", "asking", "registered", "quit"}]
  /\ port \in [Clients -> Ports \cup {0}]
  /\ backlog \subseteq Clients /\ shown \subseteq Clients /\ misled \subseteq Clients
  /\ inbox \in [Clients -> Seq(Bytes)]
  /\ table \in [Slots -> [conn : Clients \cup {NoOne},
                         family : {"none", "v4", "v6"}, lport : Ports \cup {0}]]
  /\ maxi \in 0 .. NSlots /\ i \in Nat \ {0}

\* A client has nothing before it asks; then it is in the backlog, its descriptor
\* unread, until it gets a slot, the only one.
OneSlot ==
  /\ \A c \in Clients : at[c] = "new" =>
       c \notin backlog \cup shown \cup misled /\ inbox[c] = <<>>
  /\ backlog \subseteq shown
  /\ \A s \in Slots :
       table[s].conn # NoOne => at[table[s].conn] # "new" /\ table[s].conn \notin backlog
  /\ \A s, t \in Slots : table[s].conn = table[t].conn /\ table[s].conn # NoOne => s = t

\* Until the daemon has read a client's descriptor it has not answered "1".
AnswerLast ==
  /\ \A c \in shown : at[c] # "registered"
  /\ \A c \in shown : at[c] = "asking" => NoAnswer(inbox[c])

\* From then on the client's slot has its family and port.
OwnSlot ==
  \A s \in Slots : LET c == table[s].conn IN
    c # NoOne /\ c \notin shown /\ Live(c) => Matches(s, Family(c), port[c])

\* A newcomer that was misled has not read the error yet, or has given up.
MisledInv ==
  \A c \in misled :
    /\ at[c] \in {"asking", "quit"}
    /\ at[c] = "asking" => inbox[c] # <<>> /\ Head(inbox[c]) # "1"

IInv == TypeOK /\ OneSlot /\ AnswerLast /\ OwnSlot /\ MisledInv

-----------------------------------------------------------------------------
(* The proof                                                                 *)

LEMMA InitInv == Init => IInv
<1> SUFFICES ASSUME Init PROVE IInv
  OBVIOUS
<1> USE DEF Init
<1>1. TypeOK
  BY IcmpAssumption DEF TypeOK, Slots
<1>2. OneSlot /\ AnswerLast /\ OwnSlot /\ MisledInv
  BY DEF OneSlot, AnswerLast, OwnSlot, MisledInv
<1> QED
  BY <1>1, <1>2 DEF IInv

\* What is appended to a client's stream leaves its head, and is read after it.
LEMMA Appended ==
  ASSUME NEW q \in Seq(Bytes), NEW x \in Bytes, NEW r, r = q \/ r = Append(q, x)
  PROVE  /\ r \in Seq(Bytes)
         /\ NoAnswer(q) /\ x # "1" => NoAnswer(r)
         /\ q # <<>> => r # <<>> /\ Head(r) = Head(q)
         /\ NoAnswer(q) /\ x # "1" /\ r = Append(q, x) => r # <<>> /\ Head(r) # "1"
<1>1. CASE r = q
  <2>1. r # Append(q, x)
    BY <1>1
  <2> QED
    BY <1>1, <2>1
<1>2. CASE r = Append(q, x)
  <2>1. r \in Seq(Bytes) /\ r # <<>> /\ Head(r) = IF q = <<>> THEN x ELSE Head(q)
    BY <1>2
  <2>2. \A k \in 1 .. Len(r) : r[k] = x \/ (k \in 1 .. Len(q) /\ r[k] = q[k])
    BY <1>2
  <2>3. NoAnswer(q) /\ x # "1" => NoAnswer(r)
    BY <2>2 DEF NoAnswer
  <2>4. q # <<>> => 1 \in 1 .. Len(q) /\ Head(q) = q[1]
    OBVIOUS
  <2>5. NoAnswer(q) /\ x # "1" => Head(r) # "1"
    BY <2>1, <2>4 DEF NoAnswer
  <2> QED
    BY <2>1, <2>3, <2>5
<1> QED
  BY <1>1, <1>2

\* What the clients do.
LEMMA ClientStep ==
  ASSUME IInv, NEW c \in Clients,
         Ask(c) \/ SendAndFail(c) \/ Client(c) \/ Quit(c)
  PROVE  IInv'
<1> USE DEF IInv, TypeOK, clientVars, daemonVars
<1>1. CASE Ask(c)
  <2>1. TypeOK'
    BY <1>1 DEF Ask
  <2>2. OneSlot'
    BY <1>1 DEF Ask, OneSlot
  <2>3. AnswerLast'
    BY <1>1 DEF Ask, AnswerLast, OneSlot, NoAnswer
  <2>4. OwnSlot'
    BY <1>1 DEF Ask, OwnSlot, Live, Family, Matches
  <2>5. MisledInv'
    BY <1>1 DEF Ask, MisledInv
  <2> QED
    BY <2>1, <2>2, <2>3, <2>4, <2>5
<1>2. CASE SendAndFail(c)
  BY <1>2 DEF SendAndFail, OneSlot, AnswerLast, OwnSlot, MisledInv, Live, Family, Matches
<1>3. CASE ReadReply(c)
  <2>1. TypeOK'
    <3>1. CASE Head(inbox[c]) = "1"
      <4>1. /\ inbox' = [inbox EXCEPT ![c] = Tail(inbox[c])] /\ UNCHANGED port
            /\ inbox[c] # <<>>
        BY <1>3, <3>1 DEF ReadReply
      <4>2. Tail(inbox[c]) \in Seq(Bytes)
        BY <4>1
      <4> QED
        BY <1>3, <3>1, <4>1, <4>2 DEF ReadReply
    <3>2. CASE Head(inbox[c]) # "1"
      <4>1. inbox' = [inbox EXCEPT ![c] = <<>>] /\ port' = [port EXCEPT ![c] = 0]
        BY <1>3, <3>2 DEF ReadReply
      <4>2. <<>> \in Seq(Bytes) /\ 0 \in Ports \cup {0}
        OBVIOUS
      <4> QED
        BY <1>3, <3>2, <4>1, <4>2 DEF ReadReply
    <3> QED
      BY <3>1, <3>2
  <2>2. OneSlot'
    BY <1>3 DEF ReadReply, OneSlot
  <2>3. AnswerLast'
    <3>1. \A d \in Clients \ {c} : at'[d] = at[d] /\ inbox'[d] = inbox[d]
      BY <1>3 DEF ReadReply
    <3>2. at'[c] # "asking" /\ shown' = shown
      BY <1>3 DEF ReadReply
    <3>3. ASSUME c \in shown PROVE at'[c] = "quit"
      <4>1. inbox[c] # <<>> /\ NoAnswer(inbox[c])
        BY <1>3, <3>3 DEF ReadReply, AnswerLast
      <4>2. Head(inbox[c]) # "1"
        BY <4>1 DEF NoAnswer
      <4> QED
        BY <1>3, <4>2 DEF ReadReply
    <3> QED
      BY <3>1, <3>2, <3>3 DEF AnswerLast
  <2>4. OwnSlot'
    BY <1>3 DEF ReadReply, OwnSlot, Live, Family, Matches
  <2>5. MisledInv'
    BY <1>3 DEF ReadReply, MisledInv
  <2> QED
    BY <2>1, <2>2, <2>3, <2>4, <2>5
<1>4. CASE ReadError(c)
  <2>1. TypeOK'
    BY <1>4 DEF ReadError
  <2>2. OneSlot' /\ AnswerLast'
    BY <1>4 DEF ReadError, OneSlot, AnswerLast
  <2>3. OwnSlot' /\ MisledInv'
    BY <1>4 DEF ReadError, OwnSlot, Live, Family, Matches, MisledInv
  <2> QED
    BY <2>1, <2>2, <2>3
<1>5. CASE DaemonGone(c) \/ Quit(c)
  <2>a. /\ at' = [at EXCEPT ![c] = "quit"] /\ port' = [port EXCEPT ![c] = 0]
        /\ inbox' \in {inbox, [inbox EXCEPT ![c] = <<>>]}
        /\ UNCHANGED <<backlog, shown, misled, table, maxi, i>>
    BY <1>5 DEF DaemonGone, Quit
  <2>1. TypeOK'
    <3>1. <<>> \in Seq(Bytes) /\ 0 \in Ports \cup {0}
      OBVIOUS
    <3>2. inbox' \in [Clients -> Seq(Bytes)]
      BY <2>a, <3>1
    <3> QED
      BY <2>a, <3>1, <3>2
  <2>b. at[c] # "new" /\ \A d \in Clients \ {c} : at'[d] = at[d] /\ inbox'[d] = inbox[d]
    BY <1>5, <2>a DEF DaemonGone, Quit, Live
  <2>2. OneSlot' /\ AnswerLast'
    BY <2>a, <2>b DEF OneSlot, AnswerLast
  <2>3. OwnSlot'
    <3>1. \A d \in Clients : Live(d)' => Live(d) /\ d # c /\ port'[d] = port[d]
      BY <2>a DEF Live
    <3>2. UNCHANGED <<table, shown>>
      BY <2>a
    <3> QED
      BY <3>1, <3>2 DEF OwnSlot, Family, Matches
  <2>4. MisledInv'
    BY <1>5 DEF DaemonGone, Quit, MisledInv
  <2> QED
    BY <2>1, <2>2, <2>3, <2>4
<1> QED
  BY <1>1, <1>2, <1>3, <1>4, <1>5 DEF Client

\* What the daemon does that changes neither the table nor a stream.
LEMMA PassStep ==
  ASSUME IInv, UNCHANGED <<clientVars, backlog, inbox, table, maxi, misled>>,
         i' \in Nat \ {0}
  PROVE  IInv'
BY DEF IInv, TypeOK, clientVars, OneSlot, AnswerLast, OwnSlot, MisledInv, Live, Family, Matches

\* What the daemon does when a client connects.
LEMMA ListenStep ==
  ASSUME IInv, ReadableListen
  PROVE  IInv'
<1> USE DEF IInv, TypeOK, clientVars
<1>0. PICK c \in backlog :
        /\ backlog' = backlog \ {c}
        /\ \/ /\ UNCHANGED inbox
              /\ \E s \in FreeSlots : TakeSlot(s, c) /\ maxi' = UpTo(s)
           \/ /\ inbox' = [inbox EXCEPT ![c] = IF Live(c) THEN Append(@, "eof") ELSE @]
              /\ UNCHANGED <<table, maxi>>
  BY DEF ReadableListen
<1>u. UNCHANGED <<at, port, shown, i, misled>>
  BY DEF ReadableListen
<1>c. c \in Clients /\ c \in shown /\ at[c] # "new" /\ at[c] # "registered"
  BY DEF OneSlot, AnswerLast
<1>1. CASE UNCHANGED inbox /\ \E s \in FreeSlots : TakeSlot(s, c) /\ maxi' = UpTo(s)
  <2>1. PICK s \in FreeSlots : TakeSlot(s, c) /\ maxi' = UpTo(s)
    BY <1>1
  <2>2. s \in Slots /\ s \in 1 .. NSlots /\ table[s].conn = NoOne
    BY DEF FreeSlots, Slots
  <2>3. /\ table' = [table EXCEPT ![s] = [@ EXCEPT !.conn = c]]
        /\ table'[s].conn = c
        /\ \A t \in Slots : t # s => table'[t] = table[t]
    BY <2>1, <2>2 DEF TakeSlot
  <2>4. TypeOK'
    <3>1. maxi' \in 0 .. NSlots
      BY <2>1, <2>2, IcmpAssumption DEF UpTo
    <3>2. table' \in [Slots -> [conn : Clients \cup {NoOne}, family : {"none", "v4", "v6"},
                               lport : Ports \cup {0}]]
      BY <1>c, <2>2, <2>3
    <3> QED
      BY <1>0, <1>1, <1>u, <3>1, <3>2
  <2>5. OneSlot'
    <3>1. \A t \in Slots : table[t].conn # c
      BY <1>c, IcmpAssumption DEF OneSlot
    <3>2. \A t \in Slots : table'[t].conn # NoOne =>
            at'[table'[t].conn] # "new" /\ table'[t].conn \notin backlog'
      BY <1>0, <1>c, <1>u, <2>3 DEF OneSlot
    <3>3. \A t, r \in Slots : table'[t].conn = table'[r].conn /\ table'[t].conn # NoOne => t = r
      BY <2>3, <3>1 DEF OneSlot
    <3> QED
      BY <1>0, <1>1, <1>u, <3>2, <3>3 DEF OneSlot
  <2>6. OwnSlot'
    BY <1>c, <1>u, <2>3 DEF OwnSlot, Live, Family, Matches
  <2>7. AnswerLast' /\ MisledInv'
    BY <1>1, <1>u DEF AnswerLast, MisledInv
  <2> QED
    BY <2>4, <2>5, <2>6, <2>7
<1>2. CASE /\ inbox' = [inbox EXCEPT ![c] = IF Live(c) THEN Append(@, "eof") ELSE @]
           /\ UNCHANGED <<table, maxi>>
  <2>1. /\ inbox[c] \in Seq(Bytes) /\ "eof" \in Bytes /\ "eof" # "1"
        /\ inbox'[c] = inbox[c] \/ inbox'[c] = Append(inbox[c], "eof")
        /\ inbox' = [inbox EXCEPT ![c] = inbox'[c]]
    BY <1>2, <1>c DEF Bytes
  <2>2. /\ inbox'[c] \in Seq(Bytes)
        /\ NoAnswer(inbox[c]) => NoAnswer(inbox'[c])
        /\ inbox[c] # <<>> => inbox'[c] # <<>> /\ Head(inbox'[c]) = Head(inbox[c])
    BY <2>1, Appended
  <2>3. \A d \in Clients : d # c => inbox'[d] = inbox[d]
    BY <1>2, <1>c
  <2>4. TypeOK'
    BY <1>0, <1>2, <1>u, <1>c, <2>1, <2>2
  <2>5. OneSlot'
    BY <1>0, <1>2, <1>u, <1>c, <2>3 DEF OneSlot
  <2>6. AnswerLast'
    BY <1>u, <1>c, <2>2, <2>3 DEF AnswerLast
  <2>7. OwnSlot'
    BY <1>2, <1>u DEF OwnSlot, Live, Family, Matches
  <2>8. MisledInv'
    BY <1>u, <1>c, <2>2, <2>3 DEF MisledInv
  <2> QED
    BY <2>4, <2>5, <2>6, <2>7, <2>8
<1> QED
  BY <1>0, <1>1, <1>2

\* An error is passed to the clients of its port, and to newcomers.
LEMMA RawStep ==
  ASSUME IInv, NEW f \in {"v4", "v6"}, NEW next, ReadableRaw(f, next)
  PROVE  IInv'
<1> USE DEF IInv, TypeOK, clientVars
<1> DEFINE p    == Head(raw[f])
           told == {table[s].conn : s \in Told(f, p)}
<1>u. UNCHANGED <<at, port, shown, backlog, table, maxi, i>>
  BY DEF ReadableRaw
<1>1. CASE UNCHANGED <<inbox, misled>>
  BY <1>1, <1>u, PassStep
<1>2. CASE /\ \A c \in told : Live(c)
           /\ inbox' = [c \in Clients |-> IF c \in told THEN Append(inbox[c], "error")
                                                        ELSE inbox[c]]
           /\ misled' = misled \cup {c \in told : <<Family(c), port[c]>> # <<f, p>>}
  <2>1. \A c \in told : \E s \in Slots : table[s].conn = c /\ c # NoOne /\ Matches(s, f, p)
    BY IcmpAssumption DEF Told, Slots
  <2>2. told \subseteq Clients
    <3> SUFFICES ASSUME NEW c \in told PROVE c \in Clients
      OBVIOUS
    <3>1. PICK s \in Slots : table[s].conn = c /\ c # NoOne
      BY <2>1
    <3>2. table[s].conn \in Clients \cup {NoOne}
      OBVIOUS
    <3> QED
      BY ONLY <3>1, <3>2
  <2>3. \A c \in told : at[c] # "new"
    BY <1>2 DEF Live
  <2>4. \A c \in told : <<Family(c), port[c]>> # <<f, p>> => c \in shown /\ at[c] = "asking"
    <3> SUFFICES ASSUME NEW c \in told, <<Family(c), port[c]>> # <<f, p>>
                 PROVE  c \in shown /\ at[c] = "asking"
      OBVIOUS
    <3>1. PICK s \in Slots : table[s].conn = c /\ c # NoOne /\ Matches(s, f, p)
      BY <2>1
    <3>2. Live(c)
      BY <1>2
    <3>3. c \in shown
      BY <3>1, <3>2 DEF OwnSlot, Matches
    <3> QED
      BY <3>2, <3>3 DEF AnswerLast, Live
  <2> HIDE DEF told, p
  <2>5. \A c \in Clients :
          /\ inbox[c] \in Seq(Bytes)
          /\ inbox'[c] = inbox[c] \/ inbox'[c] = Append(inbox[c], "error")
          /\ c \in told => inbox'[c] = Append(inbox[c], "error")
    BY <1>2
  <2>6. \A c \in Clients :
          /\ inbox'[c] \in Seq(Bytes)
          /\ NoAnswer(inbox[c]) => NoAnswer(inbox'[c])
          /\ inbox[c] # <<>> => inbox'[c] # <<>> /\ Head(inbox'[c]) = Head(inbox[c])
          /\ NoAnswer(inbox[c]) /\ c \in told => inbox'[c] # <<>> /\ Head(inbox'[c]) # "1"
    <3> TAKE c \in Clients
    <3>1. "error" \in Bytes /\ "error" # "1"
      BY DEF Bytes
    <3> QED
      BY ONLY <2>5, <3>1, Appended
  <2>7. TypeOK'
    BY <1>2, <1>u, <2>2, <2>6
  <2>8. OneSlot'
    <3>1. \A c \in Clients : at[c] = "new" => inbox'[c] = inbox[c] /\ c \notin misled'
      BY <1>2, <2>3 DEF OneSlot
    <3> QED
      BY <1>u, <3>1 DEF OneSlot
  <2>9. AnswerLast'
    BY <1>u, <2>6 DEF AnswerLast
  <2>10. OwnSlot'
    BY <1>u DEF OwnSlot, Live, Family, Matches
  <2>11. MisledInv'
    <3>1. \A c \in misled' \ misled : c \in told /\ c \in shown /\ at[c] = "asking"
      BY <1>2, <2>4
    <3>2. \A c \in misled' \ misled : inbox'[c] # <<>> /\ Head(inbox'[c]) # "1"
      BY <2>2, <2>6, <3>1 DEF AnswerLast
    <3> QED
      BY <1>u, <2>6, <3>1, <3>2 DEF MisledInv
  <2> QED
    BY <2>7, <2>8, <2>9, <2>10, <2>11
<1> QED
  BY <1>1, <1>2 DEF ReadableRaw

\* A descriptor is read, or the end of a client found.
LEMMA ConnectionStep ==
  ASSUME IInv, ReadableConnection
  PROVE  IInv'
<1> USE DEF IInv, TypeOK, clientVars
<1> DEFINE c == table[i].conn
<1>u. UNCHANGED <<at, port, backlog, maxi, misled>> /\ i' \in Nat \ {0}
  BY DEF ReadableConnection
<1>i. i \in Slots
  BY IcmpAssumption DEF ReadableConnection, Slots
<1>1. CASE shown' = shown \ {c} /\ UNCHANGED <<table, inbox>> /\ ~Live(c) /\ c \in shown
  <2>1. \A s \in Slots : table[s].conn = c => ~Live(c)
    BY <1>1
  <2>2. OneSlot'
    <3>1. c \notin backlog
      BY <1>1, <1>i, IcmpAssumption DEF OneSlot
    <3> QED
      BY <1>1, <1>u, <3>1 DEF OneSlot
  <2>3. TypeOK' /\ AnswerLast' /\ MisledInv'
    BY <1>1, <1>u DEF AnswerLast, MisledInv
  <2>4. OwnSlot'
    BY <1>1, <1>u DEF OwnSlot, Live, Family, Matches
  <2> QED
    BY <2>2, <2>3, <2>4
<1>2. CASE /\ c \in shown /\ Live(c) /\ shown' = shown \ {c} /\ Register(i, c)
           /\ inbox' = [inbox EXCEPT ![c] = Append(@, "1")]
  <2>1. c \in Clients /\ c # NoOne /\ at[c] = "asking" /\ c \notin backlog
    BY <1>2, <1>i, IcmpAssumption DEF Live, AnswerLast, OneSlot
  <2>2. Family(c) \in {"none", "v4", "v6"} /\ port[c] \in Ports \cup {0}
    BY <2>1 DEF Family
  <2>a. table' = [table EXCEPT ![i].family = Family(c), ![i].lport = port[c]]
    BY <1>2 DEF Register
  <2>3. \A s \in Slots : /\ table'[s].conn = table[s].conn
                         /\ s # i => table'[s] = table[s]
    BY <1>i, <2>a
  <2>4. table'[i].family = Family(c) /\ table'[i].lport = port[c]
    BY <1>i, <2>a
  <2>b. table' \in [Slots -> [conn : Clients \cup {NoOne}, family : {"none", "v4", "v6"},
                            lport : Ports \cup {0}]]
    BY <1>i, <2>2, <2>a
  <2>5. inbox[c] \in Seq(Bytes) /\ "1" \in Bytes /\ inbox'[c] = Append(inbox[c], "1")
    BY <1>2, <2>1 DEF Bytes
  <2>6. /\ inbox'[c] \in Seq(Bytes)
        /\ inbox[c] # <<>> => inbox'[c] # <<>> /\ Head(inbox'[c]) = Head(inbox[c])
    BY <2>5, Appended
  <2>7. \A d \in Clients : d # c => inbox'[d] = inbox[d]
    BY <1>2
  <2>8. inbox' = [inbox EXCEPT ![c] = inbox'[c]]
    BY <1>2, <2>5
  <2>9. TypeOK'
    BY <1>2, <1>u, <2>b, <2>6, <2>8
  <2>10. OneSlot'
    <3>1. \A d \in Clients : at'[d] = "new" =>
            d \notin backlog' \cup shown' \cup misled' /\ inbox'[d] = <<>>
      BY <1>2, <1>u, <2>1, <2>7 DEF OneSlot
    <3>2. backlog' \subseteq shown'
      BY <1>2, <1>u, <2>1 DEF OneSlot
    <3>3. \A s \in Slots : table'[s].conn # NoOne =>
            at'[table'[s].conn] # "new" /\ table'[s].conn \notin backlog'
      BY <1>u, <2>3 DEF OneSlot
    <3>4. \A s, r \in Slots : table'[s].conn = table'[r].conn /\ table'[s].conn # NoOne => s = r
      BY <2>3 DEF OneSlot
    <3> QED
      BY ONLY <3>1, <3>2, <3>3, <3>4 DEF OneSlot
  <2>11. AnswerLast'
    BY <1>2, <1>u, <2>7 DEF AnswerLast
  <2>12. OwnSlot'
    <3> SUFFICES ASSUME NEW s \in Slots, NEW d, d = table[s].conn, d # NoOne,
                        d \notin shown', Live(d)
                 PROVE  table'[s].family = Family(d) /\ table'[s].lport = port[d]
      <4>1. \A s \in Slots : table'[s].conn # NoOne /\ table'[s].conn \notin shown'
                                 /\ Live(table'[s].conn)
              => table'[s].family = Family(table'[s].conn) /\ table'[s].lport = port[table'[s].conn]
        BY <2>3
      <4> QED
        BY ONLY <1>u, <4>1 DEF OwnSlot, Live, Matches, Family
    <3>1. CASE s = i
      BY <2>4, <3>1
    <3>2. CASE s # i
      <4>1. d # c
        BY <1>i, <2>1, <3>2 DEF OneSlot
      <4>2. table[s].family = Family(d) /\ table[s].lport = port[d]
        BY <1>2, <4>1 DEF OwnSlot, Matches
      <4> QED
        BY ONLY <2>3, <3>2, <4>2, s \in Slots
    <3> QED
      BY <3>1, <3>2
  <2>13. MisledInv'
    BY <1>u, <2>1, <2>6, <2>7 DEF MisledInv
  <2> QED
    BY <2>9, <2>10, <2>11, <2>12, <2>13
<1>3. CASE c \notin shown /\ ClientDone(i) /\ UNCHANGED <<shown, inbox>>
  <2>1. /\ table' = [table EXCEPT ![i] = [@ EXCEPT !.conn = NoOne]]
        /\ table'[i].conn = NoOne
        /\ \A s \in Slots : s # i => table'[s] = table[s]
    BY <1>3, <1>i DEF ClientDone
  <2>2. TypeOK'
    BY <1>3, <1>u, <1>i, <2>1
  <2>3. OneSlot'
    BY <1>3, <1>u, <2>1 DEF OneSlot
  <2>4. AnswerLast' /\ MisledInv'
    BY <1>3, <1>u DEF AnswerLast, MisledInv
  <2>5. OwnSlot'
    BY <1>3, <1>u, <2>1 DEF OwnSlot, Live, Family, Matches
  <2> QED
    BY <2>2, <2>3, <2>4, <2>5
<1> QED
  BY <1>1, <1>2, <1>3 DEF ReadableConnection, Conn

\* A client that is sent the error of another's port is one whose descriptor the
\* daemon has not read: it takes the error for a refusal and ends, so that no
\* registered client is misled, with any clients, ports and slots
\* (readable_listen.c:15, readable_v4.c:57-59, dgcli01.c:22).
THEOREM OnlyNewcomers == Spec => []OnlyNewcomersMisled
<1>1. IInv /\ [Next]_vars => IInv'
  <2> SUFFICES ASSUME IInv, [Next]_vars PROVE IInv'
    OBVIOUS
  <2>1. ASSUME NEW c \in Clients, Ask(c) \/ SendAndFail(c) \/ Client(c) \/ Quit(c)
        PROVE  IInv'
    BY <2>1, ClientStep
  <2>2. CASE \/ Select \/ NextSlot \/ UNCHANGED vars \/ Skip("listen", "listen", "v4")
             \/ Skip("v4", "v4", "v6") \/ Skip("v6", "v6", "conn")
    <3>1. i' \in Nat \ {0} /\ UNCHANGED <<clientVars, backlog, inbox, table, maxi, misled>>
      BY <2>2 DEF Select, NextSlot, Skip, vars, clientVars, IInv, TypeOK
    <3> QED
      BY <3>1, PassStep
  <2>3. CASE ReadableListen
    BY <2>3, ListenStep
  <2>4. CASE ReadableV4 \/ ReadableV6
    BY <2>4, RawStep DEF ReadableV4, ReadableV6
  <2>5. CASE ReadableConnection
    BY <2>5, ConnectionStep
  <2> QED
    BY <2>1, <2>2, <2>3, <2>4, <2>5 DEF Next, Daemon
<1>2. IInv => OnlyNewcomersMisled
  BY DEF IInv, MisledInv, OnlyNewcomersMisled
<1> QED
  BY InitInv, <1>1, <1>2, PTL DEF Spec

-----------------------------------------------------------------------------
(* Why sockets are set up as asked                                           *)

\* Where main is while it makes its socket, serves, and waits for a child that
\* it has forked (servopen.c:103-117).
Making  == {"bind", "join", "buffers", "sockopts0", "sockopts1", "connect", "newfd"}
Serving == {"accept", "test", "call", "suspend", "clear"}
Telling == Serving \ {"accept"}

\* Types.
SoTypes ==
  /\ so_cfg.flags \subseteq SO!Flags /\ so_cfg.asked \subseteq SO!Options
  /\ so_pc \in Making \cup Serving \cup {"listen", "ready", "exit"}
  /\ so_fd \subseteq SO!Options
  /\ so_child \in [SO!Children -> {"none", "start", "ready", "gone"}]
  /\ so_childfd \in [SO!Children -> SUBSET SO!Options]
  /\ so_sroute \in BOOLEAN /\ so_interrupted \in BOOLEAN
  /\ so_sigflag \in BOOLEAN /\ so_pending \in BOOLEAN /\ so_blocked \in BOOLEAN

\* Which calls main reaches with which switches: cliopen.c, and servopen.c after
\* its return for UDP.
Route ==
  /\ SO!Is("dofork") \/ SO!Is("propagates") => SO!Is("server") /\ ~SO!Is("udp")
  /\ SO!Is("unconnected") => SO!Is("udp") /\ ~SO!Is("server")
  /\ SO!Is("foreign") => SO!Is("udp") /\ SO!Is("server")
  /\ so_pc = "join" => SO!Is("server")
  /\ so_pc \in Serving \cup {"listen", "newfd"} => SO!Is("server") /\ ~SO!Is("udp")
  /\ so_pc \in Telling => SO!Is("dofork")
  /\ so_pc = "newfd" => ~SO!Is("dofork")
  /\ so_pc \in {"connect", "sockopts1"} => ~SO!Is("server") \/ SO!Is("udp")
  /\ so_pc = "sockopts0" => ~(SO!Is("server") /\ SO!Is("udp"))
  /\ so_pc = "ready" => ~SO!Is("dofork")

\* Which of the options asked for the socket has by then: buffers() and
\* sockopts(fd, 0) come before connect and listen, sockopts(fd, 1) after; a child
\* has what the listening socket hands on (sockopts.c, servopen.c).
Stage ==
  /\ so_pc \notin {"bind", "newfd", "exit"} =>
       SO!Wanted({"reuse"}) \subseteq so_fd \/ so_pc = "ready"
  /\ so_pc \in Serving \cup {"sockopts0", "sockopts1", "connect", "listen"} =>
       SO!Wanted({"rcvbuf"}) \subseteq so_fd
  /\ so_pc \in Serving \cup {"listen"} => SO!Wanted({"tos", "maxseg", "sroute"}) \subseteq so_fd
  /\ ~SO!Is("server") /\ so_pc \in {"connect", "sockopts1"} =>
       /\ SO!Wanted({"tos", "sroute"}) \subseteq so_fd
       /\ ~SO!Is("udp") => SO!Wanted({"maxseg"}) \subseteq so_fd
  /\ SO!Asked("sroute") /\ so_pc \in {"bind", "join", "buffers", "sockopts0"} => so_sroute
  /\ SO!Asked("sroute") /\ so_pc \in {"connect", "sockopts1"} => so_sroute \/ "sroute" \in so_fd
  /\ so_pc = "newfd" /\ SO!Is("propagates") =>
       SO!Wanted({"reuse", "tos", "sroute"}) \subseteq so_fd
  /\ "sigio" \in so_fd => SO!Asked("sigio")
  /\ so_interrupted => SO!Asked("sigio") /\ ~SO!Is("server")
  /\ "join" \in so_fd /\ SO!Is("server") /\ so_pc \in Making \ {"newfd"} => SO!InMulticast
  /\ \A k \in SO!Children : SO!Is("propagates") /\ so_child[k] = "start" =>
       SO!Wanted({"reuse", "tos", "sroute"}) \subseteq so_childfd[k]

\* tellwait.c: while the parent waits, k is the child it has forked last and the
\* only one that can still signal; it has not, or its signal is pending or has
\* set sigflag.  SIGUSR2 is blocked for the first child alone, so that its signal
\* comes in sigsuspend.
Before(k) == \A j \in SO!Children \ {k} : so_child[j] \in {"none", "ready"}
Handshake ==
  /\ so_pc \notin Serving \cup {"exit"} => so_child = [k \in SO!Children |-> "none"]
  /\ (\E k \in SO!Children : so_child[k] # "none") => SO!Is("dofork")
  /\ so_pc \notin Telling =>
       /\ \A k \in SO!Children : so_child[k] \in {"none", "ready"}
       /\ ~so_pending /\ ~so_sigflag
  /\ so_pc = "accept" /\ SO!Is("dofork") =>
       (so_blocked <=> \A k \in SO!Children : so_child[k] = "none")
  /\ so_pc \in Telling => \E k \in SO!Children :
       /\ Before(k)
       /\ so_child[k] # "none"
       /\ so_child[k] \in {"start", "gone"} => ~so_pending /\ ~so_sigflag
       /\ so_child[k] = "ready" => (so_pending <=> ~so_sigflag)
       /\ so_blocked <=> \A j \in SO!Children \ {k} : so_child[j] = "none"
  /\ so_pc = "clear" => so_sigflag
  /\ so_blocked /\ so_pc \in {"call", "suspend"} => ~so_sigflag

\* The inductive invariant.
SoInv == SoTypes /\ Route /\ Stage /\ Handshake /\ SO!SetupSound

-----------------------------------------------------------------------------
(* The proof                                                                 *)

\* main starts with no option set and no child.
LEMMA SoInit == SO!Init => SoInv
<1> SUFFICES ASSUME SO!Init PROVE SoInv
  OBVIOUS
<1> USE DEF SO!Init, SO!Is, SO!Asked
<1>1. SoTypes
  <2>1. so_cfg.flags \subseteq SO!Flags /\ so_cfg.asked \subseteq SO!Options
    OBVIOUS
  <2>2. so_sroute \in BOOLEAN
    <3>1. so_sroute = ("sroute" \in so_cfg.asked)
      OBVIOUS
    <3> QED
      BY ONLY <3>1
  <2>3. /\ so_child \in [SO!Children -> {"none", "start", "ready", "gone"}]
        /\ so_childfd \in [SO!Children -> SUBSET SO!Options]
        /\ so_pc = "bind" /\ so_fd = {}
        /\ ~so_interrupted /\ ~so_sigflag /\ ~so_pending /\ ~so_blocked
        /\ so_interrupted \in BOOLEAN /\ so_sigflag \in BOOLEAN
        /\ so_pending \in BOOLEAN /\ so_blocked \in BOOLEAN
    OBVIOUS
  <2> HIDE DEF SO!Init
  <2> QED
    BY <2>1, <2>2, <2>3 DEF SoTypes, Making, Serving
<1>2. Route /\ Stage
  BY DEF Route, Stage, Making, Serving, Telling
<1>3. Handshake
  BY DEF Handshake, Serving, Telling
<1>4. SO!SetupSound
  BY DEF SO!SetupSound, SO!BeforeSyn, SO!OptionsInEffect, SO!GivesUpOnlyFor, SO!SleepsInVain
<1> QED
  BY <1>1, <1>2, <1>3, <1>4 DEF SoInv

\* Where main goes after buffers(): to connect or sockopts(fd, 1) for UDP servers.
LEMMA AfterBuffers ==
  ASSUME Route, SO!Buffers
  PROVE  \/ so_pc' = "sockopts0" /\ ~(SO!Is("server") /\ SO!Is("udp"))
         \/ so_pc' \in {"connect", "sockopts1"} /\ SO!Is("server") /\ SO!Is("udp")
<1>1. CASE ~(SO!Is("server") /\ SO!Is("udp"))
  <2>1. ~SO!Is("foreign")
    BY <1>1 DEF Route
  <2> QED
    BY <1>1, <2>1 DEF SO!Buffers
<1>2. CASE SO!Is("server") /\ SO!Is("udp")
  BY <1>2 DEF SO!Buffers
<1> QED
  BY <1>1, <1>2

\* What sockopts() sets and where main goes then, or why it gives up.
LEMMA AfterSockopts ==
  ASSUME Route, SO!Sockopts0 \/ SO!Sockopts1
  PROVE  /\ so_pc \in {"sockopts0", "sockopts1"}
         /\ UNCHANGED <<so_cfg, so_interrupted, so_queue, so_conns, so_child, so_childfd,
                        so_sigflag, so_blocked, so_pending>>
         /\ \/ so_pc' = "exit" /\ so_cause' = "joined_twice" /\ UNCHANGED <<so_fd, so_sroute>>
               /\ SO!Asked("join") /\ "join" \in so_fd
            \/ /\ so_cause' = so_cause /\ so_sroute' = FALSE
               /\ \/ /\ so_pc = "sockopts0" /\ so_fd' = so_fd \cup SO!SetWhen(FALSE)
                     /\ \/ so_pc' = "listen" /\ SO!Is("server")
                        \/ so_pc' = "connect" /\ ~SO!Is("server")
                        \/ so_pc' = "sockopts1" /\ SO!Is("unconnected") /\ ~SO!Is("server")
                  \/ /\ so_pc = "sockopts1" /\ so_fd' = so_fd \cup SO!SetWhen(TRUE)
                     /\ so_pc' = "ready"
<1> USE DEF SO!tell, SO!net, SO!Quit, SO!Sockopts
<1>1. CASE SO!Sockopts1
  BY <1>1 DEF SO!Sockopts1
<1>2. CASE SO!Sockopts0
  <2>1. so_pc = "sockopts0"
    BY <1>2 DEF SO!Sockopts0
  <2>2. CASE SO!Is("server")
    <3>1. ~SO!Is("unconnected")
      BY <2>2 DEF Route
    <3> QED
      BY <1>2, <2>1, <2>2, <3>1 DEF SO!Sockopts0
  <2>3. CASE ~SO!Is("server") /\ ~SO!Is("unconnected")
    BY <1>2, <2>1, <2>3 DEF SO!Sockopts0
  <2>4. CASE ~SO!Is("server") /\ SO!Is("unconnected")
    BY <1>2, <2>1, <2>4 DEF SO!Sockopts0
  <2> QED
    BY <2>2, <2>3, <2>4
<1> QED
  BY <1>1, <1>2

\* Every step of the program keeps the types.
LEMMA SoTypesStep == SoInv /\ [SO!Next]_so_vars => SoTypes'
<1> SUFFICES ASSUME SoInv, [SO!Next]_so_vars PROVE SoTypes'
  OBVIOUS
<1>i. SoTypes
  BY DEF SoInv
<1>w. /\ \A S : SO!Wanted(S) \subseteq SO!Options
      /\ \A d \in BOOLEAN : SO!SetWhen(d) \subseteq SO!Options
  <2>1. \A S : SO!Wanted(S) \subseteq SO!Options
    BY <1>i DEF SO!Wanted, SoTypes
  <2> QED
    BY <2>1 DEF SO!SetWhen, SO!DebugAndRoute, SO!TypeOfService, SO!SegmentSize, SO!SourceRoute,
       SO!BroadcastAndGroup, SO!AfterConnect, SO!Timeouts, SO!Notification, SO!Options
<1> USE DEF SO!tell, SO!net, SO!Quit
<1>1. CASE UNCHANGED so_vars
  BY <1>1, <1>i DEF so_vars, SoTypes
<1>2. CASE SO!Bind \/ SO!Buffers \/ SO!Connect \/ SO!Listen
  <2>1. CASE SO!Bind \/ SO!Connect
    BY <2>1, <1>i, <1>w DEF SO!Bind, SO!Connect, SoTypes, Making, Serving
  <2>2. CASE SO!Buffers
    BY <2>2, <1>i, <1>w, AfterBuffers DEF SO!Buffers, SoTypes, Making, Serving, SoInv
  <2>3. CASE SO!Listen
    <3>1. so_blocked' = ("dofork" \in so_cfg.flags)
      BY <2>3 DEF SO!Listen, SO!TellWait, SO!Is
    <3>2. so_blocked' \in BOOLEAN
      BY ONLY <3>1
    <3> QED
      BY <2>3, <3>2, <1>i DEF SO!Listen, SoTypes, Making, Serving
  <2> QED
    BY <1>2, <2>1, <2>2, <2>3
<1>3. CASE SO!JoinMcast
  BY <1>3, <1>i DEF SO!JoinMcast, SO!Options, SoTypes, Making, Serving
<1>4. CASE SO!Sockopts0 \/ SO!Sockopts1
  BY <1>4, <1>i, <1>w, AfterSockopts DEF SoTypes, Making, Serving, SoInv
<1>5. CASE SO!Accept
  BY <1>5, <1>i DEF SO!Accept, SO!Inherited, SoTypes, Making, Serving
<1>6. CASE SO!NewSocket
  BY <1>6, <1>i, <1>w DEF SO!NewSocket, SO!SetUp, SoTypes, Making, Serving
<1>7. CASE SO!TestFlag \/ SO!Sigsuspend \/ SO!SigUsr \/ SO!ClearFlag
  BY <1>7, <1>i DEF SO!TestFlag, SO!Sigsuspend, SO!SigUsr, SO!ClearFlag, SoTypes, Making, Serving
<1>8. CASE SO!ConnectEINTR \/ SO!ConnectEALREADY \/ SO!KernelRefuses \/ SO!ForkFails
         \/ SO!Arrive
  BY <1>8, <1>i DEF SO!ConnectEINTR, SO!ConnectEALREADY, SO!KernelRefuses, SO!ForkFails, SO!Arrive,
     SoTypes, Making, Serving
<1>9. ASSUME NEW c \in SO!Children, SO!Child(c) PROVE SoTypes'
  <2>1. CASE SO!ChildReady(c)
    <3>1. SO!SetUp(so_childfd[c]) \subseteq SO!Options
      BY <1>i, <1>w DEF SO!SetUp, SoTypes
    <3> QED
      BY <2>1, <3>1, <1>i DEF SO!ChildReady, SoTypes
  <2>2. CASE SO!ChildFails(c)
    BY <2>2, <1>i DEF SO!ChildFails, SoTypes
  <2> QED
    BY <1>9, <2>1, <2>2 DEF SO!Child
<1> QED
  BY <1>1, <1>2, <1>3, <1>4, <1>5, <1>6, <1>7, <1>8, <1>9 DEF SO!Next, SO!Parent

\* Every step keeps to the calls of the switches given.
LEMMA RouteStep == SoInv /\ [SO!Next]_so_vars => Route'
<1> SUFFICES ASSUME SoInv, [SO!Next]_so_vars PROVE Route'
  OBVIOUS
<1>i. SoTypes /\ Route
  BY DEF SoInv
<1> USE DEF SO!tell, SO!net, SO!Quit, SO!Is, Serving, Telling
<1>1. CASE UNCHANGED so_vars
  BY <1>1, <1>i DEF so_vars, Route
<1>2. CASE SO!Bind \/ SO!Buffers \/ SO!Connect \/ SO!Listen
  <2>1. CASE SO!Buffers
    BY <2>1, <1>i, AfterBuffers DEF SO!Buffers, Route
  <2> QED
    BY <1>2, <2>1, <1>i DEF SO!Bind, SO!Connect, SO!Listen, Route
<1>3. CASE SO!JoinMcast
  BY <1>3, <1>i DEF SO!JoinMcast, Route
<1>4. CASE SO!Sockopts0 \/ SO!Sockopts1
  BY <1>4, <1>i, AfterSockopts DEF Route
<1>5. CASE SO!Accept \/ SO!NewSocket
  BY <1>5, <1>i DEF SO!Accept, SO!NewSocket, Route
<1>7. CASE SO!TestFlag \/ SO!Sigsuspend \/ SO!SigUsr \/ SO!ClearFlag
  BY <1>7, <1>i DEF SO!TestFlag, SO!Sigsuspend, SO!SigUsr, SO!ClearFlag, Route
<1>8. CASE SO!ConnectEINTR \/ SO!ConnectEALREADY \/ SO!KernelRefuses \/ SO!ForkFails
         \/ SO!Arrive
  BY <1>8, <1>i DEF SO!ConnectEINTR, SO!ConnectEALREADY, SO!KernelRefuses, SO!ForkFails, SO!Arrive, Route
<1>9. ASSUME NEW c \in SO!Children, SO!Child(c) PROVE Route'
  BY <1>9, <1>i DEF SO!Child, SO!ChildReady, SO!ChildFails, Route
<1> QED
  BY <1>1, <1>2, <1>3, <1>4, <1>5, <1>7, <1>8, <1>9 DEF SO!Next, SO!Parent

\* Every step sets the options of its stage.
LEMMA StageStep == SoInv /\ [SO!Next]_so_vars => Stage'
<1> SUFFICES ASSUME SoInv, [SO!Next]_so_vars PROVE Stage'
  OBVIOUS
<1>i. SoTypes /\ Route /\ Stage
  BY DEF SoInv
<1> USE DEF SO!tell, SO!net, SO!Quit, SO!Is, SO!Asked, SO!Wanted, Making, Serving, Telling,
            SO!InMulticast
<1>1. CASE UNCHANGED so_vars
  BY <1>1, <1>i DEF so_vars, Stage
<1>2. CASE SO!Bind \/ SO!Buffers \/ SO!Connect \/ SO!Listen
  <2>1. CASE SO!Buffers
    BY <2>1, <1>i, AfterBuffers DEF SO!Buffers, Stage, SoTypes
  <2>2. CASE SO!Bind
    <3>1. so_fd' = SO!Wanted({"reuse"}) /\ so_pc' \in {"join", "buffers"}
          /\ UNCHANGED <<so_cfg, so_sroute, so_interrupted, so_child, so_childfd>>
          /\ so_pc = "bind"
      BY <2>2 DEF SO!Bind
    <3> QED
      BY <3>1, <1>i DEF Stage
  <2>3. CASE SO!Connect
    BY <2>3, <1>i DEF SO!Connect, Stage, Route
  <2>4. CASE SO!Listen
    BY <2>4, <1>i DEF SO!Listen, Stage
  <2> QED
    BY <1>2, <2>1, <2>2, <2>3, <2>4
<1>3. CASE SO!JoinMcast
  BY <1>3, <1>i DEF SO!JoinMcast, Stage
<1>4. CASE SO!Sockopts0 \/ SO!Sockopts1
  <2>0. UNCHANGED <<so_cfg, so_interrupted, so_child, so_childfd>>
    BY <1>4, <1>i, AfterSockopts
  <2>1. CASE so_pc' = "exit" /\ UNCHANGED so_fd
    BY <2>0, <2>1, <1>i DEF Stage
  <2>2. CASE /\ so_pc = "sockopts0" /\ so_fd' = so_fd \cup SO!SetWhen(FALSE)
             /\ \/ so_pc' = "listen" /\ SO!Is("server")
                \/ so_pc' \in {"connect", "sockopts1"} /\ ~SO!Is("server")
    <3>1. /\ SO!Wanted({"tos"}) \subseteq so_fd'
          /\ ~SO!Is("udp") => SO!Wanted({"maxseg"}) \subseteq so_fd'
          /\ so_sroute => "sroute" \in so_fd' /\ so_fd \subseteq so_fd'
          /\ "sigio" \in so_fd' => "sigio" \in so_fd \/ SO!Asked("sigio")
      BY <2>2 DEF SO!SetWhen, SO!DebugAndRoute, SO!TypeOfService, SO!SegmentSize, SO!SourceRoute,
         SO!BroadcastAndGroup, SO!AfterConnect, SO!Timeouts, SO!Notification
    <3>2. so_fd \subseteq so_fd'
      BY <2>2
    <3> QED
      BY <2>0, <2>2, <3>1, <3>2, <1>i DEF Stage, Route
  <2>3. CASE so_pc = "sockopts1" /\ so_fd' = so_fd \cup SO!SetWhen(TRUE) /\ so_pc' = "ready"
    <3>1. "sigio" \in so_fd' => "sigio" \in so_fd \/ SO!Asked("sigio")
      BY <2>3 DEF SO!SetWhen, SO!DebugAndRoute, SO!TypeOfService, SO!SegmentSize, SO!SourceRoute,
         SO!BroadcastAndGroup, SO!AfterConnect, SO!Timeouts, SO!Notification
    <3> QED
      BY <2>0, <2>3, <3>1, <1>i DEF Stage
  <2> QED
    BY <1>4, <1>i, <2>1, <2>2, <2>3, AfterSockopts
<1>6. CASE SO!Accept
  BY <1>6, <1>i DEF SO!Accept, SO!Inherited, Stage, Route, SoTypes
<1>7. CASE SO!NewSocket
  BY <1>7, <1>i DEF SO!NewSocket, Stage, Route, SO!SetUp, SO!SetWhen, SO!DebugAndRoute,
     SO!TypeOfService, SO!SegmentSize, SO!SourceRoute,
     SO!BroadcastAndGroup, SO!AfterConnect, SO!Timeouts, SO!Notification
<1>8. CASE SO!TestFlag \/ SO!Sigsuspend \/ SO!SigUsr \/ SO!ClearFlag
  BY <1>8, <1>i DEF SO!TestFlag, SO!Sigsuspend, SO!SigUsr, SO!ClearFlag, Stage
<1>9. CASE SO!ConnectEINTR \/ SO!ConnectEALREADY \/ SO!KernelRefuses \/ SO!ForkFails
         \/ SO!Arrive
  BY <1>9, <1>i DEF SO!ConnectEINTR, SO!ConnectEALREADY, SO!KernelRefuses, SO!ForkFails, SO!Arrive, Stage
<1>10. ASSUME NEW c \in SO!Children, SO!Child(c) PROVE Stage'
  BY <1>10, <1>i DEF SO!Child, SO!ChildReady, SO!ChildFails, Stage, SoTypes
<1> QED
  BY <1>1, <1>2, <1>3, <1>4, <1>6, <1>7, <1>8, <1>9, <1>10 DEF SO!Next, SO!Parent

\* fork, TELL_PARENT, WAIT_CHILD and the handler keep one child to wait for.
LEMMA HandshakeStep == SoInv /\ [SO!Next]_so_vars => Handshake'
<1> SUFFICES ASSUME SoInv, [SO!Next]_so_vars PROVE Handshake'
  OBVIOUS
<1>i. SoTypes /\ Route /\ Handshake
  BY DEF SoInv
<1>t. /\ so_child \in [SO!Children -> {"none", "start", "ready", "gone"}]
      /\ so_sigflag \in BOOLEAN /\ so_pending \in BOOLEAN /\ so_blocked \in BOOLEAN
  BY <1>i DEF SoTypes
<1> USE DEF SO!tell, SO!net, SO!Quit, SO!Is, Serving, Telling, Before
<1>1. CASE UNCHANGED so_vars
  BY <1>1, <1>i DEF so_vars, Handshake
<1>2. CASE SO!Bind \/ SO!Buffers \/ SO!Connect \/ SO!JoinMcast
  BY <1>2, <1>i DEF SO!Bind, SO!Buffers, SO!Connect, SO!JoinMcast, Handshake
<1>3. CASE SO!Listen
  BY <1>3, <1>i, <1>t DEF SO!Listen, SO!TellWait, Handshake
<1>4. CASE SO!Sockopts0 \/ SO!Sockopts1
  <2>1. /\ so_pc \in {"sockopts0", "sockopts1"}
        /\ so_pc' \in {"exit", "listen", "connect", "sockopts1", "ready"}
        /\ UNCHANGED <<so_cfg, so_child, so_sigflag, so_blocked, so_pending>>
    BY <1>4, <1>i, AfterSockopts
  <2> QED
    BY <1>i, <2>1 DEF Handshake
<1>5. CASE SO!Accept
  BY <1>5, <1>i, <1>t DEF SO!Accept, SO!Accepted, Handshake, Route
<1>6. CASE SO!NewSocket
  BY <1>6, <1>i, <1>t DEF SO!NewSocket, Handshake, Route
<1>7. CASE SO!TestFlag \/ SO!Sigsuspend
  BY <1>7, <1>i, <1>t DEF SO!TestFlag, SO!Sigsuspend, Handshake
<1>8. CASE SO!SigUsr
  BY <1>8, <1>i, <1>t DEF SO!SigUsr, Handshake
<1>9. CASE SO!ClearFlag
  BY <1>9, <1>i, <1>t DEF SO!ClearFlag, Handshake
<1>10. CASE SO!ConnectEINTR \/ SO!ConnectEALREADY \/ SO!Arrive
  BY <1>10, <1>i, <1>t DEF SO!ConnectEINTR, SO!ConnectEALREADY, SO!Arrive, Handshake
<1>11. ASSUME NEW c \in SO!Children, SO!Child(c) PROVE Handshake'
  <2>1. /\ so_child[c] = "start" /\ UNCHANGED <<so_cfg, so_pc, so_sigflag, so_blocked>>
        /\ \/ /\ so_child' = [so_child EXCEPT ![c] = "ready"]
              /\ so_pending' = (so_pc # "exit")
           \/ so_child' = [so_child EXCEPT ![c] = "gone"] /\ UNCHANGED so_pending
    BY <1>11 DEF SO!Child, SO!ChildReady, SO!ChildFails
  <2>2. so_pc \in Telling
    BY <1>i, <1>t, <2>1 DEF Handshake
  <2>3. PICK k \in SO!Children :
          /\ Before(k)
          /\ so_child[k] # "none"
          /\ so_child[k] \in {"start", "gone"} => ~so_pending /\ ~so_sigflag
          /\ so_child[k] = "ready" => (so_pending <=> ~so_sigflag)
          /\ so_blocked <=> \A j \in SO!Children \ {k} : so_child[j] = "none"
    BY <1>i, <2>2, Zenon DEF Handshake
  <2>4. k = c
    BY <2>1, <2>3
  <2>5. \A j \in SO!Children \ {c} : so_child'[j] = so_child[j]
    BY <1>t, <2>1
  <2>6. \/ so_child'[c] = "ready" /\ so_pending'
        \/ so_child'[c] = "gone" /\ UNCHANGED so_pending
    <3>1. so_pc # "exit"
      BY <2>2
    <3>2. CASE SO!ChildReady(c)
      <4>1. so_pending' = (so_pc # "exit")
        BY <3>2, Zenon DEF SO!ChildReady
      <4>2. so_pending'
        BY ONLY <3>1, <4>1
      <4>3. so_child'[c] = "ready"
        BY <1>t, <3>2 DEF SO!ChildReady
      <4> QED
        BY <4>2, <4>3, Zenon
    <3>3. CASE SO!ChildFails(c)
      BY <1>t, <3>3 DEF SO!ChildFails
    <3> QED
      BY <1>11, <3>2, <3>3 DEF SO!Child
  <2>7. ~so_pending /\ ~so_sigflag
    BY <2>1, <2>3, <2>4
  <2>8. \E m \in SO!Children :
          /\ Before(m)'
          /\ so_child'[m] # "none"
          /\ so_child'[m] \in {"start", "gone"} => ~so_pending' /\ ~so_sigflag'
          /\ so_child'[m] = "ready" => (so_pending' <=> ~so_sigflag')
          /\ so_blocked' <=> \A j \in SO!Children \ {m} : so_child'[j] = "none"
    <3> WITNESS c \in SO!Children
    <3> QED
      BY <2>1, <2>3, <2>4, <2>5, <2>6, <2>7
  <2>9. so_pc' \in Telling /\ (so_pc' = "clear" => so_sigflag') /\ SO!Is("dofork")'
        /\ (so_blocked' /\ so_pc' \in {"call", "suspend"} => ~so_sigflag')
    BY <1>i, <2>1, <2>2 DEF Handshake, Route
  <2> QED
    BY <2>8, <2>9 DEF Handshake
<1>12. CASE SO!KernelRefuses \/ SO!ForkFails
  <2>1. so_pc \notin Telling /\ so_pc' = "exit"
        /\ UNCHANGED <<so_cfg, so_child, so_sigflag, so_blocked, so_pending>>
    BY <1>12 DEF SO!KernelRefuses, SO!ForkFails
  <2> QED
    BY <1>i, <2>1 DEF Handshake
<1> QED
  BY <1>1, <1>2, <1>3, <1>4, <1>5, <1>6, <1>7, <1>8, <1>9, <1>10, <1>11, <1>12
     DEF SO!Next, SO!Parent

\* Each part of SetupSound after a step: what sockets have before the SYN and
\* in the end, why main gives up, and when it sleeps in vain.
LEMMA SetupStep == SoInv /\ [SO!Next]_so_vars => SO!SetupSound'
<1> SUFFICES ASSUME SoInv, [SO!Next]_so_vars PROVE SO!SetupSound'
  OBVIOUS
<1>i. /\ SoTypes /\ Route /\ Stage /\ SO!SetupSound
      /\ SoTypes' /\ Route' /\ Stage' /\ Handshake'
  BY SoTypesStep, RouteStep, StageStep, HandshakeStep DEF SoInv
<1>c. UNCHANGED so_cfg
  BY DEF SO!Next, SO!Parent, SO!Child, SO!Bind, SO!JoinMcast, SO!Buffers, SO!Sockopts0,
     SO!Sockopts1, SO!Sockopts, SO!Connect, SO!Listen, SO!Accept, SO!NewSocket, SO!TestFlag,
     SO!Sigsuspend, SO!SigUsr, SO!ClearFlag, SO!ConnectEINTR, SO!ConnectEALREADY,
     SO!KernelRefuses, SO!ForkFails, SO!Arrive, SO!ChildReady, SO!ChildFails, so_vars
<1>1. SO!BeforeSyn'
  BY <1>i DEF SO!BeforeSyn, Stage, Route, SO!Wanted, SO!Is, Serving
<1>2. SO!SleepsInVain' => SO!TellLost'
  <2> SUFFICES ASSUME SO!SleepsInVain' PROVE SO!TellLost'
    OBVIOUS
  <2>1. so_pc' = "suspend" /\ ~so_pending' /\ \A k \in SO!Children : so_child'[k] # "start"
    BY DEF SO!SleepsInVain, SO!ToTell
  <2>2. PICK k \in SO!Children :
          /\ so_child'[k] # "none"
          /\ so_child'[k] = "ready" => (so_pending' <=> ~so_sigflag')
          /\ so_blocked' <=> \A j \in SO!Children \ {k} : so_child'[j] = "none"
          /\ Before(k)'
    BY <1>i, <2>1 DEF Handshake, Telling, Serving
  <2>3. CASE so_child'[k] = "gone"
    BY <2>3 DEF SO!TellLost
  <2>4. CASE so_child'[k] = "ready"
    <3>1. so_sigflag' /\ ~so_blocked'
      BY <1>i, <2>1, <2>2, <2>4 DEF Handshake
    <3>2. PICK j \in SO!Children \ {k} : so_child'[j] = "ready"
      BY <2>2, <3>1 DEF Before
    <3> DEFINE R == {x \in SO!Children : so_child'[x] = "ready"}
    <3>3. Cardinality(R) > 1
      <4>1. IsFiniteSet(SO!Children)
        BY ToolsAssumption, FS_Interval DEF SO!Children
      <4>2. IsFiniteSet(R) /\ {k, j} \subseteq R
        BY <2>4, <3>2, <4>1, FS_Subset
      <4>3. Cardinality({k, j}) = 2
        <5>1. Cardinality({k}) = 1 /\ IsFiniteSet({k}) /\ j \notin {k}
          BY <3>2, FS_Singleton
        <5>2. Cardinality({k} \cup {j}) = 2
          BY <5>1, FS_AddElement
        <5>3. {k} \cup {j} = {k, j}
          OBVIOUS
        <5> QED
          BY <5>2, <5>3
      <4>4. Cardinality(R) >= 2 /\ Cardinality(R) \in Nat
        BY <4>2, <4>3, FS_Subset, FS_CardinalityType
      <4> HIDE DEF R
      <4> QED
        BY <4>4
    <3>4. SO!Cardinality(R) = Cardinality(R)
      BY DEF SO!Cardinality, Cardinality
    <3> QED
      BY <2>1, <3>1, <3>3, <3>4 DEF SO!TellLost
  <2> QED
    BY <1>i, <2>1, <2>2, <2>3, <2>4 DEF SoTypes
<1>3. SO!GivesUpOnlyFor'
  <2>1. ASSUME UNCHANGED so_cause \/ so_cause' = "kernel" PROVE SO!GivesUpOnlyFor'
    BY <2>1, <1>c, <1>i DEF SO!SetupSound, SO!GivesUpOnlyFor, SO!Is, SO!Asked, SO!InMulticast
  <2>2. CASE SO!JoinMcast
    BY <2>2, <2>1 DEF SO!JoinMcast, SO!Quit, SO!GivesUpOnlyFor, SO!Is, SO!InMulticast
  <2>3. CASE SO!Sockopts0 \/ SO!Sockopts1
    <3>1. \/ UNCHANGED so_cause
          \/ so_cause' = "joined_twice" /\ SO!Asked("join") /\ "join" \in so_fd
      BY <2>3, <1>i, AfterSockopts
    <3>2. so_pc \in {"sockopts0", "sockopts1"}
      BY <2>3, <1>i, AfterSockopts
    <3> QED
      BY <1>c, <1>i, <3>1, <3>2, <2>1
         DEF Stage, Making, SO!GivesUpOnlyFor, SO!Is, SO!Asked, SO!InMulticast
  <2>4. CASE SO!ConnectEALREADY
    BY <2>4, <1>c, <1>i DEF Stage, SO!ConnectEALREADY, SO!Quit, SO!GivesUpOnlyFor, SO!Is, SO!Asked
  <2>5. CASE SO!KernelRefuses \/ SO!ForkFails
    BY <2>5, <2>1 DEF SO!KernelRefuses, SO!ForkFails, SO!Quit
  <2> QED
    BY <2>1, <2>2, <2>3, <2>4, <2>5
       DEF SO!Next, SO!Parent, SO!Child, SO!Bind, SO!Buffers, SO!Connect, SO!Listen, SO!Accept,
       SO!NewSocket, SO!TestFlag, SO!Sigsuspend, SO!SigUsr, SO!ClearFlag, SO!ConnectEINTR,
       SO!Arrive, SO!ChildReady, SO!ChildFails, so_vars
<1>4. SO!OptionsInEffect'
  <2> USE DEF SO!InEffect, SO!Meaningful, SO!Lost, SO!Is, SO!Asked, SO!Wanted
  <2>1. ASSUME so_pc' = "ready" => so_pc = "ready" /\ UNCHANGED so_fd,
               \A k \in SO!Children : so_child'[k] = "ready" =>
                 so_child[k] = "ready" /\ so_childfd'[k] = so_childfd[k]
        PROVE  SO!OptionsInEffect'
    BY <2>1, <1>c, <1>i DEF SO!SetupSound, SO!OptionsInEffect
  <2>2. CASE SO!Sockopts0 \/ SO!Sockopts1
    <3>1. UNCHANGED <<so_child, so_childfd>>
      BY <2>2, <1>i, AfterSockopts
    <3>2. CASE so_pc' # "ready"
      BY <2>1, <3>1, <3>2
    <3>3. CASE so_pc' = "ready"
      <4>1. so_pc = "sockopts1" /\ so_fd' = so_fd \cup SO!SetWhen(TRUE)
        BY <2>2, <3>3, <1>i, AfterSockopts
      <4>2. SO!Wanted({"debug", "bcast", "join", "timeo", "sigio"}) \subseteq so_fd'
            /\ (~SO!Is("udp") => SO!Wanted({"maxseg", "keepalive"}) \subseteq so_fd')
            /\ (SO!Is("udp") => SO!Wanted({"recvdst"}) \subseteq so_fd')
            /\ (so_sroute => "sroute" \in so_fd') /\ so_fd \subseteq so_fd'
        BY <4>1 DEF SO!SetWhen, SO!DebugAndRoute, SO!TypeOfService, SO!SegmentSize,
           SO!SourceRoute, SO!BroadcastAndGroup, SO!AfterConnect, SO!Timeouts, SO!Notification
      <4>3. /\ SO!Wanted({"reuse", "rcvbuf"}) \subseteq so_fd'
            /\ SO!Asked("sroute") => "sroute" \in so_fd'
            /\ ~SO!Is("server") => SO!Wanted({"tos"}) \subseteq so_fd'
            /\ ~SO!Is("server") \/ SO!Is("udp")
        BY <1>i, <4>1, <4>2 DEF Stage, Route
      <4>4. SO!InEffect(so_fd')
        BY <1>i, <4>2, <4>3 DEF SoTypes, SO!Options
      <4>5. \A k \in SO!Children : so_child'[k] # "ready"
        BY <1>i, <3>3 DEF Handshake, Serving
      <4> QED
        BY <1>c, <4>4, <4>5 DEF SO!OptionsInEffect
    <3> QED
      BY <3>2, <3>3
  \* What a socket that was accepted has in the end.
  <2>a. ASSUME NEW s, SO!Is("server"), ~SO!Is("udp"),
               SO!Is("propagates") => SO!Wanted({"reuse", "tos", "sroute"}) \subseteq s
        PROVE  SO!InEffect(SO!SetUp(s))
    <3>1. SO!Wanted({"rcvbuf", "debug", "bcast", "join", "timeo", "sigio", "maxseg", "keepalive"})
            \subseteq SO!SetUp(s) /\ s \subseteq SO!SetUp(s)
      BY <2>a DEF SO!SetUp, SO!SetWhen, SO!DebugAndRoute, SO!TypeOfService, SO!SegmentSize,
         SO!SourceRoute, SO!BroadcastAndGroup, SO!AfterConnect, SO!Timeouts, SO!Notification
    <3> QED
      BY <1>i, <2>a, <3>1 DEF SoTypes, SO!Options
  <2>3. CASE SO!NewSocket
    <3>1. SO!InEffect(SO!SetUp(so_fd))
      BY <1>i, <2>3, <2>a DEF SO!NewSocket, Stage, Route
    <3>2. so_fd' = SO!SetUp(so_fd) /\ UNCHANGED <<so_child, so_childfd>>
      BY <2>3 DEF SO!NewSocket, SO!tell
    <3> HIDE DEF SO!InEffect
    <3>3. SO!InEffect(so_fd)'
      BY <1>c, <3>1, <3>2 DEF SO!InEffect
    <3>4. \A k \in SO!Children : so_child[k] = "ready" => SO!InEffect(so_childfd[k])
      BY <1>i DEF SO!SetupSound, SO!OptionsInEffect
    <3> QED
      BY <1>c, <3>2, <3>3, <3>4 DEF SO!OptionsInEffect, SO!InEffect
  <2>4. ASSUME NEW c \in SO!Children, SO!ChildReady(c) PROVE SO!OptionsInEffect'
    <3>1. /\ so_child[c] = "start" /\ so_child' = [so_child EXCEPT ![c] = "ready"]
          /\ so_childfd' = [so_childfd EXCEPT ![c] = SO!SetUp(@)]
          /\ UNCHANGED <<so_fd, so_pc>>
      BY <2>4 DEF SO!ChildReady
    <3>2. SO!Is("dofork")
      BY <1>i, <3>1 DEF SoInv, Handshake
    <3>3. SO!InEffect(SO!SetUp(so_childfd[c]))
      BY <1>i, <2>a, <3>1, <3>2 DEF Stage, Route
    <3> QED
      BY <1>c, <1>i, <3>1, <3>3 DEF SO!SetupSound, SO!OptionsInEffect, SoTypes
  <2>5. ASSUME NEW c \in SO!Children, SO!ChildFails(c) PROVE SO!OptionsInEffect'
    BY <2>5, <2>1, <1>i DEF SO!ChildFails, SoTypes
  <2>6. CASE SO!Accept
    BY <2>6, <2>1, <1>i DEF SO!Accept, SoTypes
  <2>7. CASE SO!Buffers
    BY <2>7, <2>1, <1>i, AfterBuffers DEF SO!Buffers, SO!tell
  <2>8. CASE SO!Bind \/ SO!JoinMcast \/ SO!Connect \/ SO!Listen \/ UNCHANGED so_vars
    BY <2>8, <2>1 DEF SO!Bind, SO!JoinMcast, SO!Connect, SO!Listen, SO!tell, SO!Quit, so_vars
  <2>9. CASE SO!TestFlag \/ SO!Sigsuspend \/ SO!SigUsr \/ SO!ClearFlag
    BY <2>9, <2>1 DEF SO!TestFlag, SO!Sigsuspend, SO!SigUsr, SO!ClearFlag, SO!tell
  <2>10. CASE SO!ConnectEINTR \/ SO!ConnectEALREADY \/ SO!KernelRefuses \/ SO!ForkFails
         \/ SO!Arrive
    BY <2>10, <2>1 DEF SO!ConnectEINTR, SO!ConnectEALREADY, SO!KernelRefuses, SO!ForkFails, SO!Arrive,
       SO!tell, SO!Quit
  <2> QED
    BY <2>2, <2>3, <2>4, <2>5, <2>6, <2>7, <2>8, <2>9, <2>10 DEF SO!Next, SO!Parent, SO!Child
<1> QED
  BY <1>1, <1>2, <1>3, <1>4 DEF SO!SetupSound

\* Options asked for are set where the kernel still honours them, main gives up
\* only for the reasons of GivesUpOnlyFor, and WAIT_CHILD sleeps in vain only for
\* a signal that came between test and sigsuspend or a child that failed
\* (servopen.c, cliopen.c, sockopts.c, tellwait.c), for any number of connections.
THEOREM SocketsSetUp == SumSpec => []SocketsAsAsked
<1>1. SumInit => SoInv
  BY SoInit DEF SumInit
<1>2. SoInv /\ [SumNext]_all => SoInv'
  <2> SUFFICES ASSUME SoInv, [SumNext]_all PROVE SoInv'
    OBVIOUS
  <2>1. [SO!Next]_so_vars
    BY DEF SumNext, all, Daemoned, Opening, Tcp, Udp
  <2> QED
    BY <2>1, SoTypesStep, RouteStep, StageStep, HandshakeStep, SetupStep DEF SoInv
<1>3. SoInv => SocketsAsAsked
  BY DEF SoInv, SocketsAsAsked
<1> QED
  BY <1>1, <1>2, <1>3, PTL DEF SumSpec

-----------------------------------------------------------------------------
(* Sequences: induction, and what FlattenSeq and FoldLeft compute            *)

\* Induction over the naturals, as a fact about a set.
LEMMA Induction ==
  ASSUME NEW S \in SUBSET Nat, 0 \in S, \A n \in S : n + 1 \in S
  PROVE  S = Nat
<1>1. SUFFICES ASSUME Nat \ S # {} PROVE FALSE
  OBVIOUS
<1>2. \E n \in Nat \ S : \A m \in Nat \ S : <<m, n>> \notin OpToRel(<, Nat)
  BY <1>1, NatLessThanWellFounded, WFMin, Zenon
<1>3. PICK n \in Nat \ S : \A m \in Nat \ S : ~(m < n)
  BY <1>2, Zenon DEF OpToRel
<1>4. n - 1 \in Nat /\ n - 1 \in S
  BY <1>3
<1> QED
  BY <1>3, <1>4

\* The same for sequences, which grow at their ends.
LEMMA SequenceInduction ==
  ASSUME NEW S, NEW T \in SUBSET Seq(S), <<>> \in T,
         \A s \in T : \A e \in S : Append(s, e) \in T
  PROVE  T = Seq(S)
<1> DEFINE N == {n \in Nat : \A s \in Seq(S) : Len(s) = n => s \in T}
<1>1. 0 \in N
  BY EmptySeq
<1>2. \A n \in N : n + 1 \in N
  <2> SUFFICES ASSUME NEW n \in N PROVE n + 1 \in N
    OBVIOUS
  <2> SUFFICES ASSUME NEW s \in Seq(S), Len(s) = n + 1 PROVE s \in T
    OBVIOUS
  <2>2. s # <<>>
    BY EmptySeq
  <2>3. PICK t \in Seq(S), e \in S : s = Append(t, e)
    BY <2>2, SequenceEmptyOrAppend
  <2>4. Len(t) = n
    BY <2>3, AppendProperties
  <2> QED
    BY <2>3, <2>4
<1>3. N = Nat
  <2> HIDE DEF N
  <2> QED
    BY <1>1, <1>2, Induction DEF N
<1>4. \A s \in Seq(S) : Len(s) \in Nat
  OBVIOUS
<1> QED
  BY <1>3, <1>4

\* The function that FlattenSeq defines.
Flattens(ss, f, n) == f = [j \in 1 .. n |-> IF j = 1 THEN ss[j] ELSE f[j - 1] \o ss[j]]

LEMMA FlattensExists ==
  ASSUME NEW ss, NEW n \in Nat
  PROVE  \E f : Flattens(ss, f, n)
<1> DEFINE N == {m \in Nat : \E f : Flattens(ss, f, m)}
<1>1. 0 \in N
  <2>1. Flattens(ss, [j \in 1 .. 0 |-> 0], 0)
    BY DEF Flattens
  <2> QED
    BY <2>1
<1>2. \A m \in N : m + 1 \in N
  <2>1. SUFFICES ASSUME NEW m \in Nat, NEW f, Flattens(ss, f, m)
                 PROVE  \E g : Flattens(ss, g, m + 1)
    OBVIOUS
  <2> DEFINE g == [j \in 1 .. m + 1 |-> IF j = 1 THEN ss[j] ELSE f[j - 1] \o ss[j]]
  <2>2. ASSUME NEW j \in 1 .. m PROVE g[j] = f[j]
    <3>1. j \in 1 .. m + 1
      OBVIOUS
    <3>2. g[j] = IF j = 1 THEN ss[j] ELSE f[j - 1] \o ss[j]
      BY <3>1
    <3>3. f[j] = IF j = 1 THEN ss[j] ELSE f[j - 1] \o ss[j]
      BY <2>1, Zenon DEF Flattens
    <3> QED
      BY <3>2, <3>3
  <2>3. \A j \in 1 .. m + 1 : j # 1 => j - 1 \in 1 .. m
    OBVIOUS
  <2>4. \A j \in 1 .. m + 1 : g[j] = IF j = 1 THEN ss[j] ELSE g[j - 1] \o ss[j]
    BY <2>2, <2>3
  <2>5. g = [j \in 1 .. m + 1 |-> g[j]]
    OBVIOUS
  <2>6. Flattens(ss, g, m + 1)
    <3> HIDE DEF g
    <3> QED
      BY <2>4, <2>5 DEF Flattens
  <2> QED
    BY <2>6
<1>3. N = Nat
  <2> HIDE DEF N
  <2> QED
    BY <1>1, <1>2, Induction DEF N
<1> QED
  BY <1>3

\* Two such functions agree as far as the sequences do.
LEMMA FlattensAgree ==
  ASSUME NEW ss, NEW tt, NEW f, NEW g, NEW n \in Nat, NEW m \in Nat,
         Flattens(ss, f, n), Flattens(tt, g, m), n <= m,
         \A j \in 1 .. n : ss[j] = tt[j]
  PROVE  \A j \in 1 .. n : f[j] = g[j]
<1> DEFINE N == {k \in Nat : \A j \in 1 .. k : j <= n => f[j] = g[j]}
<1>1. 0 \in N
  OBVIOUS
<1>2. \A k \in N : k + 1 \in N
  <2>1. SUFFICES ASSUME NEW k \in Nat, \A j \in 1 .. k : j <= n => f[j] = g[j], k + 1 <= n
                 PROVE  f[k + 1] = g[k + 1]
    OBVIOUS
  <2>2. k + 1 \in 1 .. n /\ k + 1 \in 1 .. m /\ (k + 1) - 1 = k
    BY <2>1
  <2>3. f[k + 1] = (IF k + 1 = 1 THEN ss[k + 1] ELSE f[k] \o ss[k + 1])
    BY <2>2 DEF Flattens
  <2>4. g[k + 1] = (IF k + 1 = 1 THEN tt[k + 1] ELSE g[k] \o tt[k + 1])
    BY <2>2 DEF Flattens
  <2>5. k + 1 # 1 => f[k] = g[k]
    BY <2>1
  <2> QED
    BY <2>2, <2>3, <2>4, <2>5
<1>3. N = Nat
  <2> HIDE DEF N
  <2> QED
    BY <1>1, <1>2, Induction DEF N
<1>4. n \in N
  BY <1>3
<1> QED
  BY <1>4

LEMMA FlattenIs ==
  ASSUME NEW S, NEW ss \in Seq(S), ss # <<>>
  PROVE  \E f : Flattens(ss, f, Len(ss)) /\ ST!FlattenSeq(ss) = f[Len(ss)]
<1> DEFINE f == CHOOSE f : f = [j \in 1 .. Len(ss) |-> IF j = 1 THEN ss[j]
                                                      ELSE f[j - 1] \o ss[j]]
<1>1. Len(ss) \in Nat /\ Len(ss) # 0
  BY EmptySeq
<1>2. Flattens(ss, f, Len(ss))
  <2>1. \E g : Flattens(ss, g, Len(ss))
    BY <1>1, FlattensExists
  <2> QED
    BY <2>1, Zenon DEF Flattens
<1>3. ST!FlattenSeq(ss) = f[Len(ss)]
  BY <1>1 DEF ST!FlattenSeq
<1> QED
  BY <1>2, <1>3

\* FlattenSeq, one element at a time.
LEMMA FlattenEmpty == ST!FlattenSeq(<<>>) = <<>>
BY DEF ST!FlattenSeq

LEMMA FlattenAppend ==
  ASSUME NEW S, NEW ss \in Seq(Seq(S)), NEW s \in Seq(S), ST!FlattenSeq(ss) \in Seq(S)
  PROVE  ST!FlattenSeq(Append(ss, s)) = ST!FlattenSeq(ss) \o s
<1> DEFINE tt == Append(ss, s)
           n == Len(ss)
<1>1. /\ tt \in Seq(Seq(S)) /\ tt # <<>> /\ Len(tt) = n + 1 /\ n \in Nat
      /\ \A j \in 1 .. n : ss[j] = tt[j]
      /\ tt[n + 1] = s
  BY AppendProperties
<1>2. PICK g : Flattens(tt, g, n + 1) /\ ST!FlattenSeq(tt) = g[n + 1]
  <2> HIDE DEF tt
  <2> QED
    BY <1>1, FlattenIs
<1>3. g[n + 1] = IF n + 1 = 1 THEN tt[n + 1] ELSE g[(n + 1) - 1] \o tt[n + 1]
  <2>1. n + 1 \in 1 .. n + 1
    BY <1>1
  <2> HIDE DEF tt
  <2> QED
    BY <1>2, <2>1 DEF Flattens
<1>4. CASE ss = <<>>
  <2>1. n = 0 /\ ST!FlattenSeq(tt) = s
    BY <1>1, <1>2, <1>3, <1>4, EmptySeq
  <2> QED
    BY <1>4, <2>1, FlattenEmpty, ConcatEmptySeq
<1>5. CASE ss # <<>>
  <2>1. n # 0 /\ (n + 1) - 1 = n
    BY <1>1, <1>5, EmptySeq
  <2>2. PICK f : Flattens(ss, f, n) /\ ST!FlattenSeq(ss) = f[n]
    BY <1>5, FlattenIs
  <2>3. n \in 1 .. n
    BY <1>1, <2>1
  <2>4. n <= n + 1 /\ n + 1 \in Nat /\ Flattens(tt, g, n + 1)
    BY <1>1, <1>2
  <2>5. f[n] = g[n]
    <3> HIDE DEF tt, n
    <3> QED
      BY <1>1, <2>2, <2>3, <2>4, FlattensAgree
  <2> QED
    BY <1>1, <1>2, <1>3, <2>1, <2>2, <2>5
<1> QED
  BY <1>4, <1>5

LEMMA FlattenType ==
  ASSUME NEW S
  PROVE  \A ss \in Seq(Seq(S)) : ST!FlattenSeq(ss) \in Seq(S)
<1> DEFINE T == {ss \in Seq(Seq(S)) : ST!FlattenSeq(ss) \in Seq(S)}
<1>1. <<>> \in T
  BY FlattenEmpty, EmptySeq
<1>2. \A ss \in T : \A s \in Seq(S) : Append(ss, s) \in T
  <2>1. SUFFICES ASSUME NEW ss \in Seq(Seq(S)), ST!FlattenSeq(ss) \in Seq(S), NEW s \in Seq(S)
                 PROVE  Append(ss, s) \in T
    OBVIOUS
  <2>2. ST!FlattenSeq(Append(ss, s)) = ST!FlattenSeq(ss) \o s
    BY <2>1, FlattenAppend
  <2>3. Append(ss, s) \in Seq(Seq(S)) /\ ST!FlattenSeq(ss) \o s \in Seq(S)
    BY <2>1, AppendProperties, ConcatProperties
  <2> QED
    BY <2>2, <2>3
<1>3. T = Seq(Seq(S))
  <2> HIDE DEF T
  <2>1. T \in SUBSET Seq(Seq(S))
    BY DEF T
  <2> QED
    BY <1>1, <1>2, <2>1, SequenceInduction
<1> QED
  BY <1>3

LEMMA FlattenHead ==
  ASSUME NEW S
  PROVE  \A ss \in Seq(Seq(S)) :
           ss # <<>> => ST!FlattenSeq(ss) = Head(ss) \o ST!FlattenSeq(Tail(ss))
<1> DEFINE T == {ss \in Seq(Seq(S)) :
                   ss # <<>> => ST!FlattenSeq(ss) = Head(ss) \o ST!FlattenSeq(Tail(ss))}
<1>1. <<>> \in T
  BY EmptySeq
<1>2. \A ss \in T : \A s \in Seq(S) : Append(ss, s) \in T
  <2>1. SUFFICES ASSUME NEW ss \in Seq(Seq(S)), NEW s \in Seq(S),
                        ss # <<>> => ST!FlattenSeq(ss) = Head(ss) \o ST!FlattenSeq(Tail(ss))
                 PROVE  ST!FlattenSeq(Append(ss, s)) =
                          Head(Append(ss, s)) \o ST!FlattenSeq(Tail(Append(ss, s)))
    BY AppendProperties
  <2>2. ST!FlattenSeq(Append(ss, s)) = ST!FlattenSeq(ss) \o s
    BY FlattenType, FlattenAppend
  <2>3. CASE ss = <<>>
    <3>1. Head(Append(ss, s)) = s /\ Tail(Append(ss, s)) = <<>>
      BY <2>3, HeadTailAppend
    <3>2. <<>> \o s = s /\ s \o <<>> = s
      BY ConcatEmptySeq
    <3> QED
      BY <2>2, <2>3, <3>1, <3>2, FlattenEmpty
  <2>4. CASE ss # <<>>
    <3>1. Head(Append(ss, s)) = Head(ss) /\ Tail(Append(ss, s)) = Append(Tail(ss), s)
      BY <2>4, HeadTailAppend
    <3>2. Head(ss) \in Seq(S) /\ Tail(ss) \in Seq(Seq(S))
      BY <2>4, HeadTailProperties
    <3>3. ST!FlattenSeq(Tail(ss)) \in Seq(S)
      BY <3>2, FlattenType
    <3>4. ST!FlattenSeq(Append(Tail(ss), s)) = ST!FlattenSeq(Tail(ss)) \o s
      BY <3>2, <3>3, FlattenAppend
    <3>5. \A h, t \in Seq(S) : (h \o t) \o s = h \o (t \o s)
      BY ConcatAssociative
    <3> QED
      BY <2>1, <2>2, <2>4, <3>1, <3>2, <3>3, <3>4, <3>5
  <2> QED
    BY <2>3, <2>4
<1>3. T = Seq(Seq(S))
  <2> HIDE DEF T
  <2>1. T \in SUBSET Seq(Seq(S))
    BY DEF T
  <2> QED
    BY <1>1, <1>2, <2>1, SequenceInduction
<1> QED
  BY <1>3

LEMMA FlattenOne ==
  ASSUME NEW S, NEW s \in Seq(S)
  PROVE  ST!FlattenSeq(<<s>>) = s
<1>1. <<>> \in Seq(Seq(S)) /\ ST!FlattenSeq(<<>>) \in Seq(S)
  BY FlattenEmpty, EmptySeq
<1>3. Append(<<>>, s) = <<s>>
  OBVIOUS
<1>2. ST!FlattenSeq(<<s>>) = <<>> \o s
  BY <1>1, <1>3, FlattenAppend, FlattenEmpty
<1> QED
  BY <1>2, ConcatEmptySeq

\* A sequence whose elements are replaced by sequences.
Spread(G, s) == ST!FlattenSeq([k \in DOMAIN s |-> G[s[k]]])

LEMMA SpreadEmpty == ASSUME NEW G PROVE Spread(G, <<>>) = <<>>
<1>1. [k \in DOMAIN <<>> |-> G[<<>>[k]]] = <<>>
  OBVIOUS
<1> QED
  BY <1>1, FlattenEmpty DEF Spread

\* Its parts are a sequence of sequences.
LEMMA SpreadParts ==
  ASSUME NEW S, NEW T, NEW G \in [S -> Seq(T)], NEW s \in Seq(S)
  PROVE  [k \in DOMAIN s |-> G[s[k]]] \in Seq(Seq(T))
<1>1. DOMAIN s = 1 .. Len(s) /\ Len(s) \in Nat /\ \A k \in 1 .. Len(s) : s[k] \in S
  BY LenProperties, ElementOfSeq
<1>2. [k \in DOMAIN s |-> G[s[k]]] \in [1 .. Len(s) -> Seq(T)]
  BY <1>1
<1> QED
  BY <1>1, <1>2, SeqDef

LEMMA SpreadType ==
  ASSUME NEW S, NEW T, NEW G \in [S -> Seq(T)], NEW s \in Seq(S)
  PROVE  Spread(G, s) \in Seq(T)
<1>1. [k \in DOMAIN s |-> G[s[k]]] \in Seq(Seq(T))
  BY SpreadParts
<1> QED
  BY <1>1, FlattenType, Zenon DEF Spread

LEMMA SpreadAppend ==
  ASSUME NEW S, NEW T, NEW G \in [S -> Seq(T)], NEW s \in Seq(S), NEW e \in S
  PROVE  Spread(G, Append(s, e)) = Spread(G, s) \o G[e]
<1> DEFINE a == [k \in DOMAIN s |-> G[s[k]]]
           b == [k \in DOMAIN Append(s, e) |-> G[Append(s, e)[k]]]
<1>1. /\ Append(s, e) \in Seq(S) /\ Len(Append(s, e)) = Len(s) + 1 /\ Len(s) \in Nat
      /\ \A k \in 1 .. Len(s) : Append(s, e)[k] = s[k]
      /\ Append(s, e)[Len(s) + 1] = e
      /\ DOMAIN s = 1 .. Len(s)
  BY AppendProperties, LenProperties
<1>2. DOMAIN Append(s, e) = 1 .. Len(s) + 1
  BY <1>1, LenProperties
<1>3. a \in Seq(Seq(T)) /\ b \in Seq(Seq(T)) /\ G[e] \in Seq(T)
  BY <1>1, SpreadParts
<1>4. Len(a) = Len(s) /\ Len(b) = Len(s) + 1
  BY <1>1, <1>2
<1>5. /\ Append(a, G[e]) \in Seq(Seq(T)) /\ Len(Append(a, G[e])) = Len(s) + 1
      /\ \A k \in 1 .. Len(s) : Append(a, G[e])[k] = a[k]
      /\ Append(a, G[e])[Len(s) + 1] = G[e]
  <2> HIDE DEF a
  <2> QED
    BY <1>3, <1>4, AppendProperties
<1>6. \A k \in 1 .. Len(s) : a[k] = G[s[k]] /\ b[k] = G[s[k]]
  BY <1>1, <1>2
<1>7. b[Len(s) + 1] = G[e]
  BY <1>1, <1>2
<1>8. b = Append(a, G[e])
  <2>1. \A k \in 1 .. Len(b) : b[k] = Append(a, G[e])[k]
    <3> HIDE DEF a, b
    <3> QED
      BY <1>1, <1>4, <1>5, <1>6, <1>7
  <2> HIDE DEF a, b
  <2> QED
    BY <1>3, <1>4, <1>5, <2>1, SeqEqual
<1>9. ST!FlattenSeq(a) \in Seq(T)
  <2> HIDE DEF a
  <2> QED
    BY <1>3, FlattenType
<1>10. ST!FlattenSeq(Append(a, G[e])) = ST!FlattenSeq(a) \o G[e]
  <2> HIDE DEF a, b
  <2> QED
    BY <1>3, <1>9, FlattenAppend
<1> QED
  BY <1>8, <1>10 DEF Spread

LEMMA SpreadConcat ==
  ASSUME NEW S, NEW T, NEW G \in [S -> Seq(T)], NEW s \in Seq(S)
  PROVE  \A t \in Seq(S) : Spread(G, s \o t) = Spread(G, s) \o Spread(G, t)
<1> DEFINE U == {t \in Seq(S) : Spread(G, s \o t) = Spread(G, s) \o Spread(G, t)}
<1>1. <<>> \in U
  <2>1. s \o <<>> = s /\ <<>> \in Seq(S)
    BY ConcatEmptySeq, EmptySeq
  <2>2. Spread(G, s) \o <<>> = Spread(G, s)
    BY SpreadType, ConcatEmptySeq
  <2> QED
    BY <2>1, <2>2, SpreadEmpty
<1>2. \A t \in U : \A e \in S : Append(t, e) \in U
  <2>1. SUFFICES ASSUME NEW t \in U, NEW e \in S PROVE Append(t, e) \in U
    OBVIOUS
  <2>2. t \in Seq(S) /\ Spread(G, s \o t) = Spread(G, s) \o Spread(G, t)
    OBVIOUS
  <2> HIDE DEF U
  <2>3. s \o t \in Seq(S) /\ Append(t, e) \in Seq(S)
    BY <2>2, ConcatProperties, AppendProperties
  <2>4. s \o Append(t, e) = Append(s \o t, e)
    <3>1. <<e>> \in Seq(S)
      OBVIOUS
    <3>2. Append(t, e) = t \o <<e>> /\ Append(s \o t, e) = (s \o t) \o <<e>>
      BY <2>2, <2>3, AppendIsConcat
    <3>3. (s \o t) \o <<e>> = s \o (t \o <<e>>)
      BY <2>2, <3>1, ConcatAssociative
    <3> QED
      BY <3>2, <3>3, Zenon
  <2>5. Spread(G, s \o Append(t, e)) = Spread(G, s \o t) \o G[e]
    BY <2>3, <2>4, SpreadAppend
  <2>6. Spread(G, Append(t, e)) = Spread(G, t) \o G[e]
    BY <2>2, SpreadAppend
  <2>7. /\ Spread(G, s) \in Seq(T) /\ Spread(G, t) \in Seq(T) /\ G[e] \in Seq(T)
    BY <2>2, SpreadType
  <2>8. (Spread(G, s) \o Spread(G, t)) \o G[e] = Spread(G, s) \o (Spread(G, t) \o G[e])
    BY <2>7, ConcatAssociative
  <2> QED
    BY <2>2, <2>3, <2>5, <2>6, <2>8 DEF U
<1>3. U = Seq(S)
  <2>1. U \in SUBSET Seq(S)
    OBVIOUS
  <2> HIDE DEF U
  <2> QED
    BY <1>1, <1>2, <2>1, SequenceInduction
<1> QED
  BY <1>3

LEMMA SpreadSame ==
  ASSUME NEW S, NEW G \in [S -> Seq(S)], \A x \in S : G[x] = <<x>>
  PROVE  \A s \in Seq(S) : Spread(G, s) = s
<1> DEFINE U == {s \in Seq(S) : Spread(G, s) = s}
<1>1. <<>> \in U
  BY EmptySeq, SpreadEmpty
<1>2. \A s \in U : \A e \in S : Append(s, e) \in U
  <2>1. SUFFICES ASSUME NEW s \in U, NEW e \in S PROVE Append(s, e) \in U
    OBVIOUS
  <2>2. s \in Seq(S) /\ Spread(G, s) = s
    OBVIOUS
  <2> HIDE DEF U
  <2>3. Spread(G, Append(s, e)) = s \o <<e>>
    BY <2>2, SpreadAppend
  <2>4. Append(s, e) = s \o <<e>> /\ Append(s, e) \in Seq(S)
    BY <2>2, AppendIsConcat, AppendProperties
  <2> QED
    BY <2>3, <2>4 DEF U
<1>3. U = Seq(S)
  <2>1. U \in SUBSET Seq(S)
    OBVIOUS
  <2> HIDE DEF U
  <2> QED
    BY <1>1, <1>2, <2>1, SequenceInduction
<1> QED
  BY <1>3

-----------------------------------------------------------------------------
(* Bytes: with and without marks, newlines and returns                       *)

StAll == ST!Bytes \cup {"oob"}

\* What stays without one of the elements.
LEMMA WithoutIs ==
  ASSUME NEW S, NEW T, NEW c, S \ {c} \subseteq T
  PROVE  /\ \A s \in Seq(S) : ST!Without(s, c) \in Seq(T)
         /\ \A s, t \in Seq(S) : ST!Without(s \o t, c) = ST!Without(s, c) \o ST!Without(t, c)
         /\ \A s \in Seq(S), e \in S : ST!Without(Append(s, e), c) =
              IF e = c THEN ST!Without(s, c) ELSE Append(ST!Without(s, c), e)
         /\ ST!Without(<<>>, c) = <<>>
         /\ c \notin S => \A s \in Seq(S) : ST!Without(s, c) = s
<1> DEFINE G == [x \in S |-> IF x = c THEN <<>> ELSE <<x>>]
<1>1. G \in [S -> Seq(T)]
  <2>1. \A x \in S : x = c \/ <<x>> \in Seq(T)
    OBVIOUS
  <2>2. <<>> \in Seq(T)
    BY EmptySeq
  <2> QED
    BY <2>1, <2>2
<1>2. \A s \in Seq(S) : ST!Without(s, c) = Spread(G, s)
  <2>1. SUFFICES ASSUME NEW s \in Seq(S) PROVE ST!Without(s, c) = Spread(G, s)
    OBVIOUS
  <2>2. \A k \in DOMAIN s : s[k] \in S
    BY LenProperties, ElementOfSeq
  <2>3. [k \in DOMAIN s |-> IF s[k] = c THEN <<>> ELSE <<s[k]>>] = [k \in DOMAIN s |-> G[s[k]]]
    BY <2>2
  <2> QED
    BY <2>3 DEF Spread, ST!Without
<1>3. \A s \in Seq(S) : Spread(G, s) \in Seq(T)
  <2> HIDE DEF G
  <2> QED
    BY <1>1, SpreadType
<1>4. \A s, t \in Seq(S) : Spread(G, s \o t) = Spread(G, s) \o Spread(G, t)
  <2> HIDE DEF G
  <2> QED
    BY <1>1, SpreadConcat
<1>9. \A s, t \in Seq(S) : s \o t \in Seq(S)
  BY ConcatProperties
<1>5. \A s \in Seq(S), e \in S : /\ Spread(G, Append(s, e)) = Spread(G, s) \o G[e]
                                 /\ Append(s, e) \in Seq(S)
  <2> HIDE DEF G
  <2> QED
    BY <1>1, SpreadAppend, AppendProperties
<1>6. \A s \in Seq(S), e \in S : Spread(G, Append(s, e)) =
        IF e = c THEN Spread(G, s) ELSE Append(Spread(G, s), e)
  <2>1. SUFFICES ASSUME NEW s \in Seq(S), NEW e \in S
                 PROVE  Spread(G, s) \o G[e] =
                          IF e = c THEN Spread(G, s) ELSE Append(Spread(G, s), e)
    BY <1>5
  <2>2. Spread(G, s) \in Seq(T)
    BY <1>3
  <2>3. G[e] = IF e = c THEN <<>> ELSE <<e>>
    OBVIOUS
  <2>4. e # c => e \in T
    OBVIOUS
  <2> HIDE DEF G
  <2>5. Spread(G, s) \o <<>> = Spread(G, s)
    BY <2>2, ConcatEmptySeq
  <2>6. e # c => Append(Spread(G, s), e) = Spread(G, s) \o <<e>>
    BY <2>2, <2>4, AppendIsConcat
  <2> QED
    BY <2>3, <2>5, <2>6
<1>7. Spread(G, <<>>) = <<>> /\ <<>> \in Seq(S)
  BY SpreadEmpty, EmptySeq
<1>8. c \notin S => \A s \in Seq(S) : Spread(G, s) = s
  <2>1. SUFFICES ASSUME c \notin S PROVE \A s \in Seq(S) : Spread(G, s) = s
    OBVIOUS
  <2>2. \A x \in S : G[x] = <<x>>
    BY <2>1
  <2>3. G \in [S -> Seq(S)]
    BY <2>1
  <2> HIDE DEF G
  <2> QED
    BY <2>2, <2>3, SpreadSame
<1> HIDE DEF G
<1>10. \A s \in Seq(S) : ST!Without(s, c) \in Seq(T)
  BY <1>2, <1>3
<1>11. \A s, t \in Seq(S) : ST!Without(s \o t, c) = ST!Without(s, c) \o ST!Without(t, c)
  BY <1>2, <1>4, <1>9
<1>12. \A s \in Seq(S), e \in S : ST!Without(Append(s, e), c) =
         IF e = c THEN ST!Without(s, c) ELSE Append(ST!Without(s, c), e)
  BY <1>2, <1>5, <1>6
<1>13. ST!Without(<<>>, c) = <<>>
  BY <1>2, <1>7
<1>14. c \notin S => \A s \in Seq(S) : ST!Without(s, c) = s
  BY <1>2, <1>8
<1> QED
  BY <1>10, <1>11, <1>12, <1>13, <1>14

\* Data leaves the urgent mark out.
LEMMA DataIs ==
  /\ \A s \in Seq(StAll) : ST!Data(s) \in Seq(ST!Bytes)
  /\ \A s, t \in Seq(StAll) : ST!Data(s \o t) = ST!Data(s) \o ST!Data(t)
  /\ ST!Data(<<>>) = <<>> /\ ST!Data(<<"oob">>) = <<>>
  /\ \A s \in Seq(ST!Bytes) : ST!Data(s) = s /\ s \in Seq(StAll)
<1>1. StAll \ {"oob"} \subseteq ST!Bytes /\ "oob" \in StAll
  BY DEF StAll
<1>2. "oob" \notin ST!Bytes /\ ST!Bytes \ {"oob"} \subseteq ST!Bytes /\ ST!Bytes \subseteq StAll
  BY DEF ST!Bytes, StAll
<1>3. /\ \A s \in Seq(StAll) : ST!Without(s, "oob") \in Seq(ST!Bytes)
      /\ \A s, t \in Seq(StAll) :
           ST!Without(s \o t, "oob") = ST!Without(s, "oob") \o ST!Without(t, "oob")
      /\ \A s \in Seq(StAll), e \in StAll : ST!Without(Append(s, e), "oob") =
           IF e = "oob" THEN ST!Without(s, "oob") ELSE Append(ST!Without(s, "oob"), e)
      /\ ST!Without(<<>>, "oob") = <<>>
  BY <1>1, WithoutIs
<1>4. \A s \in Seq(ST!Bytes) : ST!Without(s, "oob") = s
  BY <1>2, WithoutIs
<1>5. \A s \in Seq(ST!Bytes) : s \in Seq(StAll)
  BY <1>2, SeqMonotonic
<1>6. ST!Without(<<"oob">>, "oob") = <<>>
  <2>1. <<"oob">> = Append(<<>>, "oob") /\ <<>> \in Seq(StAll)
    OBVIOUS
  <2> QED
    BY <1>1, <1>3, <2>1
<1> QED
  BY <1>3, <1>4, <1>5, <1>6 DEF ST!Data

\* Stripped leaves the returns out.
LEMMA StrippedIs ==
  /\ \A s \in Seq(ST!Bytes) : ST!Stripped(s) \in Seq(ST!Bytes)
  /\ \A s, t \in Seq(ST!Bytes) : ST!Stripped(s \o t) = ST!Stripped(s) \o ST!Stripped(t)
  /\ \A s \in Seq(ST!Bytes), e \in ST!Bytes : ST!Stripped(Append(s, e)) =
       IF e = "r" THEN ST!Stripped(s) ELSE Append(ST!Stripped(s), e)
  /\ ST!Stripped(<<>>) = <<>>
<1>1. ST!Bytes \ {"r"} \subseteq ST!Bytes
  OBVIOUS
<1> QED
  BY <1>1, WithoutIs DEF ST!Stripped

\* Added puts a return before each newline.
LEMMA AddedIs ==
  /\ \A s \in Seq(ST!Bytes) : ST!Added(s) \in Seq(ST!Bytes)
  /\ \A s, t \in Seq(ST!Bytes) : ST!Added(s \o t) = ST!Added(s) \o ST!Added(t)
  /\ \A s \in Seq(ST!Bytes), e \in ST!Bytes : ST!Added(Append(s, e)) =
       ST!Added(s) \o (IF e = "n" THEN <<"r", "n">> ELSE <<e>>)
  /\ ST!Added(<<>>) = <<>>
<1> DEFINE G == [x \in ST!Bytes |-> IF x = "n" THEN <<"r", "n">> ELSE <<x>>]
<1>1. G \in [ST!Bytes -> Seq(ST!Bytes)]
  <2>1. <<"r", "n">> \in Seq(ST!Bytes)
    BY DEF ST!Bytes
  <2>2. \A x \in ST!Bytes : <<x>> \in Seq(ST!Bytes)
    OBVIOUS
  <2> QED
    BY <2>1, <2>2
<1>2. \A s \in Seq(ST!Bytes) : ST!Added(s) = Spread(G, s)
  <2>1. SUFFICES ASSUME NEW s \in Seq(ST!Bytes) PROVE ST!Added(s) = Spread(G, s)
    OBVIOUS
  <2>2. \A k \in DOMAIN s : s[k] \in ST!Bytes
    BY LenProperties, ElementOfSeq
  <2>3. [k \in DOMAIN s |-> IF s[k] = "n" THEN <<"r", "n">> ELSE <<s[k]>>] =
          [k \in DOMAIN s |-> G[s[k]]]
    BY <2>2
  <2> QED
    BY <2>3 DEF Spread, ST!Added
<1>3. \A s \in Seq(ST!Bytes) : Spread(G, s) \in Seq(ST!Bytes)
  <2> HIDE DEF G
  <2> QED
    BY <1>1, SpreadType
<1>4. \A s, t \in Seq(ST!Bytes) : Spread(G, s \o t) = Spread(G, s) \o Spread(G, t)
  <2> HIDE DEF G
  <2> QED
    BY <1>1, SpreadConcat
<1>5. \A s \in Seq(ST!Bytes), e \in ST!Bytes : Spread(G, Append(s, e)) = Spread(G, s) \o G[e]
  <2> HIDE DEF G
  <2> QED
    BY <1>1, SpreadAppend
<1>8. \A s, t \in Seq(ST!Bytes) : s \o t \in Seq(ST!Bytes)
  BY ConcatProperties
<1>9. \A s \in Seq(ST!Bytes), e \in ST!Bytes : Append(s, e) \in Seq(ST!Bytes)
  BY AppendProperties
<1>6. \A e \in ST!Bytes : G[e] = IF e = "n" THEN <<"r", "n">> ELSE <<e>>
  OBVIOUS
<1>7. Spread(G, <<>>) = <<>> /\ <<>> \in Seq(ST!Bytes)
  BY SpreadEmpty, EmptySeq
<1> HIDE DEF G
<1>10. \A s \in Seq(ST!Bytes) : ST!Added(s) \in Seq(ST!Bytes)
  BY <1>2, <1>3
<1>11. \A s, t \in Seq(ST!Bytes) : ST!Added(s \o t) = ST!Added(s) \o ST!Added(t)
  BY <1>2, <1>4, <1>8
<1>12. \A s \in Seq(ST!Bytes), e \in ST!Bytes : ST!Added(Append(s, e)) =
         ST!Added(s) \o (IF e = "n" THEN <<"r", "n">> ELSE <<e>>)
  <2>1. SUFFICES ASSUME NEW s \in Seq(ST!Bytes), NEW e \in ST!Bytes
                 PROVE  ST!Added(Append(s, e)) =
                          ST!Added(s) \o (IF e = "n" THEN <<"r", "n">> ELSE <<e>>)
    OBVIOUS
  <2>2. ST!Added(Append(s, e)) = Spread(G, s) \o G[e] /\ ST!Added(s) = Spread(G, s)
    BY <1>2, <1>5, <1>9
  <2>3. G[e] = IF e = "n" THEN <<"r", "n">> ELSE <<e>>
    BY <1>6
  <2> QED
    BY <2>2, <2>3, Zenon
<1>13. ST!Added(<<>>) = <<>>
  BY <1>2, <1>7
<1> QED
  BY <1>10, <1>11, <1>12, <1>13

-----------------------------------------------------------------------------
(* Folds: the function by which FoldLeft is defined, for an operation given as  *)
(* a function                                                                *)

LEMMA MaxIs ==
  ASSUME NEW n \in Nat, NEW T \in SUBSET (1 .. n), T # {}
  PROVE  ST!Max(T) \in T /\ \A x \in T : x <= ST!Max(T)
<1> DEFINE N == {m \in Nat : \A U \in SUBSET (1 .. m) : U # {} =>
                               \E x \in U : \A y \in U : x >= y}
<1>1. 0 \in N
  <2>1. \A U \in SUBSET (1 .. 0) : U = {}
    OBVIOUS
  <2> QED
    BY <2>1
<1>2. \A m \in N : m + 1 \in N
  <2> SUFFICES ASSUME NEW m \in N PROVE m + 1 \in N
    OBVIOUS
  <2>1. SUFFICES ASSUME NEW U \in SUBSET (1 .. m + 1), U # {}
                 PROVE  \E x \in U : \A y \in U : x >= y
    OBVIOUS
  <2>2. CASE m + 1 \in U
    <3>1. \A y \in U : m + 1 >= y
      OBVIOUS
    <3> QED
      BY <2>2, <3>1
  <2>3. CASE m + 1 \notin U
    <3>1. U \in SUBSET (1 .. m)
      BY <2>3
    <3> QED
      BY <2>1, <3>1
  <2> QED
    BY <2>2, <2>3
<1>3. N = Nat
  <2> HIDE DEF N
  <2> QED
    BY <1>1, <1>2, Induction DEF N
<1>4. \E x \in T : \A y \in T : x >= y
  <2>1. n \in N
    BY <1>3
  <2> QED
    BY <2>1
<1>5. ST!Max(T) \in T /\ \A y \in T : ST!Max(T) >= y
  BY <1>4, Zenon DEF ST!Max
<1> QED
  BY <1>5

LEMMA WithoutMax ==
  ASSUME NEW m \in Nat, NEW T \in SUBSET (1 .. m + 1), T # {}
  PROVE  /\ ST!Max(T) \in T
         /\ T \ {ST!Max(T)} \in SUBSET (1 .. m)
         /\ T \ {ST!Max(T)} \in SUBSET T
<1>1. ST!Max(T) \in T /\ \A x \in T : x <= ST!Max(T)
  <2>1. m + 1 \in Nat
    OBVIOUS
  <2> QED
    BY <2>1, MaxIs
<1>2. PICK x : x = ST!Max(T)
  OBVIOUS
<1>3. x \in T /\ \A y \in T : y <= x
  BY <1>1, <1>2
<1>4. T \ {x} \in SUBSET (1 .. m) /\ T \ {x} \in SUBSET T
  <2> SUFFICES ASSUME NEW y \in T, y # x PROVE y \in 1 .. m
    OBVIOUS
  <2>1. y <= x /\ x <= m + 1 /\ 1 <= y /\ x \in Nat /\ y \in Nat
    BY <1>3
  <2> QED
    BY <2>1
<1> QED
  BY <1>2, <1>3, <1>4

\* f computes the fold over s of each set of its places.
Iterates(Op, base, s, n, f) ==
  f = [T \in SUBSET (1 .. n) |->
         IF T = {} THEN base ELSE Op[<<f[T \ {ST!Max(T)}], s[ST!Max(T)]>>]]

LEMMA IteratesExists ==
  ASSUME NEW Op, NEW base, NEW s, NEW n \in Nat
  PROVE  \E f : Iterates(Op, base, s, n, f)
<1> DEFINE N == {m \in Nat : \E f : Iterates(Op, base, s, m, f)}
           At(f, T) == IF T = {} THEN base ELSE Op[<<f[T \ {ST!Max(T)}], s[ST!Max(T)]>>]
<1>1. 0 \in N
  <2> DEFINE f == [T \in SUBSET (1 .. 0) |-> base]
  <2>1. \A T \in SUBSET (1 .. 0) : T = {}
    OBVIOUS
  <2>2. Iterates(Op, base, s, 0, f)
    BY <2>1 DEF Iterates
  <2> QED
    BY <2>2
<1>2. \A m \in N : m + 1 \in N
  <2> SUFFICES ASSUME NEW m \in N PROVE m + 1 \in N
    OBVIOUS
  <2>0. m \in Nat /\ \E f : Iterates(Op, base, s, m, f)
    OBVIOUS
  <2>1. PICK f : Iterates(Op, base, s, m, f)
    BY <2>0
  <2> DEFINE g == [T \in SUBSET (1 .. m + 1) |-> At(f, T)]
  <2>2. ASSUME NEW T \in SUBSET (1 .. m) PROVE g[T] = f[T]
    <3>1. T \in SUBSET (1 .. m + 1)
      OBVIOUS
    <3>2. g[T] = At(f, T)
      BY <3>1
    <3>3. f[T] = At(f, T)
      BY <2>1, Zenon DEF Iterates
    <3> QED
      BY <3>2, <3>3
  <2>3. ASSUME NEW T \in SUBSET (1 .. m + 1) PROVE g[T] = At(g, T)
    <3>1. CASE T = {}
      BY <3>1
    <3>2. CASE T # {}
      <4>2. T \ {ST!Max(T)} \in SUBSET (1 .. m)
        BY <2>0, <3>2, WithoutMax
      <4>3. g[T \ {ST!Max(T)}] = f[T \ {ST!Max(T)}]
        BY <2>2, <4>2
      <4>4. g[T] = At(f, T)
        OBVIOUS
      <4> HIDE DEF g
      <4> QED
        BY <4>3, <4>4
    <3> QED
      BY <3>1, <3>2
  <2>4. g = [T \in SUBSET (1 .. m + 1) |-> g[T]]
    OBVIOUS
  <2>5. g = [T \in SUBSET (1 .. m + 1) |-> At(g, T)]
    <3> HIDE DEF g, At
    <3> QED
      BY <2>3, <2>4
  <2>6. Iterates(Op, base, s, m + 1, g)
    <3> HIDE DEF g
    <3> QED
      BY <2>5 DEF Iterates
  <2> QED
    BY <2>0, <2>6
<1>3. N = Nat
  <2> HIDE DEF N
  <2> QED
    BY <1>1, <1>2, Induction DEF N
<1> QED
  BY <1>3

\* What holds of no places, and of some if it holds of those without the last, holds
\* of all.
LEMMA PlacesInduction ==
  ASSUME NEW n \in Nat, NEW W \in SUBSET (SUBSET (1 .. n)), {} \in W,
         \A T \in SUBSET (1 .. n) : T # {} /\ T \ {ST!Max(T)} \in W => T \in W
  PROVE  W = SUBSET (1 .. n)
<1> DEFINE N == {m \in Nat : \A T \in SUBSET (1 .. m) : T \in SUBSET (1 .. n) => T \in W}
<1>1. 0 \in N
  <2>1. \A T \in SUBSET (1 .. 0) : T = {}
    OBVIOUS
  <2> QED
    BY <2>1
<1>2. \A m \in N : m + 1 \in N
  <2> SUFFICES ASSUME NEW m \in N PROVE m + 1 \in N
    OBVIOUS
  <2>0. m \in Nat /\ m + 1 \in Nat /\ \A T \in SUBSET (1 .. m) : T \in SUBSET (1 .. n) => T \in W
    OBVIOUS
  <2>1. SUFFICES ASSUME NEW T \in SUBSET (1 .. m + 1), T \in SUBSET (1 .. n), T # {}
                 PROVE  T \in W
    BY <2>0
  <2>2. T \ {ST!Max(T)} \in SUBSET (1 .. m) /\ T \ {ST!Max(T)} \in SUBSET T
    BY <2>0, <2>1, WithoutMax
  <2>3. T \ {ST!Max(T)} \in SUBSET (1 .. m) /\ T \ {ST!Max(T)} \in SUBSET (1 .. n)
    <3> HIDE DEF N
    <3> QED
      BY <2>1, <2>2
  <2>4. T \ {ST!Max(T)} \in W
    BY <2>0, <2>3
  <2> QED
    BY <2>1, <2>4
<1>3. N = Nat
  <2> HIDE DEF N
  <2> QED
    BY <1>1, <1>2, Induction DEF N
<1>4. n \in N
  BY <1>3
<1> QED
  BY <1>4

LEMMA IteratesType ==
  ASSUME NEW A, NEW B, NEW Op \in [A \X B -> A], NEW base \in A, NEW s, NEW n \in Nat,
         \A k \in 1 .. n : s[k] \in B, NEW f, Iterates(Op, base, s, n, f)
  PROVE  \A T \in SUBSET (1 .. n) : f[T] \in A
<1> DEFINE W == {T \in SUBSET (1 .. n) : f[T] \in A}
<1>1. ASSUME NEW T \in SUBSET (1 .. n)
      PROVE  f[T] = IF T = {} THEN base ELSE Op[<<f[T \ {ST!Max(T)}], s[ST!Max(T)]>>]
  BY Zenon DEF Iterates
<1>2. {} \in W
  BY <1>1
<1>3. \A T \in SUBSET (1 .. n) : T # {} /\ T \ {ST!Max(T)} \in W => T \in W
  <2>1. SUFFICES ASSUME NEW T \in SUBSET (1 .. n), T # {}, f[T \ {ST!Max(T)}] \in A
                 PROVE  f[T] \in A
    OBVIOUS
  <2>2. s[ST!Max(T)] \in B
    BY <2>1, MaxIs
  <2> QED
    BY <1>1, <2>1, <2>2
<1>4. W \in SUBSET (SUBSET (1 .. n))
  OBVIOUS
<1>5. W = SUBSET (1 .. n)
  <2> HIDE DEF W
  <2> QED
    BY <1>2, <1>3, <1>4, PlacesInduction
<1> QED
  BY <1>5

\* A function that takes the same steps is the same.
SameSteps(f, g, n) ==
  /\ f[{}] = g[{}]
  /\ \A T \in SUBSET (1 .. n) :
       T # {} /\ f[T \ {ST!Max(T)}] = g[T \ {ST!Max(T)}] => f[T] = g[T]

LEMMA IteratesUnique ==
  ASSUME NEW n \in Nat, NEW f, NEW g, SameSteps(f, g, n)
  PROVE  \A T \in SUBSET (1 .. n) : f[T] = g[T]
<1> DEFINE W == {T \in SUBSET (1 .. n) : f[T] = g[T]}
<1>1. {} \in W
  BY DEF SameSteps
<1>2. \A T \in SUBSET (1 .. n) : T # {} /\ T \ {ST!Max(T)} \in W => T \in W
  BY DEF SameSteps
<1>3. W \in SUBSET (SUBSET (1 .. n))
  OBVIOUS
<1>4. W = SUBSET (1 .. n)
  <2> HIDE DEF W
  <2> QED
    BY <1>1, <1>2, <1>3, PlacesInduction
<1> QED
  BY <1>4

\* One place more.
Grows(Op, base, s, n, f) ==
  /\ f[1 .. 0] = base
  /\ \A k \in 0 .. n - 1 : f[1 .. k + 1] = Op[<<f[1 .. k], s[k + 1]>>]

LEMMA IteratesStep ==
  ASSUME NEW Op, NEW base, NEW s, NEW n \in Nat, NEW f, Iterates(Op, base, s, n, f)
  PROVE  Grows(Op, base, s, n, f)
<1>1. ASSUME NEW T \in SUBSET (1 .. n)
      PROVE  f[T] = IF T = {} THEN base ELSE Op[<<f[T \ {ST!Max(T)}], s[ST!Max(T)]>>]
  BY Zenon DEF Iterates
<1>2. 1 .. 0 = {}
  OBVIOUS
<1>3. ASSUME NEW k \in 0 .. n - 1
      PROVE  f[1 .. k + 1] = Op[<<f[1 .. k], s[k + 1]>>]
  <2>1. /\ 1 .. k + 1 \in SUBSET (1 .. n) /\ 1 .. k + 1 # {}
        /\ k + 1 \in Nat /\ k + 1 \in 1 .. k + 1 /\ 1 .. k + 1 \in SUBSET (1 .. k + 1)
    OBVIOUS
  <2>2. ST!Max(1 .. k + 1) \in 1 .. k + 1 /\ k + 1 <= ST!Max(1 .. k + 1)
    BY <2>1, MaxIs
  <2>3. ST!Max(1 .. k + 1) = k + 1
    BY <2>2
  <2>4. (1 .. k + 1) \ {k + 1} = 1 .. k
    OBVIOUS
  <2> QED
    BY <1>1, <2>1, <2>3, <2>4
<1> QED
  BY <1>1, <1>2, <1>3 DEF Grows


-----------------------------------------------------------------------------
(* crlf.c: what the two loops make of a chunk                                *)

Kept     == Seq(ST!Bytes) \cup {ST!Refused}
AddStates == [dst : Kept, lenout : Nat]
StripOp  == [x \in Kept \X ST!Bytes |-> ST!StripByte(x[1], x[2])]
AddOp    == [x \in AddStates \X ST!Bytes |-> ST!AddByte(x[1], x[2])]

\* What follows the rule of Op wherever it is defined is its fold.
Typed(Op, A, B, base, s, n) ==
  /\ Op \in [A \X B -> A] /\ base \in A
  /\ n \in Nat /\ \A k \in 1 .. n : s[k] \in B

Follows(Op, base, A, s, n, g) ==
  /\ g[{}] = base
  /\ \A T \in SUBSET (1 .. n) :
       T # {} /\ g[T \ {ST!Max(T)}] \in A =>
         g[T] = Op[<<g[T \ {ST!Max(T)}], s[ST!Max(T)]>>]

LEMMA IteratesChosen ==
  ASSUME NEW A, NEW B, NEW Op, NEW base, NEW s, NEW n, Typed(Op, A, B, base, s, n),
         NEW f, Iterates(Op, base, s, n, f), NEW g, Follows(Op, base, A, s, n, g)
  PROVE  g[1 .. n] = f[1 .. n]
<1>1. ASSUME NEW T \in SUBSET (1 .. n)
      PROVE  f[T] = IF T = {} THEN base ELSE Op[<<f[T \ {ST!Max(T)}], s[ST!Max(T)]>>]
  BY Zenon DEF Iterates
<1>2. \A T \in SUBSET (1 .. n) : f[T] \in A
  BY IteratesType DEF Typed
<1>3. f[{}] = g[{}]
  BY <1>1 DEF Follows
<1>4. ASSUME NEW T \in SUBSET (1 .. n), T # {}, f[T \ {ST!Max(T)}] = g[T \ {ST!Max(T)}]
      PROVE  f[T] = g[T]
  <2>1. T \ {ST!Max(T)} \in SUBSET (1 .. n)
    OBVIOUS
  <2>2. f[T \ {ST!Max(T)}] \in A
    BY <1>2, <2>1
  <2> QED
    BY <1>1, <1>4, <2>2 DEF Follows
<1>5. SameSteps(f, g, n)
  BY <1>3, <1>4, Zenon DEF SameSteps
<1>6. \A T \in SUBSET (1 .. n) : f[T] = g[T]
  BY <1>5, IteratesUnique DEF Typed
<1> QED
  BY <1>6

LEMMA StripOpIs ==
  /\ StripOp \in [Kept \X ST!Bytes -> Kept] /\ <<>> \in Kept
  /\ \A r \in Kept, c \in ST!Bytes : StripOp[<<r, c>>] = ST!StripByte(r, c)
<1>1. ASSUME NEW r \in Kept, NEW c \in ST!Bytes PROVE ST!StripByte(r, c) \in Kept
  <2>1. CASE r = ST!Refused
    BY <2>1 DEF ST!StripByte, Kept
  <2>2. CASE r # ST!Refused
    <3>1. r \in Seq(ST!Bytes)
      BY <2>2 DEF Kept
    <3>2. Append(r, c) \in Seq(ST!Bytes)
      BY <3>1, AppendProperties
    <3> QED
      BY <3>1, <3>2 DEF ST!StripByte, Kept
  <2> QED
    BY <2>1, <2>2
<1>2. \A r \in Kept, c \in ST!Bytes : StripOp[<<r, c>>] = ST!StripByte(r, c)
  BY DEF StripOp
<1>3. <<>> \in Kept
  BY EmptySeq DEF Kept
<1>4. \A x \in Kept \X ST!Bytes : ST!StripByte(x[1], x[2]) \in Kept
  BY <1>1
<1>5. StripOp \in [Kept \X ST!Bytes -> Kept]
  BY <1>4, Zenon DEF StripOp
<1> QED
  BY <1>2, <1>3, <1>5

\* What the loop leaves is a fold of StripOp.
LEMMA StripFolds ==
  ASSUME NEW s \in Seq(ST!Bytes)
  PROVE  \E f : Iterates(StripOp, <<>>, s, Len(s), f) /\ ST!CrlfStrip(s) = f[1 .. Len(s)]
<1> DEFINE n == Len(s)
           Rule(g) == [T \in SUBSET (1 .. n) |->
                         IF T = {} THEN <<>>
                         ELSE ST!StripByte(g[T \ {ST!Max(T)}], s[ST!Max(T)])]
           g == CHOOSE g : g = Rule(g)
<1>1. n \in Nat /\ DOMAIN s = 1 .. n /\ \A k \in 1 .. n : s[k] \in ST!Bytes
  BY LenProperties, ElementOfSeq
<1>2. ST!CrlfStrip(s) = g[1 .. n]
  <2>1. DOMAIN s = 1 .. n
    BY <1>1
  <2> HIDE DEF n
  <2> QED
    BY <2>1, Zenon DEF ST!CrlfStrip, ST!FoldLeft, ST!MapThenFoldSet
<1>3. PICK f : Iterates(StripOp, <<>>, s, n, f)
  BY <1>1, IteratesExists
<1>4. \A T \in SUBSET (1 .. n) : f[T] \in Kept
  <2> HIDE DEF n
  <2> QED
    BY <1>1, <1>3, StripOpIs, IteratesType
<1>5. ASSUME NEW T \in SUBSET (1 .. n)
      PROVE  f[T] = IF T = {} THEN <<>>
                    ELSE ST!StripByte(f[T \ {ST!Max(T)}], s[ST!Max(T)])
  <2>1. f[T] = IF T = {} THEN <<>> ELSE StripOp[<<f[T \ {ST!Max(T)}], s[ST!Max(T)]>>]
    BY <1>3, Zenon DEF Iterates
  <2>2. CASE T # {}
    <3>1. T \ {ST!Max(T)} \in SUBSET (1 .. n) /\ ST!Max(T) \in 1 .. n
      BY <1>1, <2>2, MaxIs
    <3>2. f[T \ {ST!Max(T)}] \in Kept /\ s[ST!Max(T)] \in ST!Bytes
      BY <1>1, <1>4, <3>1
    <3> QED
      BY <2>1, <3>2, StripOpIs, Zenon
  <2> QED
    BY <2>1, <2>2
<1>6. f = Rule(f)
  <2>1. f = [T \in SUBSET (1 .. n) |-> f[T]]
    BY <1>3, Zenon DEF Iterates
  <2> QED
    BY <1>5, <2>1, Zenon
<1>7. g = Rule(g)
  <2> HIDE DEF Rule
  <2> QED
    BY <1>6, Zenon
<1>8. ASSUME NEW T \in SUBSET (1 .. n)
      PROVE  g[T] = IF T = {} THEN <<>>
                    ELSE ST!StripByte(g[T \ {ST!Max(T)}], s[ST!Max(T)])
  <2> HIDE DEF g
  <2> QED
    BY <1>7, Zenon
<1> HIDE DEF Rule, g, n
<1>9. ASSUME NEW T \in SUBSET (1 .. n), T # {}, g[T \ {ST!Max(T)}] \in Kept
      PROVE  g[T] = StripOp[<<g[T \ {ST!Max(T)}], s[ST!Max(T)]>>]
  <2>1. s[ST!Max(T)] \in ST!Bytes
    BY <1>1, <1>9, MaxIs
  <2> QED
    BY <1>8, <1>9, <2>1, StripOpIs, Zenon
<1>10. g[{}] = <<>>
  BY <1>8
<1>11. Follows(StripOp, <<>>, Kept, s, n, g)
  BY <1>9, <1>10, Zenon DEF Follows
<1>12. g[1 .. n] = f[1 .. n]
  <2>1. n \in Nat
    BY <1>1
  <2>2. \A k \in 1 .. n : s[k] \in ST!Bytes
    BY <1>1
  <2>3. Typed(StripOp, Kept, ST!Bytes, <<>>, s, n)
    BY <2>1, <2>2, StripOpIs, Zenon DEF Typed
  <2> QED
    BY <1>3, <1>11, <2>3, IteratesChosen
<1> QED
  BY <1>2, <1>3, <1>12 DEF n

LEMMA PrefixStep ==
  ASSUME NEW S, NEW s \in Seq(S), NEW k \in 0 .. Len(s) - 1
  PROVE  /\ SubSeq(s, 1, k) \in Seq(S) /\ Len(SubSeq(s, 1, k)) = k
         /\ s[k + 1] \in S
         /\ SubSeq(s, 1, k + 1) = Append(SubSeq(s, 1, k), s[k + 1])
<1>1. Len(s) \in Nat /\ k \in Nat /\ k + 1 \in 1 .. Len(s)
  OBVIOUS
<1>2. s[k + 1] \in S
  BY <1>1, ElementOfSeq
<1>3. /\ SubSeq(s, 1, k) \in Seq(S) /\ Len(SubSeq(s, 1, k)) = k
      /\ \A j \in 1 .. k : SubSeq(s, 1, k)[j] = s[j]
  OBVIOUS
<1>4. /\ SubSeq(s, 1, k + 1) \in Seq(S) /\ Len(SubSeq(s, 1, k + 1)) = k + 1
      /\ \A j \in 1 .. k + 1 : SubSeq(s, 1, k + 1)[j] = s[j]
  BY <1>1
<1>5. /\ Append(SubSeq(s, 1, k), s[k + 1]) \in Seq(S)
      /\ Len(Append(SubSeq(s, 1, k), s[k + 1])) = k + 1
      /\ \A j \in 1 .. k + 1 : Append(SubSeq(s, 1, k), s[k + 1])[j] = s[j]
  BY <1>2, <1>3, AppendProperties
<1> QED
  BY <1>2, <1>3, <1>4, <1>5, SeqEqual

LEMMA RefusedIsNot == ST!Refused \notin Seq(ST!Bytes)
<1>1. ASSUME NEW r \in Seq(ST!Bytes), Len(r) = 1, r[1] \notin ST!Bytes PROVE FALSE
  <2>1. 1 \in 1 .. Len(r)
    BY <1>1
  <2>2. \A j \in 1 .. Len(r) : r[j] \in ST!Bytes
    BY <1>1, ElementOfSeq
  <2> QED
    BY <1>1, <2>1, <2>2
<1>2. Len(ST!Refused) = 1
  BY DEF ST!Refused
<1>3. ST!Refused[1] \notin ST!Bytes
  BY DEF ST!Refused, ST!Bytes
<1> QED
  BY <1>1, <1>2, <1>3, Zenon

AddBase(s) == [dst |-> <<>>, lenout |-> Len(s)]

LEMMA AddOpIs ==
  /\ AddOp \in [AddStates \X ST!Bytes -> AddStates]
  /\ \A s \in Seq(ST!Bytes) : AddBase(s) \in AddStates
  /\ \A r \in AddStates, c \in ST!Bytes : AddOp[<<r, c>>] = ST!AddByte(r, c)
<1>1. ASSUME NEW r \in AddStates, NEW c \in ST!Bytes PROVE ST!AddByte(r, c) \in AddStates
  <2>1. r.lenout \in Nat /\ r.dst \in Kept /\ r = [dst |-> r.dst, lenout |-> r.lenout]
    BY DEF AddStates
  <2>2. CASE r.dst = ST!Refused
    BY <2>2 DEF ST!AddByte
  <2>3. CASE r.dst # ST!Refused
    <3>1. r.dst \in Seq(ST!Bytes)
      BY <2>1, <2>3 DEF Kept
    <3>2. Append(r.dst, c) \in Kept
      BY <3>1, AppendProperties DEF Kept
    <3>3. r.dst \o <<"r", "n">> \in Kept
      <4>1. <<"r", "n">> \in Seq(ST!Bytes)
        BY DEF ST!Bytes
      <4> QED
        BY <3>1, <4>1, ConcatProperties DEF Kept
    <3>4. ST!Refused \in Kept
      BY DEF Kept
    <3>5. CASE c # "n"
      <4>1. ST!AddByte(r, c) = [r EXCEPT !.dst = Append(@, c)]
        BY <2>3, <3>5 DEF ST!AddByte
      <4> QED
        BY <2>1, <3>2, <4>1 DEF AddStates
    <3>6. CASE c = "n" /\ r.lenout + 1 >= WriteLen
      <4>1. ST!AddByte(r, c) = [r EXCEPT !.dst = ST!Refused]
        BY <2>3, <3>6, Zenon DEF ST!AddByte
      <4> QED
        BY <2>1, <3>4, <4>1 DEF AddStates
    <3>7. CASE c = "n" /\ ~(r.lenout + 1 >= WriteLen)
      <4>1. ST!AddByte(r, c) = [dst |-> r.dst \o <<"r", "n">>, lenout |-> r.lenout + 1]
        BY <2>3, <3>7, Zenon DEF ST!AddByte
      <4>2. r.lenout + 1 \in Nat
        BY <2>1
      <4> QED
        BY <3>3, <4>1, <4>2 DEF AddStates
    <3> QED
      BY <3>5, <3>6, <3>7
  <2> QED
    BY <2>2, <2>3
<1>2. \A r \in AddStates, c \in ST!Bytes : AddOp[<<r, c>>] = ST!AddByte(r, c)
  BY DEF AddOp
<1>3. \A s \in Seq(ST!Bytes) : AddBase(s) \in AddStates
  BY EmptySeq, LenProperties DEF AddStates, Kept, AddBase
<1>4. \A x \in AddStates \X ST!Bytes : ST!AddByte(x[1], x[2]) \in AddStates
  BY <1>1
<1>5. AddOp \in [AddStates \X ST!Bytes -> AddStates]
  BY <1>4, Zenon DEF AddOp
<1> QED
  BY <1>2, <1>3, <1>5

\* What the loop leaves is a fold of AddOp.
LEMMA AddFolds ==
  ASSUME NEW s \in Seq(ST!Bytes)
  PROVE  \E f : Iterates(AddOp, AddBase(s), s, Len(s), f) /\ (Len(s) <= WriteLen => ST!CrlfAdd(s) = f[1 .. Len(s)].dst)
<1> DEFINE n == Len(s)
           Rule(g) == [T \in SUBSET (1 .. n) |->
                         IF T = {} THEN AddBase(s)
                         ELSE ST!AddByte(g[T \ {ST!Max(T)}], s[ST!Max(T)])]
           g == CHOOSE g : g = Rule(g)
<1>1. n \in Nat /\ DOMAIN s = 1 .. n /\ \A k \in 1 .. n : s[k] \in ST!Bytes
  BY LenProperties, ElementOfSeq
<1>2. Len(s) <= WriteLen => ST!CrlfAdd(s) = g[1 .. n].dst
  <2>1. DOMAIN s = 1 .. n
    BY <1>1
  <2>2. Len(s) <= WriteLen => ~(Len(s) > WriteLen)
    BY <1>1, ToolsAssumption
  <2> HIDE DEF n
  <2> QED
    BY <2>1, <2>2, Zenon DEF ST!CrlfAdd, ST!FoldLeft, ST!MapThenFoldSet, AddBase
<1>3. PICK f : Iterates(AddOp, AddBase(s), s, n, f)
  BY <1>1, IteratesExists
<1>4. \A T \in SUBSET (1 .. n) : f[T] \in AddStates
  <2> HIDE DEF n
  <2> QED
    BY <1>1, <1>3, AddOpIs, IteratesType
<1>5. ASSUME NEW T \in SUBSET (1 .. n)
      PROVE  f[T] = IF T = {} THEN AddBase(s)
                    ELSE ST!AddByte(f[T \ {ST!Max(T)}], s[ST!Max(T)])
  <2>1. f[T] = IF T = {} THEN AddBase(s) ELSE AddOp[<<f[T \ {ST!Max(T)}], s[ST!Max(T)]>>]
    BY <1>3, Zenon DEF Iterates
  <2>2. CASE T # {}
    <3>1. T \ {ST!Max(T)} \in SUBSET (1 .. n) /\ ST!Max(T) \in 1 .. n
      BY <1>1, <2>2, MaxIs
    <3>2. f[T \ {ST!Max(T)}] \in AddStates /\ s[ST!Max(T)] \in ST!Bytes
      BY <1>1, <1>4, <3>1
    <3> QED
      BY <2>1, <3>2, AddOpIs, Zenon
  <2> QED
    BY <2>1, <2>2
<1>6. f = Rule(f)
  <2>1. f = [T \in SUBSET (1 .. n) |-> f[T]]
    BY <1>3, Zenon DEF Iterates
  <2> QED
    BY <1>5, <2>1, Zenon
<1>7. g = Rule(g)
  <2> HIDE DEF Rule
  <2> QED
    BY <1>6, Zenon
<1>8. ASSUME NEW T \in SUBSET (1 .. n)
      PROVE  g[T] = IF T = {} THEN AddBase(s)
                    ELSE ST!AddByte(g[T \ {ST!Max(T)}], s[ST!Max(T)])
  <2> HIDE DEF g
  <2> QED
    BY <1>7, Zenon
<1> HIDE DEF Rule, g, n
<1>9. ASSUME NEW T \in SUBSET (1 .. n), T # {}, g[T \ {ST!Max(T)}] \in AddStates
      PROVE  g[T] = AddOp[<<g[T \ {ST!Max(T)}], s[ST!Max(T)]>>]
  <2>1. s[ST!Max(T)] \in ST!Bytes
    BY <1>1, <1>9, MaxIs
  <2> QED
    BY <1>8, <1>9, <2>1, AddOpIs, Zenon
<1>10. g[{}] = AddBase(s)
  BY <1>8
<1>11. Follows(AddOp, AddBase(s), AddStates, s, n, g)
  BY <1>9, <1>10, Zenon DEF Follows
<1>12. g[1 .. n] = f[1 .. n]
  <2>1. n \in Nat
    BY <1>1
  <2>2. \A k \in 1 .. n : s[k] \in ST!Bytes
    BY <1>1
  <2>3. Typed(AddOp, AddStates, ST!Bytes, AddBase(s), s, n)
    BY <2>1, <2>2, AddOpIs, Zenon DEF Typed
  <2> QED
    BY <1>3, <1>11, <2>3, IteratesChosen
<1> QED
  BY <1>2, <1>3, <1>12 DEF n


\* crlf_strip leaves the returns out, or refuses what fills the buffer.
LEMMA StripIs ==
  ASSUME NEW s \in Seq(ST!Bytes)
  PROVE  \/ ST!CrlfStrip(s) = ST!Stripped(s) /\ ST!CrlfStrip(s) # ST!Refused
         \/ ST!CrlfStrip(s) = ST!Refused /\ Len(ST!Stripped(s)) >= WriteLen
<1> DEFINE n == Len(s)
           p(k) == SubSeq(s, 1, k)
<1>1. PICK f : Iterates(StripOp, <<>>, s, n, f) /\ ST!CrlfStrip(s) = f[1 .. n]
  BY StripFolds
<1> DEFINE R(k) == \/ f[1 .. k] = ST!Stripped(p(k)) /\ f[1 .. k] # ST!Refused
                   \/ f[1 .. k] = ST!Refused /\ Len(ST!Stripped(p(k))) >= WriteLen
           N == {k \in Nat : k <= n => R(k)}
<1>2. n \in Nat /\ WriteLen \in Nat /\ SubSeq(s, 1, 0) = <<>> /\ SubSeq(s, 1, n) = s
  BY LenProperties, ToolsAssumption
<1>7. /\ f[1 .. 0] = <<>>
      /\ \A k \in 0 .. n - 1 : f[1 .. k + 1] = StripOp[<<f[1 .. k], s[k + 1]>>]
  <2> HIDE DEF n
  <2>1. Grows(StripOp, <<>>, s, n, f)
    BY <1>1, <1>2, IteratesStep
  <2> QED
    BY <2>1, Zenon DEF Grows
<1>3. 0 \in N
  <2>1. f[1 .. 0] = <<>>
    BY <1>7
  <2>2. <<>> # ST!Refused
    BY RefusedIsNot, EmptySeq
  <2> QED
    BY <1>2, <2>1, <2>2, StrippedIs
<1>4. ASSUME NEW k \in N PROVE k + 1 \in N
  <2> SUFFICES ASSUME k + 1 <= n PROVE R(k + 1)
    OBVIOUS
  <2>1. k \in 0 .. n - 1 /\ R(k)
    BY <1>2
  <2> HIDE DEF N
  <2> DEFINE c == s[k + 1]
             q == ST!Stripped(p(k))
  <2>2. p(k) \in Seq(ST!Bytes) /\ c \in ST!Bytes /\ p(k + 1) = Append(p(k), c)
    BY <2>1, PrefixStep
  <2>3. q \in Seq(ST!Bytes) /\ ST!Stripped(p(k + 1)) = IF c = "r" THEN q ELSE Append(q, c)
    BY <2>2, StrippedIs
  <2>4. f[1 .. k + 1] = StripOp[<<f[1 .. k], c>>]
    BY <1>7, <2>1
  <2>5. f[1 .. k] \in Kept
    BY <2>1, <2>3 DEF Kept
  <2>6. f[1 .. k + 1] = ST!StripByte(f[1 .. k], c)
    BY <2>2, <2>4, <2>5, StripOpIs
  <2> HIDE DEF q, c, p
  <2>7. /\ Append(q, c) \in Seq(ST!Bytes) /\ Len(Append(q, c)) = Len(q) + 1 /\ Len(q) \in Nat
    BY <2>2, <2>3, AppendProperties, LenProperties
  <2>8. q # ST!Refused /\ Append(q, c) # ST!Refused
    BY <2>3, <2>7, RefusedIsNot
  <2>9. f[1 .. k + 1] = IF f[1 .. k] = ST!Refused \/ c = "r" THEN f[1 .. k]
                        ELSE IF Len(f[1 .. k]) + 1 >= WriteLen THEN ST!Refused
                        ELSE Append(f[1 .. k], c)
    BY <2>6 DEF ST!StripByte
  <2>10. \/ f[1 .. k] = q
         \/ f[1 .. k] = ST!Refused /\ Len(q) >= WriteLen
    BY <2>1 DEF q
  <2>11. /\ (c = "r" => ST!Stripped(p(k + 1)) = q)
         /\ (c # "r" => ST!Stripped(p(k + 1)) = Append(q, c))
    BY <2>3
  <2>12. CASE f[1 .. k] = q /\ c # "r" /\ Len(q) + 1 >= WriteLen
    <3>1. f[1 .. k + 1] = ST!Refused
      BY <2>8, <2>9, <2>12, Zenon
    <3> QED
      BY <2>7, <2>11, <2>12, <3>1
  <2>13. CASE f[1 .. k] = q /\ c # "r" /\ ~(Len(q) + 1 >= WriteLen)
    <3>1. f[1 .. k + 1] = Append(q, c)
      BY <2>8, <2>9, <2>13, Zenon
    <3> QED
      BY <2>8, <2>11, <2>13, <3>1, Zenon
  <2>14. CASE f[1 .. k] = q /\ c = "r"
    BY <2>8, <2>9, <2>11, <2>14, Zenon
  <2>15. CASE f[1 .. k] = ST!Refused /\ Len(q) >= WriteLen
    <3>1. f[1 .. k + 1] = ST!Refused
      BY <2>9, <2>15, Zenon
    <3>2. Len(ST!Stripped(p(k + 1))) >= WriteLen
      <4>1. Len(q) + 1 >= WriteLen
        BY <1>2, <2>7, <2>15
      <4> QED
        BY <2>7, <2>11, <2>15, <4>1
    <3> QED
      BY <3>1, <3>2
  <2> QED
    BY <2>10, <2>12, <2>13, <2>14, <2>15
<1>5. N = Nat
  <2> HIDE DEF N
  <2> QED
    BY <1>3, <1>4, Induction DEF N
<1>6. R(n)
  BY <1>2, <1>5
<1> QED
  BY <1>1, <1>2, <1>6

LEMMA Needed ==
  ASSUME NEW a \in Nat, NEW k \in Nat, NEW n \in Nat, NEW l \in Nat, a + k = n + l
  PROVE  a + (k + 1) = n + (l + 1) /\ (a + 1) + (k + 1) = n + (l + 2)
OBVIOUS

LEMMA OneAdded ==
  ASSUME NEW e \in ST!Bytes, NEW u, u = IF e = "n" THEN <<"r", "n">> ELSE <<e>>
  PROVE  u \in Seq(ST!Bytes) /\ Len(u) \in Nat /\ Len(u) = IF e = "n" THEN 2 ELSE 1
<1>1. CASE e = "n"
  <2>1. u = <<"r", "n">> /\ "r" \in ST!Bytes /\ "n" \in ST!Bytes
    BY <1>1 DEF ST!Bytes
  <2> QED
    BY <1>1, <2>1
<1>2. CASE e # "n"
  <2>1. u = <<e>>
    BY <1>2
  <2> QED
    BY <1>2, <2>1
<1> QED
  BY <1>1, <1>2

LEMMA AddedLonger == \A s \in Seq(ST!Bytes) : Len(ST!Added(s)) >= Len(s)
<1> DEFINE T == {s \in Seq(ST!Bytes) : Len(ST!Added(s)) >= Len(s)}
<1>1. <<>> \in T
  BY EmptySeq, AddedIs
<1>2. \A s \in T : \A e \in ST!Bytes : Append(s, e) \in T
  <2>1. SUFFICES ASSUME NEW s \in Seq(ST!Bytes), Len(ST!Added(s)) >= Len(s), NEW e \in ST!Bytes
                 PROVE  Append(s, e) \in Seq(ST!Bytes) /\ Len(ST!Added(Append(s, e))) >= Len(Append(s, e))
    OBVIOUS
  <2>2. PICK u : u = IF e = "n" THEN <<"r", "n">> ELSE <<e>>
    OBVIOUS
  <2>3. u \in Seq(ST!Bytes) /\ Len(u) >= 1 /\ Len(u) \in Nat
    <3>1. Len(u) \in Nat /\ Len(u) = IF e = "n" THEN 2 ELSE 1
      BY <2>2, OneAdded
    <3>2. u \in Seq(ST!Bytes)
      BY <2>2, OneAdded
    <3> QED
      BY <3>1, <3>2
  <2>4. ST!Added(Append(s, e)) = ST!Added(s) \o u /\ ST!Added(s) \in Seq(ST!Bytes)
    BY <2>2, AddedIs
  <2>5. Len(ST!Added(s) \o u) = Len(ST!Added(s)) + Len(u) /\ Len(ST!Added(s)) \in Nat /\ Len(s) \in Nat
    BY <2>3, <2>4, ConcatProperties, LenProperties
  <2>6. Append(s, e) \in Seq(ST!Bytes) /\ Len(Append(s, e)) = Len(s) + 1
    BY AppendProperties
  <2> QED
    BY <2>1, <2>3, <2>4, <2>5, <2>6
<1>3. T \in SUBSET Seq(ST!Bytes)
  OBVIOUS
<1>4. T = Seq(ST!Bytes)
  <2> HIDE DEF T
  <2> QED
    BY <1>1, <1>2, <1>3, SequenceInduction
<1> QED
  BY <1>4

\* crlf_add puts the returns in, or refuses what fills the buffer.
LEMMA AddIs ==
  ASSUME NEW s \in Seq(ST!Bytes)
  PROVE  \/ /\ ST!CrlfAdd(s) = ST!Added(s) /\ ST!CrlfAdd(s) # ST!Refused
            /\ Len(ST!Added(s)) <= WriteLen
         \/ ST!CrlfAdd(s) = ST!Refused /\ Len(ST!Added(s)) >= WriteLen
<1> DEFINE n == Len(s)
           p(k) == SubSeq(s, 1, k)
<1>1. PICK f : /\ Iterates(AddOp, AddBase(s), s, n, f)
               /\ n <= WriteLen => ST!CrlfAdd(s) = f[1 .. n].dst
  BY AddFolds
<1>2. n \in Nat /\ WriteLen \in Nat /\ SubSeq(s, 1, 0) = <<>> /\ SubSeq(s, 1, n) = s
  BY LenProperties, ToolsAssumption
<1>3. CASE n > WriteLen
  <2>1. ST!CrlfAdd(s) = ST!Refused
    BY <1>3 DEF ST!CrlfAdd
  <2>2. Len(ST!Added(s)) >= n /\ Len(ST!Added(s)) \in Nat
    BY AddedLonger, AddedIs, LenProperties
  <2>3. Len(ST!Added(s)) >= WriteLen
    BY <1>2, <1>3, <2>2
  <2> QED
    BY <2>1, <2>3
<1>4. CASE n <= WriteLen
  <2> DEFINE R(k) ==
        /\ f[1 .. k] \in AddStates
        /\ \/ /\ f[1 .. k].dst = ST!Added(p(k)) /\ f[1 .. k].lenout + k = n + Len(ST!Added(p(k)))
              /\ f[1 .. k].lenout <= WriteLen
           \/ f[1 .. k].dst = ST!Refused /\ n + Len(ST!Added(p(k))) >= WriteLen + k
      N == {k \in Nat : k <= n => R(k)}
  <2>1. /\ f[1 .. 0] = AddBase(s)
        /\ \A k \in 0 .. n - 1 : f[1 .. k + 1] = AddOp[<<f[1 .. k], s[k + 1]>>]
    <3> HIDE DEF n
    <3>1. Grows(AddOp, AddBase(s), s, n, f)
      BY <1>1, <1>2, IteratesStep
    <3> QED
      BY <3>1, Zenon DEF Grows
  <2>2. 0 \in N
    <3>1. f[1 .. 0] = AddBase(s) /\ AddBase(s) \in AddStates
      BY <2>1, AddOpIs
    <3>2. AddBase(s).dst = <<>> /\ AddBase(s).lenout = n
      BY DEF AddBase
    <3>3. ST!Added(p(0)) = <<>> /\ Len(<<>>) = 0
      BY <1>2, AddedIs, EmptySeq
    <3> HIDE DEF n, p
    <3> QED
      BY <1>2, <1>4, <3>1, <3>2, <3>3
  <2>3. ASSUME NEW k \in N PROVE k + 1 \in N
    <3> SUFFICES ASSUME k + 1 <= n PROVE R(k + 1)
      OBVIOUS
    <3>1. k \in 0 .. n - 1 /\ R(k) /\ k \in Nat
      BY <1>2
    <3> HIDE DEF N
    <3> DEFINE c == s[k + 1]
               q == ST!Added(p(k))
               u == IF c = "n" THEN <<"r", "n">> ELSE <<c>>
               r == f[1 .. k]
    <3>2. p(k) \in Seq(ST!Bytes) /\ c \in ST!Bytes /\ p(k + 1) = Append(p(k), c)
      BY <3>1, PrefixStep
    <3>3. q \in Seq(ST!Bytes) /\ ST!Added(p(k + 1)) = q \o u
      BY <3>2, AddedIs
    <3>4. f[1 .. k + 1] = AddOp[<<r, c>>]
      BY <2>1, <3>1
    <3>5. r \in AddStates
      BY <3>1
    <3>6. f[1 .. k + 1] = ST!AddByte(r, c) /\ f[1 .. k + 1] \in AddStates
      BY <3>2, <3>4, <3>5, AddOpIs
    <3>7. /\ u \in Seq(ST!Bytes) /\ Len(u) = IF c = "n" THEN 2 ELSE 1
      <4> HIDE DEF c
      <4> QED
        BY <3>2, OneAdded
    <3>8. /\ q \o u \in Seq(ST!Bytes) /\ Len(q \o u) = Len(q) + Len(u) /\ Len(q) \in Nat
          /\ q # ST!Refused
      <4> HIDE DEF q, u
      <4> QED
        BY <3>3, <3>7, ConcatProperties, LenProperties, RefusedIsNot
    <3>9. c # "n" => q \o u = Append(q, c)
      <4> HIDE DEF q
      <4>1. Append(q, c) = q \o <<c>>
        BY <3>2, <3>3, AppendIsConcat
      <4> QED
        BY <4>1
    <3>10. r.lenout \in Nat /\ r = [dst |-> r.dst, lenout |-> r.lenout]
      BY <3>5 DEF AddStates
    <3>11. \/ /\ r.dst = q /\ r.lenout + k = n + Len(q) /\ r.lenout <= WriteLen
           \/ r.dst = ST!Refused /\ n + Len(q) >= WriteLen + k
      BY <3>1 DEF r, q
    <3> DEFINE v == f[1 .. k + 1]
    <3>12. SUFFICES \/ v.dst = q \o u /\ v.lenout + (k + 1) = n + Len(q \o u) /\ v.lenout <= WriteLen
                    \/ v.dst = ST!Refused /\ n + Len(q \o u) >= WriteLen + (k + 1)
      BY <3>3, <3>6
    <3>13. v = ST!AddByte(r, c)
      BY <3>6
    <3> HIDE DEF v, r, q, p, n
    <3>14. CASE r.dst = q /\ r.lenout + k = n + Len(q) /\ r.lenout <= WriteLen
      <4>1. r.dst # ST!Refused
        BY <3>8, <3>14
      <4>2. CASE c # "n"
        <5>1. v = [r EXCEPT !.dst = Append(@, c)]
          BY <3>13, <4>1, <4>2, Zenon DEF ST!AddByte
        <5>2. v.dst = Append(q, c) /\ v.lenout = r.lenout
          BY <3>10, <3>14, <5>1
        <5>3. Len(q \o u) = Len(q) + 1 /\ q \o u = Append(q, c)
          BY <3>7, <3>8, <3>9, <4>2
        <5>4. n \in Nat /\ k \in Nat /\ Len(q) \in Nat /\ r.lenout \in Nat /\ WriteLen \in Nat
          BY <1>2, <3>1, <3>8, <3>10
        <5> HIDE DEF c, u
        <5> QED
          BY <3>14, <5>2, <5>3, <5>4, Needed
      <4>3. CASE c = "n" /\ r.lenout + 1 >= WriteLen
        <5>1. v = [r EXCEPT !.dst = ST!Refused]
          BY <3>13, <4>1, <4>3, Zenon DEF ST!AddByte
        <5>2. v.dst = ST!Refused
          BY <3>10, <5>1
        <5>3. Len(q \o u) = Len(q) + 2
          BY <3>7, <3>8, <4>3
        <5>4. n \in Nat /\ k \in Nat /\ Len(q) \in Nat /\ r.lenout \in Nat /\ WriteLen \in Nat
          BY <1>2, <3>1, <3>8, <3>10
        <5> HIDE DEF c, u
        <5> QED
          BY <3>14, <4>3, <5>2, <5>3, <5>4
      <4>4. CASE c = "n" /\ ~(r.lenout + 1 >= WriteLen)
        <5>1. v = [dst |-> r.dst \o <<"r", "n">>, lenout |-> r.lenout + 1]
          BY <3>13, <4>1, <4>4, Zenon DEF ST!AddByte
        <5>2. v.dst = q \o u /\ v.lenout = r.lenout + 1
          BY <3>14, <4>4, <5>1
        <5>3. Len(q \o u) = Len(q) + 2
          BY <3>7, <3>8, <4>4
        <5>4. n \in Nat /\ k \in Nat /\ Len(q) \in Nat /\ r.lenout \in Nat /\ WriteLen \in Nat
          BY <1>2, <3>1, <3>8, <3>10
        <5> HIDE DEF c, u
        <5>5. v.lenout + (k + 1) = n + Len(q \o u)
          <6>1. (r.lenout + 1) + (k + 1) = n + (Len(q) + 2)
            <7>1. PICK a \in Nat, l \in Nat : a = r.lenout /\ l = Len(q)
              BY <5>4
            <7>2. a + k = n + l
              BY <3>14, <7>1
            <7>3. (a + 1) + (k + 1) = n + (l + 2)
              BY <5>4, <7>2
            <7> QED
              BY <7>1, <7>3
          <6> QED
            BY <5>2, <5>3, <6>1, Zenon
        <5>6. r.lenout + 1 <= WriteLen
          BY <4>4, <5>4
        <5> QED
          BY <5>2, <5>5, <5>6
      <4> QED
        BY <4>2, <4>3, <4>4
    <3>15. CASE r.dst = ST!Refused /\ n + Len(q) >= WriteLen + k
      <4>1. v = r
        BY <3>13, <3>15, Zenon DEF ST!AddByte
      <4>2. Len(q \o u) >= Len(q) + 1 /\ Len(q \o u) \in Nat
        BY <3>7, <3>8
      <4>3. n \in Nat /\ k \in Nat /\ Len(q) \in Nat /\ WriteLen \in Nat
        BY <1>2, <3>1, <3>8
      <4> HIDE DEF c, u
      <4> QED
        BY <3>15, <4>1, <4>2, <4>3
    <3> QED
      BY <3>11, <3>14, <3>15
  <2>4. N = Nat
    <3> HIDE DEF N
    <3> QED
      BY <2>2, <2>3, Induction DEF N
  <2>5. R(n) /\ p(n) = s
    BY <1>2, <2>4
  <2>6. ST!Added(s) \in Seq(ST!Bytes) /\ Len(ST!Added(s)) \in Nat
    BY AddedIs, LenProperties
  <2>7. f[1 .. n].lenout \in Nat
    BY <2>5 DEF AddStates
  <2>8. ST!CrlfAdd(s) = f[1 .. n].dst
    BY <1>1, <1>4
  <2>9. ST!Added(s) # ST!Refused
    BY <2>6, RefusedIsNot
  <2>10. \/ /\ ST!CrlfAdd(s) = ST!Added(s) /\ f[1 .. n].lenout + n = n + Len(ST!Added(s))
            /\ f[1 .. n].lenout <= WriteLen
         \/ ST!CrlfAdd(s) = ST!Refused /\ n + Len(ST!Added(s)) >= WriteLen + n
    BY <2>5, <2>8
  <2> HIDE DEF n
  <2> QED
    BY <1>2, <2>6, <2>7, <2>9, <2>10
<1> QED
  BY <1>2, <1>3, <1>4

LEMMA Conversions ==
  ASSUME NEW s \in Seq(ST!Bytes)
  PROVE  ST!RefusesOnlyFull(s)
BY AddIs, StripIs DEF ST!RefusesOnlyFull, ST!NeedsWholeBuffer

-----------------------------------------------------------------------------
(* write.c: the parts of a buffer                                            *)

PartStates == [ptr : Nat, left : Nat, size : Nat, iov : Seq([base : Nat, len : Nat]),
               done : BOOLEAN]
PartOp     == [x \in PartStates \X Nat |-> ST!AddPart(x[1], x[2])]
Rounds     == [k \in 1 .. MaxIov |-> k]
PartBase(m) == [ptr |-> 0, left |-> m, size |-> ST!ChunkSize(m), iov |-> <<>>, done |-> FALSE]

\* MaxIov parts of this size are enough.
LEMMA ChunkIsEnough ==
  ASSUME NEW m \in Nat
  PROVE  ST!ChunkSize(m) \in Nat /\ MaxIov * ST!ChunkSize(m) >= m
<1>1. MaxIov \in Nat \ {0}
  BY ToolsAssumption
<1>2. PICK d \in Nat, e \in Nat : d = m \div MaxIov /\ e = m % MaxIov
  BY <1>1
<1>3. m = MaxIov * d + e /\ e < MaxIov
  BY <1>1, <1>2
<1>4. MaxIov * 1 >= e /\ MaxIov * (d + 1) = MaxIov * d + MaxIov
  BY <1>1, <1>2, <1>3
<1>5. CASE d = 0
  BY <1>1, <1>2, <1>3, <1>4, <1>5 DEF ST!ChunkSize
<1>6. CASE d # 0 /\ e # 0
  <2>1. ST!ChunkSize(m) = d + 1
    BY <1>2, <1>6 DEF ST!ChunkSize
  <2> QED
    BY <1>1, <1>2, <1>3, <1>4, <2>1
<1>7. CASE d # 0 /\ e = 0
  <2>1. ST!ChunkSize(m) = d
    BY <1>2, <1>7 DEF ST!ChunkSize
  <2> QED
    BY <1>1, <1>2, <1>3, <1>7, <2>1
<1> QED
  BY <1>5, <1>6, <1>7

LEMMA PartOpIs ==
  /\ PartOp \in [PartStates \X Nat -> PartStates]
  /\ \A m \in Nat : PartBase(m) \in PartStates
  /\ \A r \in PartStates, c \in Nat : PartOp[<<r, c>>] = ST!AddPart(r, c)
<1>1. ASSUME NEW r \in PartStates, NEW c \in Nat PROVE ST!AddPart(r, c) \in PartStates
  <2>1. /\ r.ptr \in Nat /\ r.left \in Nat /\ r.size \in Nat /\ r.iov \in Seq([base : Nat, len : Nat])
        /\ r.done \in BOOLEAN
        /\ r = [ptr |-> r.ptr, left |-> r.left, size |-> r.size, iov |-> r.iov, done |-> r.done]
    BY DEF PartStates
  <2>2. CASE r.done
    BY <2>2 DEF ST!AddPart
  <2>3. CASE ~r.done
    <3>1. PICK n : n = IF r.left >= r.size THEN r.size ELSE r.left
      OBVIOUS
    <3>2. n \in Nat /\ r.left - n \in Nat /\ r.ptr + n \in Nat
      BY <2>1, <3>1
    <3>3. [base |-> r.ptr, len |-> n] \in [base : Nat, len : Nat]
      BY <2>1, <3>2
    <3>4. Append(r.iov, [base |-> r.ptr, len |-> n]) \in Seq([base : Nat, len : Nat])
      BY <2>1, <3>3, AppendProperties
    <3>5. ST!AddPart(r, c) = [r EXCEPT !.ptr = @ + n, !.left = @ - n, !.done = r.left = n,
                                       !.iov = Append(@, [base |-> r.ptr, len |-> n])]
      BY <2>3, <3>1, Zenon DEF ST!AddPart
    <3>6. ST!AddPart(r, c) = [ptr |-> r.ptr + n, left |-> r.left - n, size |-> r.size,
                              iov |-> Append(r.iov, [base |-> r.ptr, len |-> n]),
                              done |-> r.left = n]
      BY <2>1, <3>5
    <3> QED
      BY <2>1, <3>2, <3>4, <3>6 DEF PartStates
  <2> QED
    BY <2>2, <2>3
<1>2. \A r \in PartStates, c \in Nat : PartOp[<<r, c>>] = ST!AddPart(r, c)
  BY DEF PartOp
<1>3. \A m \in Nat : PartBase(m) \in PartStates
  BY EmptySeq, ChunkIsEnough DEF PartStates, PartBase
<1>4. \A x \in PartStates \X Nat : ST!AddPart(x[1], x[2]) \in PartStates
  BY <1>1
<1>5. PartOp \in [PartStates \X Nat -> PartStates]
  BY <1>4, Zenon DEF PartOp
<1> QED
  BY <1>2, <1>3, <1>5

\* What the loop leaves is a fold of PartOp.
LEMMA PartsFold ==
  ASSUME NEW m \in Nat
  PROVE  \E f : Iterates(PartOp, PartBase(m), Rounds, MaxIov, f) /\ ST!Parts(m) = f[1 .. MaxIov]
<1> DEFINE n == MaxIov
           s == Rounds
           Rule(g) == [T \in SUBSET (1 .. n) |->
                         IF T = {} THEN PartBase(m)
                         ELSE ST!AddPart(g[T \ {ST!Max(T)}], s[ST!Max(T)])]
           g == CHOOSE g : g = Rule(g)
<1>1. n \in Nat /\ DOMAIN s = 1 .. n /\ \A k \in 1 .. n : s[k] \in Nat
  BY ToolsAssumption DEF Rounds
<1>13. PartBase(m) \in PartStates
  BY PartOpIs
<1>2. ST!Parts(m) = g[1 .. n]
  <2>1. DOMAIN s = 1 .. n
    BY <1>1
  <2> HIDE DEF n
  <2> QED
    BY <2>1, Zenon DEF ST!Parts, ST!FoldLeft, ST!MapThenFoldSet, PartBase, Rounds
<1>3. PICK f : Iterates(PartOp, PartBase(m), s, n, f)
  BY <1>1, IteratesExists
<1>4. \A T \in SUBSET (1 .. n) : f[T] \in PartStates
  <2> HIDE DEF n
  <2> QED
    BY <1>1, <1>3, <1>13, PartOpIs, IteratesType
<1>5. ASSUME NEW T \in SUBSET (1 .. n)
      PROVE  f[T] = IF T = {} THEN PartBase(m)
                    ELSE ST!AddPart(f[T \ {ST!Max(T)}], s[ST!Max(T)])
  <2>1. f[T] = IF T = {} THEN PartBase(m) ELSE PartOp[<<f[T \ {ST!Max(T)}], s[ST!Max(T)]>>]
    BY <1>3, Zenon DEF Iterates
  <2>2. CASE T # {}
    <3>1. T \ {ST!Max(T)} \in SUBSET (1 .. n) /\ ST!Max(T) \in 1 .. n
      BY <1>1, <2>2, MaxIs
    <3>2. f[T \ {ST!Max(T)}] \in PartStates /\ s[ST!Max(T)] \in Nat
      BY <1>1, <1>4, <3>1
    <3> QED
      BY <2>1, <3>2, PartOpIs, Zenon
  <2> QED
    BY <2>1, <2>2
<1>6. f = Rule(f)
  <2>1. f = [T \in SUBSET (1 .. n) |-> f[T]]
    BY <1>3, Zenon DEF Iterates
  <2> QED
    BY <1>5, <2>1, Zenon
<1>7. g = Rule(g)
  <2> HIDE DEF Rule
  <2> QED
    BY <1>6, Zenon
<1>8. ASSUME NEW T \in SUBSET (1 .. n)
      PROVE  g[T] = IF T = {} THEN PartBase(m)
                    ELSE ST!AddPart(g[T \ {ST!Max(T)}], s[ST!Max(T)])
  <2> HIDE DEF g
  <2> QED
    BY <1>7, Zenon
<1> HIDE DEF Rule, g, n, s
<1>9. ASSUME NEW T \in SUBSET (1 .. n), T # {}, g[T \ {ST!Max(T)}] \in PartStates
      PROVE  g[T] = PartOp[<<g[T \ {ST!Max(T)}], s[ST!Max(T)]>>]
  <2>1. s[ST!Max(T)] \in Nat
    BY <1>1, <1>9, MaxIs
  <2> QED
    BY <1>8, <1>9, <2>1, PartOpIs, Zenon
<1>10. g[{}] = PartBase(m)
  BY <1>8
<1>11. Follows(PartOp, PartBase(m), PartStates, s, n, g)
  BY <1>9, <1>10, Zenon DEF Follows
<1>12. g[1 .. n] = f[1 .. n]
  <2>1. n \in Nat
    BY <1>1
  <2>2. \A k \in 1 .. n : s[k] \in Nat
    BY <1>1
  <2>3. Typed(PartOp, PartStates, Nat, PartBase(m), s, n)
    BY <1>13, <2>1, <2>2, PartOpIs, Zenon DEF Typed
  <2> QED
    BY <1>3, <1>11, <2>3, IteratesChosen
<1> QED
  BY <1>2, <1>3, <1>12 DEF n, s


\* The rounds, each with what it leaves.
LEMMA PartsRounds ==
  ASSUME NEW m \in Nat
  PROVE  \E f : /\ ST!Parts(m) = f[1 .. MaxIov] /\ f[1 .. 0] = PartBase(m)
                /\ \A k \in 0 .. MaxIov - 1 : f[1 .. k + 1] = ST!AddPart(f[1 .. k], k + 1)
                /\ \A k \in 0 .. MaxIov : f[1 .. k] \in PartStates
<1>1. MaxIov \in Nat
  BY ToolsAssumption
<1>2. PICK f : Iterates(PartOp, PartBase(m), Rounds, MaxIov, f) /\ ST!Parts(m) = f[1 .. MaxIov]
  BY PartsFold
<1>3. Grows(PartOp, PartBase(m), Rounds, MaxIov, f)
  BY <1>1, <1>2, IteratesStep
<1>4. \A k \in 0 .. MaxIov - 1 : f[1 .. k + 1] = PartOp[<<f[1 .. k], k + 1>>]
  <2>1. \A k \in 0 .. MaxIov - 1 : Rounds[k + 1] = k + 1
    BY <1>1 DEF Rounds
  <2> QED
    BY <1>3, <2>1 DEF Grows
<1>5. f[1 .. 0] = PartBase(m)
  BY <1>3 DEF Grows
<1> DEFINE N == {k \in Nat : k <= MaxIov => f[1 .. k] \in PartStates}
<1>6. 0 \in N
  BY <1>5, PartOpIs
<1>7. ASSUME NEW k \in N PROVE k + 1 \in N
  <2> SUFFICES ASSUME k + 1 <= MaxIov PROVE f[1 .. k + 1] \in PartStates
    OBVIOUS
  <2>1. k \in 0 .. MaxIov - 1 /\ f[1 .. k] \in PartStates /\ k + 1 \in Nat
    BY <1>1
  <2>2. f[1 .. k + 1] = PartOp[<<f[1 .. k], k + 1>>]
    BY <1>4, <2>1
  <2>3. <<f[1 .. k], k + 1>> \in PartStates \X Nat
    BY <2>1
  <2> QED
    BY <2>2, <2>3, PartOpIs
<1>8. N = Nat
  <2> HIDE DEF N
  <2> QED
    BY <1>6, <1>7, Induction DEF N
<1>9. \A k \in 0 .. MaxIov : f[1 .. k] \in PartStates
  BY <1>8
<1>10. ASSUME NEW k \in 0 .. MaxIov - 1
       PROVE  f[1 .. k + 1] = ST!AddPart(f[1 .. k], k + 1)
  <2>1. f[1 .. k] \in PartStates /\ k + 1 \in Nat
    BY <1>1, <1>9
  <2> QED
    BY <1>4, <2>1, PartOpIs
<1> QED
  BY <1>2, <1>5, <1>9, <1>10

\* One round that goes on.
LEMMA RoundIs ==
  ASSUME NEW r \in PartStates, NEW k, ~r.done
  PROVE  \E n \in Nat :
           /\ n = (IF r.left >= r.size THEN r.size ELSE r.left)
           /\ ST!AddPart(r, k) = [ptr |-> r.ptr + n, left |-> r.left - n, size |-> r.size,
                                  iov |-> Append(r.iov, [base |-> r.ptr, len |-> n]),
                                  done |-> r.left = n]
<1>1. PICK n : n = IF r.left >= r.size THEN r.size ELSE r.left
  OBVIOUS
<1>2. n \in Nat
  BY <1>1 DEF PartStates
<1>3. ST!AddPart(r, k) = [r EXCEPT !.ptr = @ + n, !.left = @ - n, !.done = r.left = n,
                                   !.iov = Append(@, [base |-> r.ptr, len |-> n])]
  BY <1>1, Zenon DEF ST!AddPart
<1>4. r = [ptr |-> r.ptr, left |-> r.left, size |-> r.size, iov |-> r.iov, done |-> r.done]
  BY DEF PartStates
<1>5. ST!AddPart(r, k) = [ptr |-> r.ptr + n, left |-> r.left - n, size |-> r.size,
                          iov |-> Append(r.iov, [base |-> r.ptr, len |-> n]),
                          done |-> r.left = n]
  BY <1>3, <1>4
<1> QED
  BY <1>1, <1>2, <1>5

LEMMA Times ==
  ASSUME NEW a \in Nat, NEW k \in Nat
  PROVE  (k + 1) * a = k * a + a
OBVIOUS

\* write.c: UIO_MAXIOV rounds are enough.
LEMMA PartsAreEnough ==
  ASSUME NEW m \in Nat
  PROVE  /\ ST!Parts(m) \in PartStates
         /\ ST!Parts(m).done /\ ST!Parts(m).ptr = m /\ ST!Parts(m).left = 0
<1>1. MaxIov \in Nat /\ MaxIov # 0
  BY ToolsAssumption
<1>2. PICK f : /\ ST!Parts(m) = f[1 .. MaxIov] /\ f[1 .. 0] = PartBase(m)
               /\ \A k \in 0 .. MaxIov - 1 : f[1 .. k + 1] = ST!AddPart(f[1 .. k], k + 1)
               /\ \A k \in 0 .. MaxIov : f[1 .. k] \in PartStates
  BY PartsRounds
<1>3. PICK size \in Nat : size = ST!ChunkSize(m) /\ MaxIov * size >= m
  BY ChunkIsEnough
<1> DEFINE R(k, r) == /\ r.size = size /\ r.ptr + r.left = m
                      /\ r.done => r.left = 0
                      /\ ~r.done => r.ptr = k * size /\ (k = 0 \/ r.left > 0)
           N == {k \in Nat : k <= MaxIov => R(k, f[1 .. k])}
<1>4. 0 \in N
  <2>1. /\ f[1 .. 0].size = size /\ f[1 .. 0].ptr = 0 /\ f[1 .. 0].left = m
        /\ ~f[1 .. 0].done
    BY <1>2, <1>3 DEF PartBase
  <2>2. 0 * size = 0
    OBVIOUS
  <2> QED
    BY <2>1, <2>2
<1>5. ASSUME NEW k \in N PROVE k + 1 \in N
  <2> SUFFICES ASSUME k + 1 <= MaxIov PROVE R(k + 1, f[1 .. k + 1])
    OBVIOUS
  <2>1. k \in 0 .. MaxIov - 1 /\ k \in Nat /\ k \in 0 .. MaxIov /\ R(k, f[1 .. k])
    BY <1>1
  <2> HIDE DEF N
  <2>2. PICK r \in PartStates : r = f[1 .. k] /\ f[1 .. k + 1] = ST!AddPart(r, k + 1)
    BY <1>2, <2>1
  <2>3. CASE r.done
    <3>1. f[1 .. k + 1] = r
      BY <2>2, <2>3 DEF ST!AddPart
    <3> QED
      BY <2>1, <2>2, <2>3, <3>1
  <2>4. CASE ~r.done
    <3>1. PICK n \in Nat :
            /\ n = (IF r.left >= r.size THEN r.size ELSE r.left)
            /\ ST!AddPart(r, k + 1) = [ptr |-> r.ptr + n, left |-> r.left - n, size |-> r.size,
                                       iov |-> Append(r.iov, [base |-> r.ptr, len |-> n]),
                                       done |-> r.left = n]
      BY <2>4, RoundIs
    <3>2. PICK v : v = f[1 .. k + 1]
      OBVIOUS
    <3>3. v.ptr = r.ptr + n /\ v.left = r.left - n /\ v.size = r.size /\ v.done = (r.left = n)
      BY <2>2, <3>1, <3>2
    <3>4. PICK p \in Nat, l \in Nat : p = r.ptr /\ l = r.left /\ r.size = size
      BY <2>1, <2>2 DEF PartStates
    <3>5. p + l = m /\ p = k * size /\ (k + 1) * size = k * size + size
      BY <2>1, <2>2, <2>4, <3>4, Times
    <3>6. n = IF l >= size THEN size ELSE l
      BY <3>1, <3>4
    <3>7. /\ (p + n) + (l - n) = m
          /\ l = n => l - n = 0
          /\ l # n => p + n = (k + 1) * size /\ l - n > 0
      BY <3>5, <3>6
    <3>8. R(k + 1, v)
      BY <3>3, <3>4, <3>7
    <3> QED
      BY <3>2, <3>8
  <2> QED
    BY <2>3, <2>4
<1>6. N = Nat
  <2> HIDE DEF N
  <2> QED
    BY <1>4, <1>5, Induction DEF N
<1>7. R(MaxIov, f[1 .. MaxIov]) /\ f[1 .. MaxIov] \in PartStates
  BY <1>1, <1>2, <1>6
<1>8. PICK r \in PartStates : r = ST!Parts(m) /\ R(MaxIov, r)
  BY <1>2, <1>7
<1>9. r.left \in Nat /\ r.ptr \in Nat
  BY DEF PartStates
<1>10. r.done
  BY <1>1, <1>3, <1>8, <1>9
<1> QED
  BY <1>8, <1>9, <1>10

\* write.c: the pieces are the whole buffer, in order.
LEMMA PiecesAre ==
  ASSUME NEW S, NEW data \in Seq(ST!Bytes)
  PROVE  /\ ST!Pieces(S, data) \in Seq(Seq(ST!Bytes)) /\ ST!Pieces(S, data) # <<>>
         /\ ST!FlattenSeq(ST!Pieces(S, data)) = data
<1>1. CASE "k" \notin S \/ "V" \in S
  <2>1. ST!Pieces(S, data) = <<data>>
    BY <1>1 DEF ST!Pieces
  <2>2. <<data>> \in Seq(Seq(ST!Bytes)) /\ <<data>> # <<>>
    OBVIOUS
  <2> QED
    BY <2>1, <2>2, FlattenOne
<1>2. CASE "k" \in S /\ "V" \notin S
  <2> DEFINE m == Len(data)
             Part == {x \in [base : Nat, len : Nat] : x.base + x.len <= m}
             G == [x \in Part |-> SubSeq(data, x.base + 1, x.base + x.len)]
  <2>1. m \in Nat /\ MaxIov \in Nat /\ MaxIov # 0 /\ SubSeq(data, 1, 0) = <<>> /\ SubSeq(data, 1, m) = data
    BY LenProperties, ToolsAssumption
  <2>2. PICK f : /\ ST!Parts(m) = f[1 .. MaxIov] /\ f[1 .. 0] = PartBase(m)
                 /\ \A k \in 0 .. MaxIov - 1 : f[1 .. k + 1] = ST!AddPart(f[1 .. k], k + 1)
                 /\ \A k \in 0 .. MaxIov : f[1 .. k] \in PartStates
    BY <2>1, PartsRounds
  <2>3. G \in [Part -> Seq(ST!Bytes)]
    <3> SUFFICES ASSUME NEW x \in Part
                 PROVE  SubSeq(data, x.base + 1, x.base + x.len) \in Seq(ST!Bytes)
      OBVIOUS
    <3>1. PICK a \in Nat, b \in Nat : a = x.base /\ b = x.len /\ a + b <= m
      OBVIOUS
    <3>2. a + 1 \in Nat \ {0} /\ a + b \in Nat /\ a + b <= Len(data)
      BY <2>1, <3>1
    <3>3. SubSeq(data, a + 1, a + b) \in Seq(ST!Bytes)
      BY <2>1, <3>2
    <3> QED
      BY <3>1, <3>3
  <2> HIDE DEF G
  <2> DEFINE R(k, r) == /\ r.ptr + r.left = m
                        /\ Spread(G, r.iov) = SubSeq(data, 1, r.ptr)
                        /\ r.iov \in Seq(Part)
                        /\ k # 0 => r.iov # <<>>
             N == {k \in Nat : k <= MaxIov => R(k, f[1 .. k])}
  <2>4. 0 \in N
    <3>1. /\ f[1 .. 0].ptr = 0 /\ f[1 .. 0].left = m /\ f[1 .. 0].iov = <<>>
      BY <2>2 DEF PartBase
    <3>2. Spread(G, <<>>) = <<>>
      BY SpreadEmpty
    <3>3. PICK v : v = f[1 .. 0]
      OBVIOUS
    <3>4. v.ptr = 0 /\ v.left = m /\ v.iov = <<>>
      BY <3>1, <3>3
    <3>5. v.ptr + v.left = m
      BY <2>1, <3>4
    <3>6. Spread(G, v.iov) = SubSeq(data, 1, v.ptr)
      BY <2>1, <3>2, <3>4, Zenon
    <3>7. v.iov \in Seq(Part)
      BY <3>4
    <3>8. R(0, v)
      BY <3>5, <3>6, <3>7, Zenon
    <3> QED
      BY <3>3, <3>8, Zenon
  <2>5. ASSUME NEW k \in N PROVE k + 1 \in N
    <3> SUFFICES ASSUME k + 1 <= MaxIov PROVE R(k + 1, f[1 .. k + 1])
      OBVIOUS
    <3>1. k \in 0 .. MaxIov - 1 /\ k \in Nat /\ k \in 0 .. MaxIov /\ R(k, f[1 .. k])
      BY <2>1
    <3> HIDE DEF N
    <3>2. PICK r \in PartStates : r = f[1 .. k] /\ f[1 .. k + 1] = ST!AddPart(r, k + 1)
      BY <2>2, <3>1
    <3>3. CASE r.done
      <4>1. f[1 .. k + 1] = r
        BY <3>2, <3>3 DEF ST!AddPart
      <4>2. R(k, r)
        BY <3>1, <3>2, Zenon
      <4>3. k = 0 => ~r.done
        BY <2>2, <3>2 DEF PartBase
      <4>4. R(k + 1, r)
        BY <3>3, <4>2, <4>3, Zenon
      <4> QED
        BY <4>1, <4>4, Zenon
    <3>4. CASE ~r.done
      <4>1. PICK n \in Nat :
              /\ n = (IF r.left >= r.size THEN r.size ELSE r.left)
              /\ ST!AddPart(r, k + 1) = [ptr |-> r.ptr + n, left |-> r.left - n, size |-> r.size,
                                         iov |-> Append(r.iov, [base |-> r.ptr, len |-> n]),
                                         done |-> r.left = n]
        BY <3>4, RoundIs
      <4>2. PICK v : v = f[1 .. k + 1]
        OBVIOUS
      <4> DEFINE e == [base |-> r.ptr, len |-> n]
      <4>3. v.ptr = r.ptr + n /\ v.left = r.left - n /\ v.iov = Append(r.iov, e)
        BY <3>2, <4>1, <4>2
      <4>4. PICK p \in Nat, l \in Nat : p = r.ptr /\ l = r.left
        BY DEF PartStates
      <4>5. p + l = m /\ n <= l
        BY <3>1, <3>2, <4>1, <4>4 DEF PartStates
      <4>6. r.iov \in Seq(Part) /\ e \in Part
        <5>1. r.iov \in Seq(Part)
          <6> HIDE DEF Part
          <6> QED
            BY <3>1, <3>2
        <5>2. e \in Part
          BY <2>1, <4>1, <4>4, <4>5
        <5> QED
          BY <5>1, <5>2
      <4>7. Append(r.iov, e) \in Seq(Part) /\ Append(r.iov, e) # <<>>
        <5>1. PICK s \in Seq(Part), y \in Part : s = r.iov /\ y = e
          <6> HIDE DEF Part, e
          <6> QED
            BY <4>6
        <5> HIDE DEF Part, e
        <5>2. Append(s, y) \in Seq(Part) /\ Append(s, y) # <<>>
          BY AppendProperties
        <5> QED
          BY <5>1, <5>2
      <4>8. Spread(G, Append(r.iov, e)) = Spread(G, r.iov) \o G[e]
        <5> HIDE DEF Part, e
        <5> QED
          BY <2>3, <4>6, SpreadAppend
      <4>9. G[e] = SubSeq(data, p + 1, p + n)
        BY <4>4, <4>6 DEF G
      <4>10. SubSeq(data, 1, p) \o SubSeq(data, p + 1, p + n) = SubSeq(data, 1, p + n)
        BY <2>1, <4>5
      <4>11. (p + n) + (l - n) = m
        BY <2>1, <4>5
      <4>12. Spread(G, v.iov) = SubSeq(data, 1, p + n)
        BY <3>1, <3>2, <4>3, <4>4, <4>8, <4>9, <4>10
      <4>13. R(k + 1, v)
        <5> HIDE DEF e
        <5> QED
          BY <4>3, <4>4, <4>7, <4>11, <4>12
      <4> QED
        BY <4>2, <4>13
    <3> QED
      BY <3>3, <3>4
  <2>6. N = Nat
    <3> HIDE DEF N
    <3> QED
      BY <2>4, <2>5, Induction DEF N
  <2>7. R(MaxIov, ST!Parts(m))
    <3>1. MaxIov \in N
      BY <2>1, <2>6
    <3>2. R(MaxIov, f[1 .. MaxIov])
      <4> HIDE DEF R
      <4> QED
        BY <2>1, <3>1
    <3> QED
      BY <2>2, <3>2
  <2>8. ST!Parts(m) \in PartStates /\ ST!Parts(m).ptr = m
    BY <2>1, PartsAreEnough
  <2>9. PICK iov \in Seq(Part) : iov = ST!Parts(m).iov /\ Spread(G, iov) = data /\ iov # <<>>
    BY <2>1, <2>7, <2>8 DEF PartStates
  <2>10. DOMAIN iov = 1 .. Len(iov) /\ \A j \in 1 .. Len(iov) : iov[j] \in Part
    BY LenProperties, ElementOfSeq
  <2>11. ST!Pieces(S, data) = [j \in DOMAIN iov |-> SubSeq(data, iov[j].base + 1,
                                                          iov[j].base + iov[j].len)]
    BY <1>2, <2>9, Zenon DEF ST!Pieces
  <2>12. \A j \in DOMAIN iov : SubSeq(data, iov[j].base + 1, iov[j].base + iov[j].len) = G[iov[j]]
    BY <2>10 DEF G
  <2>13. ST!Pieces(S, data) = [j \in DOMAIN iov |-> G[iov[j]]]
    BY <2>11, <2>12, Zenon
  <2>14. [j \in DOMAIN iov |-> G[iov[j]]] \in Seq(Seq(ST!Bytes))
    <3> HIDE DEF Part
    <3> QED
      BY <2>3, <2>9, SpreadParts
  <2>15. ST!FlattenSeq(ST!Pieces(S, data)) = data
    BY <2>9, <2>13, Zenon DEF Spread
  <2>16. ST!Pieces(S, data) # <<>>
    <3>1. 1 \in DOMAIN iov
      BY <2>9, <2>10, EmptySeq
    <3>2. DOMAIN ST!Pieces(S, data) = DOMAIN iov
      BY <2>13
    <3> QED
      BY <3>1, <3>2
  <2> QED
    BY <2>13, <2>14, <2>15, <2>16
<1> QED
  BY <1>1, <1>2

-----------------------------------------------------------------------------
(* sock over TCP: what holds between the two processes                       *)

StOuts   == [peek : BOOLEAN, chunk : Seq(ST!Bytes), shown : Seq(ST!Bytes)]
StPlaces == {"select", "stdin", "write", "recv", "again", "source", "close", "exit"}
StCauses == {"none", "eof", "stdin", "done", "crlf", "error"}

StTypes ==
  /\ st_opts \in [ST!Sides -> SUBSET ST!Letters]
  /\ st_pc \in [ST!Sides -> StPlaces]
  /\ st_ready \in [ST!Sides -> SUBSET {"stdin", "sock"}]
  /\ st_input \in [ST!Sides -> Seq(ST!Bytes)]
  /\ st_typed \in [ST!Sides -> Seq(ST!Bytes)]
  /\ st_wrote \in [ST!Sides -> Seq(ST!Bytes)]
  /\ st_towrite \in [ST!Sides -> Seq(Seq(ST!Bytes))]
  /\ st_i \in Nat
  /\ st_net \in [ST!Sides -> Seq(StAll)]
  /\ st_fin \in [ST!Sides -> BOOLEAN]
  /\ st_reset \in [ST!Sides -> {"no", "pending", "told"}]
  /\ st_out \in [ST!Sides -> Seq(StOuts)]
  /\ st_cause \in [ST!Sides -> StCauses]

Begins(t, c) == Len(c) <= Len(t) /\ \A k \in 1 .. Len(c) : t[k] = c[k]

\* The chunks that were read, not only looked at, in one.
Whole(o, f) == ST!FlattenSeq([k \in DOMAIN o |-> IF o[k].peek THEN <<>> ELSE o[k][f]])

\* What was read and what is on its way begin what was written, and are all of it
\* unless the reader is gone or was told of a reset.
StCopied(w, o, s, r, place) ==
  /\ Begins(w, Whole(o, "chunk") \o ST!Data(s))
  /\ r = "no" /\ place # "exit" => w = Whole(o, "chunk") \o ST!Data(s)

\* What was written and what has still to be are what was typed.
StPending(S, place, pieces, w, t) ==
  /\ place \notin {"write", "exit"} => pieces = <<>>
  /\ place = "write" => pieces # <<>>
  /\ place # "exit" /\ "i" \notin S =>
       w \o ST!FlattenSeq(pieces) = (IF "c" \in S THEN ST!Added(t) ELSE t)

\* A chunk that was looked at last is still there in front.
StPeeks(o, place, s) ==
  /\ \A k \in DOMAIN o : o[k].peek /\ k < Len(o) =>
       ~o[k + 1].peek /\ Begins(o[k + 1].chunk, o[k].chunk)
  /\ o # <<>> /\ o[Len(o)].peek => place \in {"again", "close", "exit"}
  /\ place = "again" =>
       /\ o # <<>> /\ o[Len(o)].peek /\ o[Len(o)].chunk # <<>>
       /\ Len(o[Len(o)].chunk) <= ReadLen /\ Begins(s, o[Len(o)].chunk)

StShownIs(S, o) ==
  Whole(o, "shown") = IF "c" \in S THEN ST!Stripped(Whole(o, "chunk")) ELSE Whole(o, "chunk")

StEof(why, f, place, o, w) ==
  why = "eof" => f /\ place \in {"close", "exit"} /\ w = Whole(o, "chunk")

StFin(f, place)    == f => place \notin {"stdin", "write", "source"}
StGone(r, place)   == r # "no" => place = "exit"
StFixed(S, place)  == ("i" \in S => "c" \notin S) /\ (place = "source" => "i" \in S)
StOne(s)           == \A j, k \in 1 .. Len(s) : s[j] = "oob" /\ s[k] = "oob" => j = k
StMarks(s, n)      == (n <= 2 => s \in Seq(ST!Bytes)) /\ StOne(s)

StPair(p, q) ==
  /\ StCopied(st_wrote[q], st_out[p], st_net[q], st_reset[p], st_pc[p])
  /\ StPending(st_opts[p], st_pc[p], st_towrite[p], st_wrote[p], st_typed[p])
  /\ StPeeks(st_out[p], st_pc[p], st_net[q])
  /\ StShownIs(st_opts[p], st_out[p])
  /\ StEof(st_cause[p], st_fin[q], st_pc[p], st_out[p], st_wrote[q])
  /\ StFin(st_fin[p], st_pc[p])
  /\ StGone(st_reset[p], st_pc[q])
  /\ StFixed(st_opts[p], st_pc[p])
  /\ StMarks(st_net[p], st_i)

StInv == StTypes /\ \A p \in ST!Sides : StPair(p, ST!Peer(p))

LEMMA WholeIs ==
  ASSUME NEW o \in Seq(StOuts)
  PROVE  /\ Whole(<<>>, "chunk") = <<>> /\ Whole(<<>>, "shown") = <<>>
         /\ Whole(o, "chunk") \in Seq(ST!Bytes) /\ Whole(o, "shown") \in Seq(ST!Bytes)
         /\ \A e \in StOuts :
              /\ Whole(Append(o, e), "chunk") =
                   Whole(o, "chunk") \o (IF e.peek THEN <<>> ELSE e.chunk)
              /\ Whole(Append(o, e), "shown") =
                   Whole(o, "shown") \o (IF e.peek THEN <<>> ELSE e.shown)
<1> DEFINE C == [x \in StOuts |-> IF x.peek THEN <<>> ELSE x.chunk]
           H == [x \in StOuts |-> IF x.peek THEN <<>> ELSE x.shown]
<1>1. C \in [StOuts -> Seq(ST!Bytes)] /\ H \in [StOuts -> Seq(ST!Bytes)]
  BY EmptySeq DEF StOuts
<1>2. ASSUME NEW s \in Seq(StOuts)
      PROVE  Whole(s, "chunk") = Spread(C, s) /\ Whole(s, "shown") = Spread(H, s)
  <2>1. \A k \in DOMAIN s : s[k] \in StOuts
    BY LenProperties, ElementOfSeq
  <2>2. \A k \in DOMAIN s : C[s[k]] = (IF s[k].peek THEN <<>> ELSE s[k]["chunk"])
    BY <2>1
  <2>3. \A k \in DOMAIN s : H[s[k]] = (IF s[k].peek THEN <<>> ELSE s[k]["shown"])
    BY <2>1
  <2> HIDE DEF C, H
  <2> QED
    BY <2>2, <2>3, Zenon DEF Whole, Spread
<1>3. ASSUME NEW e \in StOuts
      PROVE  /\ Append(o, e) \in Seq(StOuts)
             /\ C[e] = (IF e.peek THEN <<>> ELSE e.chunk)
             /\ H[e] = (IF e.peek THEN <<>> ELSE e.shown)
  BY AppendProperties
<1> HIDE DEF C, H
<1>4. /\ Spread(C, o) \in Seq(ST!Bytes) /\ Spread(H, o) \in Seq(ST!Bytes)
      /\ Spread(C, <<>>) = <<>> /\ Spread(H, <<>>) = <<>> /\ <<>> \in Seq(StOuts)
  BY <1>1, SpreadType, SpreadEmpty, EmptySeq
<1>5. ASSUME NEW e \in StOuts
      PROVE  /\ Spread(C, Append(o, e)) = Spread(C, o) \o C[e]
             /\ Spread(H, Append(o, e)) = Spread(H, o) \o H[e]
  BY <1>1, SpreadAppend
<1> QED
  BY <1>2, <1>3, <1>4, <1>5, Zenon

LEMMA BeginsIs ==
  ASSUME NEW S, NEW t \in Seq(S), NEW c \in Seq(S), NEW x \in Seq(S)
  PROVE  /\ Begins(c \o x, c) /\ Begins(t, t)
         /\ Begins(t, c \o x) => Begins(t, c)
         /\ Begins(t, c) => Begins(t \o x, c) /\ ST!IsPrefix(c, t)
<1>1. /\ Len(c \o x) = Len(c) + Len(x) /\ Len(c) \in Nat /\ Len(x) \in Nat /\ Len(t) \in Nat
      /\ \A k \in 1 .. Len(c) : (c \o x)[k] = c[k]
      /\ Len(t \o x) = Len(t) + Len(x)
      /\ \A k \in 1 .. Len(t) : (t \o x)[k] = t[k]
  BY ConcatProperties, LenProperties
<1>2. Begins(c \o x, c) /\ Begins(t, t)
  BY <1>1 DEF Begins
<1>3. Begins(t, c \o x) => Begins(t, c)
  BY <1>1 DEF Begins
<1>4. ASSUME Begins(t, c) PROVE Begins(t \o x, c)
  BY <1>1, <1>4 DEF Begins
<1>5. ASSUME Begins(t, c) PROVE ST!IsPrefix(c, t)
  <2>1. Len(c) <= Len(t) /\ \A k \in 1 .. Len(c) : t[k] = c[k]
    BY <1>5 DEF Begins
  <2>2. /\ SubSeq(c, 1, Len(c)) \in Seq(S) /\ Len(SubSeq(c, 1, Len(c))) = Len(c)
        /\ \A k \in 1 .. Len(c) : SubSeq(c, 1, Len(c))[k] = c[k]
    BY <1>1
  <2>3. /\ SubSeq(t, 1, Len(c)) \in Seq(S) /\ Len(SubSeq(t, 1, Len(c))) = Len(c)
        /\ \A k \in 1 .. Len(c) : SubSeq(t, 1, Len(c))[k] = t[k]
    BY <1>1, <2>1
  <2>4. SubSeq(c, 1, Len(c)) = SubSeq(t, 1, Len(c))
    BY <2>1, <2>2, <2>3, SeqEqual
  <2> QED
    BY <2>1, <2>4 DEF ST!IsPrefix
<1> QED
  BY <1>2, <1>3, <1>4, <1>5

LEMMA Halves ==
  ASSUME NEW S, NEW s \in Seq(S), NEW n \in 0 .. Len(s)
  PROVE  /\ SubSeq(s, 1, n) \in Seq(S) /\ SubSeq(s, n + 1, Len(s)) \in Seq(S)
         /\ Len(SubSeq(s, 1, n)) = n /\ Len(SubSeq(s, n + 1, Len(s))) = Len(s) - n
         /\ \A k \in 1 .. n : SubSeq(s, 1, n)[k] = s[k]
         /\ \A k \in 1 .. Len(s) - n : SubSeq(s, n + 1, Len(s))[k] = s[n + k]
         /\ SubSeq(s, 1, n) \o SubSeq(s, n + 1, Len(s)) = s
<1>1. Len(s) \in Nat /\ n \in Nat /\ n <= Len(s)
  OBVIOUS
<1>2. /\ SubSeq(s, 1, n) \in Seq(S) /\ Len(SubSeq(s, 1, n)) = n
      /\ \A k \in 1 .. n : SubSeq(s, 1, n)[k] = s[k]
  BY <1>1
<1>3. /\ SubSeq(s, n + 1, Len(s)) \in Seq(S) /\ Len(SubSeq(s, n + 1, Len(s))) = Len(s) - n
      /\ \A k \in 1 .. Len(s) - n : SubSeq(s, n + 1, Len(s))[k] = s[n + k]
  BY <1>1
<1>4. SubSeq(s, 1, n) \o SubSeq(s, n + 1, Len(s)) = s
  <2> DEFINE a == SubSeq(s, 1, n)
             b == SubSeq(s, n + 1, Len(s))
  <2>1. /\ a \o b \in Seq(S) /\ Len(a \o b) = Len(s)
        /\ \A k \in 1 .. Len(s) : (a \o b)[k] = IF k <= n THEN a[k] ELSE b[k - n]
    <3> HIDE DEF a, b
    <3>1. a \in Seq(S) /\ b \in Seq(S) /\ Len(a) = n /\ Len(b) = Len(s) - n
      BY <1>2, <1>3 DEF a, b
    <3> QED
      BY <1>1, <3>1, ConcatProperties
  <2>2. \A k \in 1 .. Len(s) : (a \o b)[k] = s[k]
    <3> HIDE DEF a, b
    <3> SUFFICES ASSUME NEW k \in 1 .. Len(s) PROVE (a \o b)[k] = s[k]
      OBVIOUS
    <3>1. CASE k <= n
      <4>1. a[k] = s[k]
        BY <1>1, <1>2, <3>1 DEF a
      <4> QED
        BY <2>1, <3>1, <4>1
    <3>2. CASE ~(k <= n)
      <4>1. k - n \in 1 .. Len(s) - n /\ n + (k - n) = k
        BY <1>1, <3>2
      <4>2. b[k - n] = s[k]
        BY <1>3, <4>1 DEF b
      <4> QED
        BY <2>1, <3>2, <4>2
    <3> QED
      BY <3>1, <3>2
  <2> HIDE DEF a, b
  <2>3. a \o b = s
    BY <2>1, <2>2, SeqEqual
  <2> QED
    BY <2>3 DEF a, b
<1> QED
  BY <1>2, <1>3, <1>4

Splits(S, s, n, a, b) ==
  /\ a \in Seq(S) /\ b \in Seq(S) /\ a \o b = s /\ Len(a) = n /\ Len(b) = Len(s) - n
  /\ \A k \in 1 .. n : a[k] = s[k]
  /\ \A k \in 1 .. Len(s) - n : b[k] = s[n + k]

LEMMA SplitsIs ==
  ASSUME NEW S, NEW s \in Seq(S), NEW n \in 0 .. Len(s)
  PROVE  Splits(S, s, n, SubSeq(s, 1, n), SubSeq(s, n + 1, Len(s)))
BY Halves DEF Splits

LEMMA Associative ==
  ASSUME NEW S
  PROVE  \A x, y, z \in Seq(S) : x \o (y \o z) = (x \o y) \o z
BY ConcatAssociative

\* The least of some naturals.
LEMMA Least ==
  ASSUME NEW S \in SUBSET Nat, S # {}
  PROVE  \E k \in S : \A l \in S : k <= l
<1>1. \E n \in S : \A m \in S : <<m, n>> \notin OpToRel(<, Nat)
  BY NatLessThanWellFounded, WFMin, Zenon
<1>2. PICK n \in S : \A m \in S : ~(m < n)
  BY <1>1, Zenon DEF OpToRel
<1> QED
  BY <1>2

\* recv's chunk: as long as it can be, and without a mark.
LEMMA UptoIs ==
  ASSUME NEW s \in Seq(StAll)
  PROVE  \E n \in 0 .. Len(s) :
           /\ ST!Upto(s) = SubSeq(s, 1, n) /\ n <= ReadLen /\ ST!Upto(s) \in Seq(ST!Bytes)
           /\ n = 0 /\ s # <<>> => s[1] = "oob"
           /\ \A m \in 0 .. Len(s) :
                m <= ReadLen /\ (\A k \in 1 .. m : s[k] # "oob") => m <= n
<1> DEFINE marks == {k \in DOMAIN s : s[k] = "oob"}
           last == IF marks = {} THEN Len(s)
                   ELSE (CHOOSE k \in marks : \A l \in marks : k <= l) - 1
           n == IF last < ReadLen THEN last ELSE ReadLen
<1>1. /\ Len(s) \in Nat /\ DOMAIN s = 1 .. Len(s) /\ \A k \in 1 .. Len(s) : s[k] \in StAll
      /\ ReadLen \in Nat /\ ReadLen # 0
  BY LenProperties, ElementOfSeq, ToolsAssumption
<1>2. ST!Upto(s) = SubSeq(s, 1, n)
  BY DEF ST!Upto
<1>3. last \in 0 .. Len(s) /\ \A k \in 1 .. last : s[k] # "oob"
  <2>1. CASE marks = {}
    BY <1>1, <2>1
  <2>2. CASE marks # {}
    <3>1. marks \in SUBSET Nat /\ marks \in SUBSET (1 .. Len(s))
      BY <1>1
    <3>2. \E k \in marks : \A l \in marks : k <= l
      BY <2>2, <3>1, Least, Zenon
    <3>3. PICK k \in marks : k - 1 = last /\ \A l \in marks : k <= l
      BY <2>2, <3>2
    <3> QED
      BY <1>1, <3>1, <3>3
  <2> QED
    BY <2>1, <2>2
<1>4. last < Len(s) => s[last + 1] = "oob"
  <2>1. CASE marks = {}
    BY <1>1, <2>1
  <2>2. CASE marks # {}
    <3>1. marks \in SUBSET Nat /\ marks \in SUBSET (1 .. Len(s))
      BY <1>1
    <3>2. \E k \in marks : \A l \in marks : k <= l
      BY <2>2, <3>1, Least, Zenon
    <3>3. PICK k \in marks : k - 1 = last
      BY <2>2, <3>2
    <3>4. (k - 1) + 1 = k /\ s[k] = "oob"
      BY <3>1, <3>3
    <3> HIDE DEF last, marks
    <3> QED
      BY <3>3, <3>4
  <2> QED
    BY <2>1, <2>2
<1> HIDE DEF last
<1>5. n \in 0 .. Len(s) /\ n <= ReadLen /\ n <= last /\ n \in Nat
  BY <1>1, <1>3
<1>6. SubSeq(s, 1, n) \in Seq(ST!Bytes)
  <2>1. /\ Len(SubSeq(s, 1, n)) = n /\ \A k \in 1 .. n : SubSeq(s, 1, n)[k] = s[k]
        /\ SubSeq(s, 1, n) \in Seq(StAll)
    BY <1>5, Halves
  <2>2. \A k \in 1 .. n : s[k] \in ST!Bytes
    BY <1>1, <1>3, <1>5 DEF StAll
  <2>3. SubSeq(s, 1, n) \in [1 .. n -> ST!Bytes]
    <3> HIDE DEF n
    <3>1. PICK v \in Seq(StAll) : v = SubSeq(s, 1, n)
      BY <2>1
    <3>2. v = [k \in 1 .. n |-> v[k]]
      BY <2>1, <3>1, LenProperties
    <3> QED
      BY <2>1, <2>2, <3>1, <3>2
  <2>4. PICK m \in Nat : m = n
    BY <1>5
  <2>5. PICK v : v = SubSeq(s, 1, n)
    OBVIOUS
  <2> HIDE DEF n
  <2>6. v \in [1 .. m -> ST!Bytes]
    BY <2>3, <2>4, <2>5
  <2>7. v \in Seq(ST!Bytes)
    BY <2>6
  <2> QED
    BY <2>5, <2>7
<1>7. n = 0 /\ s # <<>> => s[1] = "oob"
  <2>1. s # <<>> => Len(s) # 0
    BY EmptySeq
  <2> QED
    BY <1>1, <1>3, <1>4, <2>1
<1>8. ASSUME NEW m \in 0 .. Len(s), m <= ReadLen, \A k \in 1 .. m : s[k] # "oob"
      PROVE  m <= n
  <2>1. last < Len(s) => m <= last
    <3> SUFFICES ASSUME last < Len(s), last < m PROVE FALSE
      BY <1>1, <1>3
    <3>1. last + 1 \in 1 .. m
      BY <1>1, <1>3
    <3> QED
      BY <1>4, <1>8, <3>1
  <2> QED
    BY <1>1, <1>3, <1>8, <2>1
<1> HIDE DEF n
<1> QED
  BY <1>2, <1>5, <1>6, <1>7, <1>8

LEMMA NoMark ==
  ASSUME NEW s \in Seq(ST!Bytes)
  PROVE  s \in Seq(StAll) /\ \A k \in 1 .. Len(s) : s[k] # "oob" /\ s[k] \in ST!Bytes
<1>1. ST!Bytes \subseteq StAll /\ "oob" \notin ST!Bytes
  BY DEF StAll, ST!Bytes
<1>2. \A k \in 1 .. Len(s) : s[k] \in ST!Bytes
  BY ElementOfSeq
<1>3. s \in Seq(StAll)
  BY DataIs
<1> QED
  BY <1>1, <1>2, <1>3

LEMMA OneMarkKept ==
  ASSUME NEW s \in Seq(StAll), StOne(s), NEW n \in 0 .. Len(s)
  PROVE  StOne(SubSeq(s, 1, n)) /\ StOne(SubSeq(s, n + 1, Len(s)))
<1>1. Len(s) \in Nat /\ n \in Nat /\ n <= Len(s)
  OBVIOUS
<1>2. StOne(SubSeq(s, 1, n))
  <2>1. PICK u : u = SubSeq(s, 1, n)
    OBVIOUS
  <2>2. Len(u) = n /\ \A k \in 1 .. n : u[k] = s[k]
    BY <2>1, Halves
  <2>3. StOne(u)
    BY <1>1, <2>2 DEF StOne
  <2> QED
    BY <2>1, <2>3
<1>3. StOne(SubSeq(s, n + 1, Len(s)))
  <2>1. PICK u : u = SubSeq(s, n + 1, Len(s))
    OBVIOUS
  <2>2. Len(u) = Len(s) - n /\ \A k \in 1 .. Len(s) - n : u[k] = s[n + k]
    BY <2>1, Halves
  <2>3. ASSUME NEW j \in 1 .. Len(u), NEW k \in 1 .. Len(u), u[j] = "oob", u[k] = "oob"
        PROVE  j = k
    <3>1. n + j \in 1 .. Len(s) /\ n + k \in 1 .. Len(s)
      BY <1>1, <2>2
    <3>2. n + j = n + k
      BY <2>2, <2>3, <3>1 DEF StOne
    <3> QED
      BY <1>1, <3>2
  <2>4. StOne(u)
    BY <2>3 DEF StOne
  <2> QED
    BY <2>1, <2>4
<1> QED
  BY <1>2, <1>3

LEMMA OneMarkJoined ==
  ASSUME NEW s \in Seq(StAll), StOne(s), NEW t \in Seq(StAll), StOne(t),
         s \in Seq(ST!Bytes) \/ t \in Seq(ST!Bytes)
  PROVE  StOne(s \o t)
<1>1. /\ Len(s \o t) = Len(s) + Len(t) /\ Len(s) \in Nat /\ Len(t) \in Nat
      /\ \A k \in 1 .. Len(s) + Len(t) : (s \o t)[k] = IF k <= Len(s) THEN s[k] ELSE t[k - Len(s)]
  BY ConcatProperties, LenProperties
<1>2. PICK m \in Nat, n \in Nat : m = Len(s) /\ n = Len(t)
  BY <1>1
<1>3. PICK u : u = s \o t
  OBVIOUS
<1>4. ASSUME NEW j \in 1 .. m + n, NEW k \in 1 .. m + n, u[j] = "oob", u[k] = "oob"
      PROVE  j = k
  <2>1. CASE s \in Seq(ST!Bytes)
    <3>1. \A l \in 1 .. m : u[l] # "oob"
      BY <1>1, <1>2, <1>3, <2>1, NoMark
    <3>2. j - m \in 1 .. n /\ k - m \in 1 .. n
      BY <1>4, <3>1
    <3>3. t[j - m] = "oob" /\ t[k - m] = "oob"
      BY <1>1, <1>2, <1>3, <1>4, <3>2
    <3>4. j - m = k - m
      BY <1>2, <3>2, <3>3 DEF StOne
    <3> QED
      BY <3>4
  <2>2. CASE t \in Seq(ST!Bytes)
    <3>1. \A l \in 1 .. n : t[l] # "oob"
      BY <1>2, <2>2, NoMark
    <3>2. \A l \in 1 .. m + n : ~(l <= m) => l - m \in 1 .. n
      OBVIOUS
    <3>3. j \in 1 .. m /\ k \in 1 .. m
      BY <1>1, <1>2, <1>3, <1>4, <3>1, <3>2
    <3>4. s[j] = "oob" /\ s[k] = "oob"
      BY <1>1, <1>2, <1>3, <1>4, <3>3
    <3> QED
      BY <1>2, <3>3, <3>4 DEF StOne
  <2> QED
    BY <2>1, <2>2
<1>5. StOne(u)
  BY <1>1, <1>2, <1>3, <1>4 DEF StOne
<1> QED
  BY <1>3, <1>5

LEMMA NoMarkIsOne == \A s \in Seq(ST!Bytes) : StOne(s)
BY NoMark DEF StOne

\* The mark in front is skipped.
LEMMA UnmarkedIs ==
  ASSUME NEW s \in Seq(StAll), StOne(s)
  PROVE  /\ ST!Unmarked(s) \in Seq(StAll) /\ StOne(ST!Unmarked(s))
         /\ ST!Data(ST!Unmarked(s)) = ST!Data(s)
         /\ s # <<>> /\ s[1] # "oob" => ST!Unmarked(s) = s
         /\ s \in Seq(ST!Bytes) => ST!Unmarked(s) = s
         /\ ST!Unmarked(s) # <<>> => ST!Unmarked(s)[1] # "oob"
<1>1. CASE s # <<>> /\ s[1] = "oob"
  <2>1. Len(s) \in Nat /\ Len(s) # 0 /\ Head(s) = s[1]
    BY <1>1, EmptySeq
  <2>2. 1 \in 0 .. Len(s)
    BY <2>1
  <2>3. ST!Unmarked(s) = Tail(s)
    BY <1>1, <2>1 DEF ST!Unmarked
  <2>4. PICK u \in Seq(StAll) : u = Tail(s) /\ s = <<s[1]>> \o u
    <3>1. Tail(s) \in Seq(StAll) /\ Head(s) \in StAll /\ s = <<Head(s)>> \o Tail(s)
      BY <1>1, HeadTailProperties, ConcatProperties, SeqEqual
    <3>2. s = <<s[1]>> \o Tail(s)
      BY <2>1, <3>1, Zenon
    <3> QED
      BY <3>1, <3>2, Zenon
  <2>5. Len(u) = Len(s) - 1 /\ \A k \in 1 .. Len(u) : u[k] = s[k + 1]
    BY <2>1, <2>4
  <2>6. \A k \in 1 .. Len(u) : u[k] # "oob"
    <3> SUFFICES ASSUME NEW k \in 1 .. Len(u), u[k] = "oob" PROVE FALSE
      OBVIOUS
    <3>1. k + 1 \in 1 .. Len(s) /\ 1 \in 1 .. Len(s) /\ s[k + 1] = "oob"
      BY <2>1, <2>5
    <3>2. k + 1 = 1
      BY <1>1, <3>1 DEF StOne
    <3> QED
      BY <3>2
  <2>7. StOne(u)
    BY <2>6 DEF StOne
  <2>8. ST!Data(s) = ST!Data(u)
    <3>1. <<"oob">> \in Seq(StAll) /\ ST!Data(<<"oob">>) = <<>> /\ ST!Data(u) \in Seq(ST!Bytes)
      BY DataIs DEF StAll
    <3>3. s = <<"oob">> \o u
      BY <1>1, <2>4, Zenon
    <3>4. \A a, b \in Seq(StAll) : ST!Data(a \o b) = ST!Data(a) \o ST!Data(b)
      BY DataIs
    <3>2. ST!Data(s) = ST!Data(<<"oob">>) \o ST!Data(u)
      BY <3>1, <3>3, <3>4, Zenon
    <3> QED
      BY <3>1, <3>2, ConcatEmptySeq
  <2>9. s \notin Seq(ST!Bytes)
    BY <1>1, <2>1, NoMark
  <2>10. u # <<>> => u[1] # "oob"
    <3>1. u # <<>> => 1 \in 1 .. Len(u)
      BY EmptySeq, LenProperties
    <3> QED
      BY <2>6, <3>1
  <2> QED
    BY <1>1, <2>3, <2>4, <2>7, <2>8, <2>9, <2>10, Zenon
<1>2. CASE ~(s # <<>> /\ s[1] = "oob")
  <2>1. ST!Unmarked(s) = s
    <3>1. s # <<>> => Head(s) = s[1]
      OBVIOUS
    <3> QED
      BY <1>2, <3>1 DEF ST!Unmarked
  <2> QED
    BY <1>2, <2>1
<1> QED
  BY <1>1, <1>2

-----------------------------------------------------------------------------
(* sock over TCP: what each step does to it                                  *)

LEMMA StPeers ==
  ASSUME NEW p \in ST!Sides
  PROVE  /\ ST!Peer(p) \in ST!Sides /\ ST!Peer(p) # p /\ ST!Peer(ST!Peer(p)) = p
         /\ \A x \in ST!Sides : x = p \/ x = ST!Peer(p)
BY DEF ST!Sides, ST!Peer

LEMMA StBoth ==
  ASSUME NEW p \in ST!Sides, NEW q, q = ST!Peer(p)
  PROVE  /\ StInv => StTypes /\ StPair(p, q) /\ StPair(q, p)
         /\ StTypes' /\ StPair(p, q)' /\ StPair(q, p)' => StInv'
<1>1. /\ q \in ST!Sides /\ ST!Peer(q) = p
      /\ \A x \in ST!Sides : x = p \/ x = q
  BY StPeers
<1>2. ASSUME StInv PROVE StTypes /\ StPair(p, q) /\ StPair(q, p)
  BY <1>1, <1>2 DEF StInv
<1>3. ASSUME StTypes', StPair(p, q)', StPair(q, p)' PROVE StInv'
  <2>1. \A x \in ST!Sides : StPair(x, ST!Peer(x))'
    BY <1>1, <1>3
  <2> QED
    BY <1>3, <2>1 DEF StInv
<1> QED
  BY <1>2, <1>3

\* The values of one side.
LEMMA StValues ==
  ASSUME StTypes, NEW p \in ST!Sides
  PROVE  /\ st_opts[p] \in SUBSET ST!Letters /\ st_pc[p] \in StPlaces
         /\ st_input[p] \in Seq(ST!Bytes) /\ st_typed[p] \in Seq(ST!Bytes)
         /\ st_wrote[p] \in Seq(ST!Bytes) /\ st_towrite[p] \in Seq(Seq(ST!Bytes))
         /\ st_net[p] \in Seq(StAll) /\ st_fin[p] \in BOOLEAN
         /\ st_reset[p] \in {"no", "pending", "told"}
         /\ st_out[p] \in Seq(StOuts) /\ st_cause[p] \in StCauses
BY DEF StTypes

\* The end of a process.
LEMMA StExits ==
  ASSUME StInv, NEW p \in ST!Sides, NEW why \in StCauses, ST!Exit(p, why),
         why = "eof" => st_cause[p] = "eof",
         st_opts' = st_opts, st_out' = st_out, st_wrote' = st_wrote, st_towrite' = st_towrite,
         st_typed' \in [ST!Sides -> Seq(ST!Bytes)],
         \A x \in ST!Sides : x # p => st_typed'[x] = st_typed[x],
         st_i' \in Nat, st_i' >= st_i,
         st_ready' \in [ST!Sides -> SUBSET {"stdin", "sock"}],
         st_input' \in [ST!Sides -> Seq(ST!Bytes)]
  PROVE  StInv'
<1>1. PICK q \in ST!Sides : q = ST!Peer(p) /\ q # p
  BY StPeers
<1>2. StTypes /\ StPair(p, q) /\ StPair(q, p)
  BY <1>1, StBoth
<1> DEFINE unread == ST!Data(st_net[q]) # <<>>
<1>3. PICK n : /\ n \in (IF unread THEN ST!Arrived(p) .. Len(st_net[p]) ELSE {Len(st_net[p])})
               /\ st_net' = [st_net EXCEPT ![p] = SubSeq(@, 1, n), ![q] = <<>>]
  BY <1>1, Zenon DEF ST!Exit
<1>4. /\ st_pc' = [st_pc EXCEPT ![p] = "exit"] /\ st_cause' = [st_cause EXCEPT ![p] = why]
      /\ st_fin' = [st_fin EXCEPT ![p] = TRUE]
      /\ st_reset' = [st_reset EXCEPT ![q] = IF unread /\ @ = "no" THEN "pending" ELSE @]
  BY <1>1, Zenon DEF ST!Exit, ST!Go
<1>5. /\ st_out[p] \in Seq(StOuts) /\ st_out[q] \in Seq(StOuts)
      /\ st_wrote[p] \in Seq(ST!Bytes) /\ st_wrote[q] \in Seq(ST!Bytes)
      /\ st_net[p] \in Seq(StAll) /\ st_net[q] \in Seq(StAll)
  BY <1>1, <1>2, StValues
<1>6. n \in 0 .. Len(st_net[p])
      /\ (st_pc[q] = "again" => n >= Len(st_out[q][Len(st_out[q])].chunk))
      /\ (~unread => n = Len(st_net[p]))
  <2>1. Len(st_net[p]) \in Nat
    BY <1>5
  <2>2. CASE st_pc[q] = "again"
    <3>1. st_out[q] # <<>> /\ Begins(st_net[p], st_out[q][Len(st_out[q])].chunk)
      BY <1>2, <2>2 DEF StPair, StPeeks
    <3>2. st_out[q][Len(st_out[q])] \in StOuts
      <4>1. Len(st_out[q]) \in 1 .. Len(st_out[q])
        BY <1>5, <3>1, EmptySeq, LenProperties
      <4> QED
        BY <1>5, <4>1, ElementOfSeq
    <3>3. /\ Len(st_out[q][Len(st_out[q])].chunk) <= Len(st_net[p])
          /\ Len(st_out[q][Len(st_out[q])].chunk) \in Nat
      BY <3>1, <3>2 DEF Begins, StOuts
    <3>4. ST!Arrived(p) = Len(st_out[q][Len(st_out[q])].chunk)
      BY <1>1, <2>2 DEF ST!Arrived
    <3> QED
      BY <1>3, <2>1, <3>3, <3>4
  <2>3. CASE st_pc[q] # "again"
    <3>1. ST!Arrived(p) = 0
      BY <1>1, <2>3 DEF ST!Arrived
    <3> QED
      BY <1>3, <2>1, <2>3, <3>1
  <2> QED
    BY <2>2, <2>3
<1> DEFINE a == SubSeq(st_net[p], 1, n)
           b == SubSeq(st_net[p], n + 1, Len(st_net[p]))
<1>7. /\ a \in Seq(StAll) /\ b \in Seq(StAll) /\ a \o b = st_net[p] /\ Len(a) = n
      /\ \A k \in 1 .. n : a[k] = st_net[p][k]
  <2>1. n \in 0 .. Len(st_net[p])
    BY <1>6
  <2>2. PICK s \in Seq(StAll) : s = st_net[p] /\ n \in 0 .. Len(s)
    BY <1>5, <2>1
  <2>3. Splits(StAll, s, n, a, b)
    BY <2>2, SplitsIs
  <2> HIDE DEF a, b
  <2> QED
    BY <2>2, <2>3 DEF Splits
<1>8. /\ st_pc'[p] = "exit" /\ st_pc'[q] = st_pc[q]
      /\ st_cause'[p] = why /\ st_cause'[q] = st_cause[q]
      /\ st_fin'[p] = TRUE /\ st_fin'[q] = st_fin[q]
      /\ st_reset'[p] = st_reset[p]
      /\ st_reset'[q] = (IF unread /\ st_reset[q] = "no" THEN "pending" ELSE st_reset[q])
      /\ st_net'[p] = a /\ st_net'[q] = <<>> /\ st_typed'[q] = st_typed[q]
  BY <1>1, <1>2, <1>3, <1>4 DEF StTypes
<1>9. StTypes'
  <2>1. st_net' \in [ST!Sides -> Seq(StAll)]
    <3>1. <<>> \in Seq(StAll)
      BY EmptySeq
    <3> QED
      BY <1>2, <1>3, <1>7, <3>1 DEF StTypes
  <2> QED
    BY <1>2, <1>4, <2>1 DEF StTypes, StPlaces
<1> HIDE DEF unread, a, b
<1>10. /\ Whole(st_out[p], "chunk") \in Seq(ST!Bytes) /\ Whole(st_out[q], "chunk") \in Seq(ST!Bytes)
       /\ ST!Data(st_net[q]) \in Seq(ST!Bytes) /\ ST!Data(<<>>) = <<>>
       /\ ST!Data(a) \in Seq(ST!Bytes) /\ ST!Data(b) \in Seq(ST!Bytes)
       /\ ST!Data(st_net[p]) = ST!Data(a) \o ST!Data(b)
  <2>1. /\ \A s \in Seq(StAll) : ST!Data(s) \in Seq(ST!Bytes)
        /\ \A s, t \in Seq(StAll) : ST!Data(s \o t) = ST!Data(s) \o ST!Data(t)
        /\ ST!Data(<<>>) = <<>>
    BY DataIs
  <2>2. ST!Data(st_net[p]) = ST!Data(a) \o ST!Data(b)
    BY <1>7, <2>1, Zenon
  <2> QED
    BY <1>5, <1>7, <2>1, <2>2, WholeIs
<1>11. StPair(p, q)'
  <2>1. StCopied(st_wrote[q], st_out[p], <<>>, st_reset[p], "exit")
    <3>1. Begins(st_wrote[q], Whole(st_out[p], "chunk") \o ST!Data(st_net[q]))
      BY <1>2 DEF StPair, StCopied
    <3>2. Begins(st_wrote[q], Whole(st_out[p], "chunk"))
      BY <1>5, <1>10, <3>1, BeginsIs
    <3>3. Whole(st_out[p], "chunk") \o <<>> = Whole(st_out[p], "chunk")
      BY <1>10, ConcatEmptySeq
    <3> QED
      BY <1>10, <3>2, <3>3, Zenon DEF StCopied
  <2>2. StPending(st_opts[p], "exit", st_towrite[p], st_wrote[p], st_typed'[p])
    BY DEF StPending
  <2>3. StPeeks(st_out[p], "exit", <<>>)
    BY <1>2 DEF StPair, StPeeks
  <2>4. StEof(why, st_fin[q], "exit", st_out[p], st_wrote[q])
    BY <1>2 DEF StPair, StEof
  <2>5. StFin(TRUE, "exit") /\ StGone(st_reset[p], st_pc[q]) /\ StFixed(st_opts[p], "exit")
        /\ StShownIs(st_opts[p], st_out[p])
    BY <1>2 DEF StPair, StFin, StFixed
  <2>6. StMarks(a, st_i')
    <3>1. StOne(st_net[p]) /\ (st_i <= 2 => st_net[p] \in Seq(ST!Bytes))
      BY <1>2 DEF StPair, StMarks
    <3>2. StOne(a)
      BY <1>5, <1>6, <3>1, OneMarkKept DEF a
    <3>3. st_i' <= 2 => st_i <= 2
      BY <1>2 DEF StTypes
    <3>4. st_i' <= 2 => a \in Seq(ST!Bytes)
      BY <1>6, <3>1, <3>3, Halves DEF a
    <3> QED
      BY <3>2, <3>4 DEF StMarks
  <2> QED
    BY <1>8, <2>1, <2>2, <2>3, <2>4, <2>5, <2>6 DEF StPair
<1>12. StPair(q, p)'
  <2>1. StCopied(st_wrote[p], st_out[q], a, st_reset'[q], st_pc[q])
    <3> DEFINE R == Whole(st_out[q], "chunk")
    <3>1. /\ Begins(st_wrote[p], R \o ST!Data(st_net[p]))
          /\ st_reset[q] = "no" /\ st_pc[q] # "exit" => st_wrote[p] = R \o ST!Data(st_net[p])
      BY <1>2 DEF StPair, StCopied
    <3> HIDE DEF R
    <3>2. R \in Seq(ST!Bytes)
      BY <1>10 DEF R
    <3>3. R \o (ST!Data(a) \o ST!Data(b)) = (R \o ST!Data(a)) \o ST!Data(b)
      <4>1. \A x, y, z \in Seq(ST!Bytes) : x \o (y \o z) = (x \o y) \o z
        BY Associative
      <4> QED
        BY <1>10, <3>2, <4>1, Zenon
    <3>4. R \o ST!Data(a) \in Seq(ST!Bytes)
      BY <1>10, <3>2, ConcatProperties
    <3>5. Begins(st_wrote[p], R \o ST!Data(a))
      BY <1>5, <1>10, <3>1, <3>3, <3>4, BeginsIs
    <3>6. st_reset'[q] = "no" => st_reset[q] = "no" /\ ~unread
      BY <1>8
    <3>7. ~unread => a = st_net[p]
      BY <1>5, <1>6 DEF a
    <3> QED
      BY <3>1, <3>5, <3>6, <3>7, Zenon DEF StCopied, R
  <2>2. StPeeks(st_out[q], st_pc[q], a)
    <3>1. StPeeks(st_out[q], st_pc[q], st_net[p])
      BY <1>2 DEF StPair
    <3>2. st_pc[q] = "again" => Begins(a, st_out[q][Len(st_out[q])].chunk)
      <4> SUFFICES ASSUME st_pc[q] = "again"
                   PROVE  Begins(a, st_out[q][Len(st_out[q])].chunk)
        OBVIOUS
      <4>1. PICK c : c = st_out[q][Len(st_out[q])].chunk
        OBVIOUS
      <4>2. Begins(st_net[p], c) /\ Len(c) <= ReadLen /\ n >= Len(c)
        BY <1>6, <3>1, <4>1 DEF StPeeks
      <4>3. \A k \in 1 .. Len(c) : k \in 1 .. n
        BY <1>6, <4>2
      <4>4. Len(c) <= Len(a)
        BY <1>6, <1>7, <4>2
      <4>5. Begins(a, c)
        BY <1>7, <4>2, <4>3, <4>4 DEF Begins
      <4> QED
        BY <4>1, <4>5
    <3> QED
      BY <3>1, <3>2 DEF StPeeks
  <2>3. StEof(st_cause[q], TRUE, st_pc[q], st_out[q], st_wrote[p])
    BY <1>2 DEF StPair, StEof
  <2>4. /\ StFin(st_fin[q], st_pc[q]) /\ StGone(st_reset'[q], "exit") /\ StFixed(st_opts[q], st_pc[q])
        /\ StShownIs(st_opts[q], st_out[q])
        /\ StPending(st_opts[q], st_pc[q], st_towrite[q], st_wrote[q], st_typed[q])
    BY <1>2 DEF StPair, StGone
  <2>5. StMarks(<<>>, st_i')
    BY EmptySeq, NoMarkIsOne DEF StMarks
  <2> QED
    BY <1>8, <2>1, <2>2, <2>3, <2>4, <2>5 DEF StPair
<1> QED
  BY <1>1, <1>9, <1>11, <1>12, StBoth

\* What was written grows with what is taken.
LEMMA CopiedMore ==
  ASSUME NEW w \in Seq(ST!Bytes), NEW r \in Seq(ST!Bytes), NEW x \in Seq(ST!Bytes),
         NEW d \in Seq(ST!Bytes)
  PROVE  /\ Begins(w, r \o x) => Begins(w \o d, r \o x)
         /\ w = r \o x => w \o d = r \o (x \o d) /\ Begins(w \o d, r \o (x \o d))
<1>1. r \o x \in Seq(ST!Bytes) /\ w \o d \in Seq(ST!Bytes)
  BY ConcatProperties
<1>2. Begins(w, r \o x) => Begins(w \o d, r \o x)
  BY <1>1, BeginsIs
<1>3. r \o (x \o d) = (r \o x) \o d
  <2>1. \A u, v, y \in Seq(ST!Bytes) : u \o (v \o y) = (u \o v) \o y
    BY Associative
  <2> QED
    BY <2>1, Zenon
<1>4. Begins(w \o d, w \o d)
  BY <1>1, BeginsIs
<1> QED
  BY <1>2, <1>3, <1>4

\* A write that is taken.
LEMMA StTakes ==
  ASSUME StInv, NEW p \in ST!Sides, NEW piece \in Seq(StAll), NEW next \in StPlaces,
         st_pc[p] \in {"write", "source"}, ST!Takes(p, piece, next),
         next \in {"write", "recv", "select"} \/ next = st_pc[p],
         st_opts' = st_opts, st_out' = st_out, st_typed' = st_typed, st_input' = st_input,
         st_ready' = st_ready,
         st_towrite' \in [ST!Sides -> Seq(Seq(ST!Bytes))],
         \A x \in ST!Sides : x # p => st_towrite'[x] = st_towrite[x],
         st_i' \in Nat, st_i' >= st_i,
         StPending(st_opts[p], next, st_towrite'[p], st_wrote[p] \o ST!Data(piece), st_typed[p]),
         StMarks(st_net[p], st_i'), StMarks(st_net[p] \o piece, st_i')
  PROVE  StInv'
<1>1. PICK q \in ST!Sides : q = ST!Peer(p) /\ q # p
  BY StPeers
<1>2. StTypes /\ StPair(p, q) /\ StPair(q, p)
  BY <1>1, StBoth
<1>3. /\ st_reset[p] = "no" /\ st_fin' = st_fin /\ st_cause' = st_cause
      /\ st_pc' = [st_pc EXCEPT ![p] = next]
      /\ st_wrote' = [st_wrote EXCEPT ![p] = @ \o ST!Data(piece)]
      /\ st_pc[q] = "exit" => st_reset' = [st_reset EXCEPT ![p] = "pending"] /\ st_net' = st_net
      /\ st_pc[q] # "exit" => st_net' = [st_net EXCEPT ![p] = @ \o piece] /\ st_reset' = st_reset
  BY <1>1, Zenon DEF ST!Takes, ST!Go, ST!Gone
<1>4. /\ st_out[q] \in Seq(StOuts) /\ st_wrote[p] \in Seq(ST!Bytes)
      /\ st_net[p] \in Seq(StAll) /\ st_out[q] \in Seq(StOuts)
  BY <1>1, <1>2, StValues
<1> DEFINE R == Whole(st_out[q], "chunk")
           D == ST!Data(piece)
<1>5. /\ R \in Seq(ST!Bytes) /\ D \in Seq(ST!Bytes) /\ ST!Data(st_net[p]) \in Seq(ST!Bytes)
      /\ ST!Data(st_net[p] \o piece) = ST!Data(st_net[p]) \o D
      /\ st_net[p] \o piece \in Seq(StAll)
  <2>1. /\ \A s \in Seq(StAll) : ST!Data(s) \in Seq(ST!Bytes)
        /\ \A s, t \in Seq(StAll) : ST!Data(s \o t) = ST!Data(s) \o ST!Data(t)
    BY DataIs
  <2>2. st_net[p] \o piece \in Seq(StAll)
    BY <1>4, ConcatProperties
  <2>3. R \in Seq(ST!Bytes)
    BY <1>4, WholeIs
  <2> QED
    BY <1>4, <2>1, <2>2, <2>3, Zenon
<1>6. st_wrote[p] \o D \in Seq(ST!Bytes)
  BY <1>4, <1>5, ConcatProperties
<1>7. /\ st_pc'[p] = next /\ st_pc'[q] = st_pc[q]
      /\ st_wrote'[p] = st_wrote[p] \o D /\ st_wrote'[q] = st_wrote[q]
      /\ st_reset'[q] = st_reset[q] /\ st_net'[q] = st_net[q]
      /\ st_pc[q] = "exit" => st_net'[p] = st_net[p] /\ st_reset'[p] = "pending"
      /\ st_pc[q] # "exit" => st_net'[p] = st_net[p] \o piece /\ st_reset'[p] = "no"
      /\ st_towrite'[q] = st_towrite[q]
  BY <1>1, <1>2, <1>3 DEF StTypes
<1>8. StTypes'
  <2>1. st_net' \in [ST!Sides -> Seq(StAll)]
    BY <1>2, <1>3, <1>5 DEF StTypes
  <2>2. st_wrote' \in [ST!Sides -> Seq(ST!Bytes)]
    BY <1>2, <1>3, <1>6 DEF StTypes
  <2>3. st_reset' \in [ST!Sides -> {"no", "pending", "told"}]
    BY <1>2, <1>3 DEF StTypes
  <2> QED
    BY <1>2, <1>3, <2>1, <2>2, <2>3 DEF StTypes
<1> HIDE DEF D
<1>9. st_fin[p] = FALSE /\ st_reset[q] = "no"
  BY <1>2, StValues DEF StPair, StFin, StGone
<1>10. StPair(p, q)'
  <2>1. StCopied(st_wrote[q], st_out[p], st_net[q], st_reset'[p], next)
    BY <1>2, <1>3 DEF StPair, StCopied
  <2>2. StPeeks(st_out[p], next, st_net[q])
    BY <1>2 DEF StPair, StPeeks
  <2>3. StEof(st_cause[p], st_fin[q], next, st_out[p], st_wrote[q])
    BY <1>2 DEF StPair, StEof
  <2>4. StFin(st_fin[p], next) /\ StShownIs(st_opts[p], st_out[p])
    BY <1>2, <1>9 DEF StPair, StFin
  <2>5. StGone(st_reset'[p], st_pc[q])
    BY <1>7 DEF StGone
  <2>6. StFixed(st_opts[p], next)
    BY <1>2 DEF StPair, StFixed
  <2>7. StMarks(st_net'[p], st_i')
    BY <1>7
  <2> QED
    BY <1>3, <1>7, <2>1, <2>2, <2>3, <2>4, <2>5, <2>6, <2>7 DEF StPair, D
<1>11. StPair(q, p)'
  <2>1. StCopied(st_wrote[p] \o D, st_out[q], st_net'[p], st_reset[q], st_pc[q])
    <3>1. /\ Begins(st_wrote[p], R \o ST!Data(st_net[p]))
          /\ st_pc[q] # "exit" => st_wrote[p] = R \o ST!Data(st_net[p])
      BY <1>2, <1>9 DEF StPair, StCopied
    <3> HIDE DEF R
    <3>2. /\ Begins(st_wrote[p], R \o ST!Data(st_net[p])) =>
               Begins(st_wrote[p] \o D, R \o ST!Data(st_net[p]))
          /\ st_wrote[p] = R \o ST!Data(st_net[p]) =>
               /\ st_wrote[p] \o D = R \o (ST!Data(st_net[p]) \o D)
               /\ Begins(st_wrote[p] \o D, R \o (ST!Data(st_net[p]) \o D))
      BY <1>4, <1>5, CopiedMore
    <3>3. CASE st_pc[q] = "exit"
      BY <1>7, <3>1, <3>2, <3>3, Zenon DEF StCopied, R
    <3>4. CASE st_pc[q] # "exit"
      BY <1>5, <1>7, <3>1, <3>2, <3>4, Zenon DEF StCopied, R
    <3> QED
      BY <3>3, <3>4
  <2>2. StPeeks(st_out[q], st_pc[q], st_net'[p])
    <3>1. StPeeks(st_out[q], st_pc[q], st_net[p])
      BY <1>2 DEF StPair
    <3>2. st_pc[q] = "again" => Begins(st_net'[p], st_out[q][Len(st_out[q])].chunk)
      <4> SUFFICES ASSUME st_pc[q] = "again"
                   PROVE  Begins(st_net'[p], st_out[q][Len(st_out[q])].chunk)
        OBVIOUS
      <4>1. Begins(st_net[p], st_out[q][Len(st_out[q])].chunk) /\ st_out[q] # <<>>
        BY <3>1 DEF StPeeks
      <4>2. PICK c \in Seq(ST!Bytes) : c = st_out[q][Len(st_out[q])].chunk
        <5>1. Len(st_out[q]) \in 1 .. Len(st_out[q])
          BY <1>4, <4>1, EmptySeq, LenProperties
        <5>2. st_out[q][Len(st_out[q])] \in StOuts
          BY <1>4, <5>1, ElementOfSeq
        <5> QED
          BY <5>2 DEF StOuts
      <4>3. c \in Seq(StAll)
        BY DataIs
      <4>4. Begins(st_net[p] \o piece, c)
        BY <1>4, <4>1, <4>2, <4>3, BeginsIs
      <4>5. st_net'[p] = st_net[p] \o piece
        BY <1>7
      <4> QED
        BY <4>2, <4>4, <4>5, Zenon
    <3> QED
      BY <3>1, <3>2 DEF StPeeks
  <2>3. StEof(st_cause[q], st_fin[p], st_pc[q], st_out[q], st_wrote[p] \o D)
    BY <1>2, <1>9 DEF StPair, StEof
  <2>4. /\ StFin(st_fin[q], st_pc[q]) /\ StFixed(st_opts[q], st_pc[q])
        /\ StGone(st_reset[q], next)
        /\ StShownIs(st_opts[q], st_out[q])
        /\ StPending(st_opts[q], st_pc[q], st_towrite[q], st_wrote[q], st_typed[q])
    BY <1>2, <1>9 DEF StPair, StGone
  <2>5. StMarks(st_net[q], st_i')
    BY <1>2 DEF StPair, StMarks, StTypes
  <2> QED
    BY <1>3, <1>7, <2>1, <2>2, <2>3, <2>4, <2>5 DEF StPair
<1> QED
  BY <1>1, <1>8, <1>10, <1>11, StBoth

\* A step that only goes elsewhere.
LEMMA StMoves ==
  ASSUME StInv, NEW p \in ST!Sides, NEW place, NEW f \in BOOLEAN, NEW why \in StCauses,
         st_pc[p] \notin {"write", "exit", "close"},
         place \in {"select", "stdin", "recv", "close"},
         st_pc' = [st_pc EXCEPT ![p] = place],
         st_fin' = [st_fin EXCEPT ![p] = f], st_fin[p] => f, f => place # "stdin",
         st_cause' = [st_cause EXCEPT ![p] = why],
         why = "eof" => /\ place = "close" /\ st_fin[ST!Peer(p)] /\ st_reset[p] = "no"
                        /\ ST!Data(st_net[ST!Peer(p)]) = <<>>,
         st_pc[p] = "again" => place = "close",
         st_opts' = st_opts, st_out' = st_out, st_wrote' = st_wrote, st_net' = st_net,
         st_towrite' = st_towrite, st_typed' = st_typed, st_reset' = st_reset,
         st_input' = st_input, st_i' = st_i,
         st_ready' \in [ST!Sides -> SUBSET {"stdin", "sock"}]
  PROVE  StInv'
<1>1. PICK q \in ST!Sides : q = ST!Peer(p) /\ q # p
  BY StPeers
<1>2. StTypes /\ StPair(p, q) /\ StPair(q, p)
  BY <1>1, StBoth
<1>3. /\ st_pc'[p] = place /\ st_pc'[q] = st_pc[q] /\ st_fin'[p] = f /\ st_fin'[q] = st_fin[q]
      /\ st_cause'[p] = why /\ st_cause'[q] = st_cause[q]
  BY <1>1, <1>2 DEF StTypes
<1>4. StTypes'
  BY <1>2 DEF StTypes, StPlaces
<1>5. StPair(p, q)'
  <2>1. StCopied(st_wrote[q], st_out[p], st_net[q], st_reset[p], place)
    BY <1>2 DEF StPair, StCopied
  <2>2. StPending(st_opts[p], place, st_towrite[p], st_wrote[p], st_typed[p])
    BY <1>2 DEF StPair, StPending
  <2>3. StPeeks(st_out[p], place, st_net[q])
    BY <1>2 DEF StPair, StPeeks
  <2>4. StEof(why, st_fin[q], place, st_out[p], st_wrote[q])
    <3> SUFFICES ASSUME why = "eof"
                 PROVE  st_fin[q] /\ place = "close" /\ st_wrote[q] = Whole(st_out[p], "chunk")
      BY DEF StEof
    <3>1. st_wrote[q] = Whole(st_out[p], "chunk") \o ST!Data(st_net[q])
      BY <1>1, <1>2 DEF StPair, StCopied
    <3>2. Whole(st_out[p], "chunk") \in Seq(ST!Bytes)
      BY <1>2, StValues, WholeIs
    <3>3. Whole(st_out[p], "chunk") \o <<>> = Whole(st_out[p], "chunk")
      BY <3>2, ConcatEmptySeq
    <3> QED
      BY <1>1, <3>1, <3>3
  <2>5. StFin(f, place) /\ StFixed(st_opts[p], place)
    BY <1>2 DEF StPair, StFin, StFixed
  <2> QED
    BY <1>2, <1>3, <2>1, <2>2, <2>3, <2>4, <2>5 DEF StPair
<1>6. StPair(q, p)'
  <2>1. StEof(st_cause[q], f, st_pc[q], st_out[q], st_wrote[p])
    BY <1>2 DEF StPair, StEof
  <2>2. StGone(st_reset[q], place)
    BY <1>2 DEF StPair, StGone
  <2> QED
    BY <1>2, <1>3, <2>1, <2>2 DEF StPair
<1> QED
  BY <1>1, <1>4, <1>5, <1>6, StBoth

\* What stays where it was.
LEMMA StStill ==
  ASSUME StTypes
  PROVE  /\ st_i \in Nat /\ st_i >= st_i
         /\ \A p \in ST!Sides : /\ st_fin = [st_fin EXCEPT ![p] = st_fin[p]]
                                /\ st_cause = [st_cause EXCEPT ![p] = st_cause[p]]
BY DEF StTypes

LEMMA StCloses == ASSUME StInv, NEW p \in ST!Sides, ST!Close(p) PROVE StInv'
<1>1. StTypes /\ st_cause[p] \in StCauses
  BY StValues DEF StInv
<1>2. /\ ST!Exit(p, st_cause[p]) /\ st_opts' = st_opts /\ st_ready' = st_ready
      /\ st_input' = st_input /\ st_towrite' = st_towrite /\ st_i' = st_i /\ st_out' = st_out
      /\ st_typed' = st_typed /\ st_wrote' = st_wrote
  BY Zenon DEF ST!Close, ST!history
<1>3. /\ st_typed' \in [ST!Sides -> Seq(ST!Bytes)] /\ st_input' \in [ST!Sides -> Seq(ST!Bytes)]
      /\ st_ready' \in [ST!Sides -> SUBSET {"stdin", "sock"}]
      /\ st_i' \in Nat /\ st_i' >= st_i
      /\ \A x \in ST!Sides : x # p => st_typed'[x] = st_typed[x]
  BY <1>1, <1>2, StStill DEF StTypes
<1> QED
  BY <1>1, <1>2, <1>3, StExits

LEMMA StSelects == ASSUME StInv, NEW p \in ST!Sides, ST!Select(p) PROVE StInv'
<1>1. StTypes /\ st_cause[p] \in StCauses /\ st_fin[p] \in BOOLEAN
  BY StValues DEF StInv
<1>2. /\ st_pc[p] = "select" /\ st_opts' = st_opts /\ st_input' = st_input
      /\ st_towrite' = st_towrite /\ st_i' = st_i /\ st_net' = st_net /\ st_fin' = st_fin
      /\ st_reset' = st_reset /\ st_out' = st_out /\ st_typed' = st_typed
      /\ st_wrote' = st_wrote /\ st_cause' = st_cause
  BY Zenon DEF ST!Select, ST!history
<1>3. PICK x \in SUBSET {"stdin", "sock"} :
        /\ "stdin" \in x => ~st_fin[p]
        /\ st_ready' = [st_ready EXCEPT ![p] = x]
        /\ ST!Go(p, IF "stdin" \in x THEN "stdin" ELSE "recv")
  BY Zenon DEF ST!Select
<1>4. PICK place : /\ place = IF "stdin" \in x THEN "stdin" ELSE "recv"
                   /\ st_pc' = [st_pc EXCEPT ![p] = place]
  BY <1>3 DEF ST!Go
<1>5. st_cause[p] # "eof"
  BY <1>2 DEF StInv, StPair, StEof
<1>6. /\ st_ready' \in [ST!Sides -> SUBSET {"stdin", "sock"}]
      /\ st_fin' = [st_fin EXCEPT ![p] = st_fin[p]]
      /\ st_cause' = [st_cause EXCEPT ![p] = st_cause[p]]
  BY <1>1, <1>2, <1>3, StStill DEF StTypes
<1>7. place \in {"select", "stdin", "recv", "close"} /\ (st_fin[p] => place # "stdin")
  BY <1>3, <1>4
<1> QED
  BY <1>1, <1>2, <1>4, <1>5, <1>6, <1>7, StMoves

LEMMA StStdinEnds == ASSUME StInv, NEW p \in ST!Sides, ST!StdinEof(p) PROVE StInv'
<1>1. StTypes /\ st_cause[p] \in StCauses /\ st_fin[p] \in BOOLEAN
  BY StValues DEF StInv
<1>2. /\ st_pc[p] = "stdin" /\ st_opts' = st_opts /\ st_input' = st_input
      /\ st_towrite' = st_towrite /\ st_i' = st_i /\ st_net' = st_net
      /\ st_reset' = st_reset /\ st_out' = st_out /\ st_typed' = st_typed
      /\ st_wrote' = st_wrote /\ st_ready' = st_ready
  BY Zenon DEF ST!StdinEof, ST!history
<1>3. \/ /\ st_pc' = [st_pc EXCEPT ![p] = "select"] /\ st_fin' = [st_fin EXCEPT ![p] = TRUE]
         /\ st_cause' = st_cause
      \/ /\ st_pc' = [st_pc EXCEPT ![p] = "close"] /\ st_fin' = st_fin
         /\ st_cause' = [st_cause EXCEPT ![p] = "stdin"]
  BY DEF ST!StdinEof, ST!Go
<1>4. st_cause[p] # "eof"
  BY <1>2 DEF StInv, StPair, StEof
<1>5. /\ st_ready' \in [ST!Sides -> SUBSET {"stdin", "sock"}]
      /\ st_fin = [st_fin EXCEPT ![p] = st_fin[p]]
      /\ st_cause = [st_cause EXCEPT ![p] = st_cause[p]]
      /\ "stdin" \in StCauses /\ TRUE \in BOOLEAN
  BY <1>1, <1>2, StStill DEF StTypes, StCauses
<1>6. \E place \in {"select", "close"}, f \in BOOLEAN, why \in StCauses :
        /\ st_pc' = [st_pc EXCEPT ![p] = place] /\ st_fin' = [st_fin EXCEPT ![p] = f]
        /\ st_cause' = [st_cause EXCEPT ![p] = why] /\ why # "eof" /\ (st_fin[p] => f)
  BY <1>1, <1>3, <1>4, <1>5
<1>7. PICK place \in {"select", "close"}, f \in BOOLEAN, why \in StCauses :
        /\ st_pc' = [st_pc EXCEPT ![p] = place] /\ st_fin' = [st_fin EXCEPT ![p] = f]
        /\ st_cause' = [st_cause EXCEPT ![p] = why] /\ why # "eof" /\ (st_fin[p] => f)
  BY <1>6, Zenon
<1> QED
  BY <1>1, <1>2, <1>5, <1>7, StMoves

LEMMA StSourceEnds == ASSUME StInv, NEW p \in ST!Sides, ST!SourceEnds(p) PROVE StInv'
<1>1. StTypes /\ st_fin[p] \in BOOLEAN /\ "done" \in StCauses
  BY StValues DEF StInv, StCauses
<1>2. /\ st_pc[p] = "source" /\ st_opts' = st_opts /\ st_input' = st_input
      /\ st_towrite' = st_towrite /\ st_i' = st_i /\ st_net' = st_net /\ st_fin' = st_fin
      /\ st_reset' = st_reset /\ st_out' = st_out /\ st_typed' = st_typed
      /\ st_wrote' = st_wrote /\ st_ready' = st_ready
      /\ st_pc' = [st_pc EXCEPT ![p] = "close"] /\ st_cause' = [st_cause EXCEPT ![p] = "done"]
  BY Zenon DEF ST!SourceEnds, ST!history, ST!Go
<1>3. /\ st_ready' \in [ST!Sides -> SUBSET {"stdin", "sock"}]
      /\ st_fin' = [st_fin EXCEPT ![p] = st_fin[p]]
  BY <1>1, <1>2, StStill DEF StTypes
<1> QED
  BY <1>1, <1>2, <1>3, StMoves

\* Nothing left before end of file is all that there was.
LEMMA NothingLeft ==
  ASSUME NEW s \in Seq(StAll), StOne(s), ST!Upto(ST!Unmarked(s)) = <<>>
  PROVE  ST!Data(s) = <<>>
<1>1. PICK u \in Seq(StAll) : u = ST!Unmarked(s)
  BY UnmarkedIs
<1>2. ST!Data(u) = ST!Data(s) /\ (u # <<>> => u[1] # "oob")
  BY <1>1, UnmarkedIs
<1>3. PICK n \in 0 .. Len(u) : ST!Upto(u) = SubSeq(u, 1, n) /\ (n = 0 /\ u # <<>> => u[1] = "oob")
  BY UptoIs
<1>4. Len(SubSeq(u, 1, n)) = n
  BY Halves
<1>5. n = 0
  BY <1>1, <1>3, <1>4, EmptySeq
<1>6. u = <<>>
  BY <1>2, <1>3, <1>5
<1> QED
  BY <1>2, <1>6, DataIs

LEMMA StRecvEnds == ASSUME StInv, NEW p \in ST!Sides, ST!RecvEof(p) PROVE StInv'
<1>1. PICK q \in ST!Sides : q = ST!Peer(p) /\ q # p
  BY StPeers
<1>2. StTypes /\ StPair(p, q) /\ StPair(q, p)
  BY <1>1, StBoth
<1>3. /\ st_pc[p] \in {"recv", "again"} /\ st_opts' = st_opts /\ st_input' = st_input
      /\ st_towrite' = st_towrite /\ st_i' = st_i /\ st_out' = st_out /\ st_typed' = st_typed
      /\ st_wrote' = st_wrote /\ st_ready' = st_ready
      /\ ST!Upto(ST!Unmarked(st_net[q])) = <<>>
  BY <1>1, Zenon DEF ST!RecvEof, ST!history
<1>4. CASE ST!Exit(p, "error")
  <2>1. /\ st_typed' \in [ST!Sides -> Seq(ST!Bytes)] /\ st_input' \in [ST!Sides -> Seq(ST!Bytes)]
        /\ st_ready' \in [ST!Sides -> SUBSET {"stdin", "sock"}]
        /\ st_i' \in Nat /\ st_i' >= st_i
        /\ \A x \in ST!Sides : x # p => st_typed'[x] = st_typed[x]
        /\ "error" \in StCauses
    BY <1>2, <1>3, StStill DEF StTypes, StCauses
  <2> QED
    BY <1>3, <1>4, <2>1, StExits
<1>5. CASE /\ st_reset[p] = "no" /\ st_fin[q] /\ st_pc' = [st_pc EXCEPT ![p] = "close"]
           /\ st_cause' = [st_cause EXCEPT ![p] = "eof"]
           /\ st_net' = st_net /\ st_fin' = st_fin /\ st_reset' = st_reset
  <2>1. st_net[q] \in Seq(StAll) /\ StOne(st_net[q]) /\ st_fin[p] \in BOOLEAN
    BY <1>2, StValues DEF StPair, StMarks
  <2>2. ST!Data(st_net[q]) = <<>>
    BY <1>3, <2>1, NothingLeft
  <2>3. /\ st_ready' \in [ST!Sides -> SUBSET {"stdin", "sock"}]
        /\ st_fin' = [st_fin EXCEPT ![p] = st_fin[p]] /\ "eof" \in StCauses
    BY <1>2, <1>3, <1>5, StStill DEF StTypes, StCauses
  <2> QED
    BY <1>1, <1>3, <1>5, <2>1, <2>2, <2>3, StMoves
<1> QED
  BY <1>1, <1>4, <1>5, Zenon DEF ST!RecvEof, ST!Go

LEMMA BytesJoin ==
  \A x, y, z \in Seq(ST!Bytes) : (x \o y) \o z = x \o (y \o z)
BY Associative

LEMMA StWrites == ASSUME StInv, NEW p \in ST!Sides, ST!Write(p) PROVE StInv'
<1>1. PICK q \in ST!Sides : q = ST!Peer(p) /\ q # p
  BY StPeers
<1>2. StTypes /\ StPair(p, q)
  BY <1>1, StBoth
<1>3. /\ st_pc[p] = "write" /\ st_opts' = st_opts /\ st_input' = st_input
      /\ st_i' = st_i /\ st_out' = st_out /\ st_typed' = st_typed /\ st_ready' = st_ready
  BY Zenon DEF ST!Write
<1>4. /\ st_typed' \in [ST!Sides -> Seq(ST!Bytes)] /\ st_input' \in [ST!Sides -> Seq(ST!Bytes)]
      /\ st_ready' \in [ST!Sides -> SUBSET {"stdin", "sock"}]
      /\ st_i' \in Nat /\ st_i' >= st_i
      /\ \A x \in ST!Sides : x # p => st_typed'[x] = st_typed[x]
      /\ "error" \in StCauses
  BY <1>2, <1>3, StStill DEF StTypes, StCauses
<1>5. CASE ST!Exit(p, "error") /\ UNCHANGED <<st_towrite, st_wrote>>
  <2>1. st_towrite' = st_towrite /\ st_wrote' = st_wrote
    BY <1>5
  <2> QED
    BY <1>3, <1>4, <1>5, <2>1, StExits
<1>6. CASE /\ ST!Takes(p, Head(st_towrite[p]),
                       IF Len(st_towrite[p]) > 1 THEN "write"
                       ELSE IF "sock" \in st_ready[p] THEN "recv" ELSE "select")
           /\ st_towrite' = [st_towrite EXCEPT ![p] = Tail(@)]
  <2>1. PICK ps \in Seq(Seq(ST!Bytes)) : ps = st_towrite[p] /\ ps # <<>>
    BY <1>2, <1>3, StValues DEF StPair, StPending
  <2>2. PICK piece \in Seq(ST!Bytes), rest \in Seq(Seq(ST!Bytes)) :
          /\ piece = Head(ps) /\ rest = Tail(ps)
          /\ ST!FlattenSeq(ps) = piece \o ST!FlattenSeq(rest)
          /\ Len(rest) = Len(ps) - 1
    <3>1. /\ Head(ps) \in Seq(ST!Bytes) /\ Tail(ps) \in Seq(Seq(ST!Bytes))
          /\ Len(Tail(ps)) = Len(ps) - 1
      BY <2>1, HeadTailProperties
    <3>2. ST!FlattenSeq(ps) = Head(ps) \o ST!FlattenSeq(Tail(ps))
      BY <2>1, FlattenHead
    <3> QED
      BY <3>1, <3>2, Zenon
  <2>3. PICK next : /\ next = IF Len(ps) > 1 THEN "write"
                              ELSE IF "sock" \in st_ready[p] THEN "recv" ELSE "select"
    OBVIOUS
  <2>4. /\ ST!Takes(p, piece, next) /\ next \in {"write", "recv", "select"} /\ next \in StPlaces
        /\ st_towrite' = [st_towrite EXCEPT ![p] = rest]
        /\ next = "write" <=> Len(ps) > 1
    BY <1>6, <2>1, <2>2, <2>3 DEF StPlaces
  <2>5. /\ st_towrite' \in [ST!Sides -> Seq(Seq(ST!Bytes))] /\ st_towrite'[p] = rest
        /\ \A x \in ST!Sides : x # p => st_towrite'[x] = st_towrite[x]
    BY <1>2, <2>4 DEF StTypes
  <2>6. piece \in Seq(StAll) /\ ST!Data(piece) = piece /\ StOne(piece)
    BY DataIs, NoMarkIsOne
  <2>7. StPending(st_opts[p], next, rest, st_wrote[p] \o piece, st_typed[p])
    <3>1. /\ Len(ps) \in Nat /\ Len(ps) # 0 /\ Len(rest) \in Nat
          /\ (rest = <<>> <=> Len(rest) = 0)
      BY <2>1, EmptySeq, LenProperties
    <3>2. next # "write" => rest = <<>>
      BY <2>2, <2>4, <3>1
    <3>3. next = "write" => rest # <<>>
      BY <2>2, <2>4, <3>1
    <3>4. PICK t \in Seq(ST!Bytes) : t = ST!FlattenSeq(rest)
      BY FlattenType
    <3>5. (st_wrote[p] \o piece) \o t = st_wrote[p] \o (piece \o t)
      <4>1. st_wrote[p] \in Seq(ST!Bytes)
        BY <1>2, StValues
      <4> QED
        BY <3>4, <4>1, BytesJoin, Zenon
    <3>6. "i" \notin st_opts[p] =>
            st_wrote[p] \o ST!FlattenSeq(ps) =
              (IF "c" \in st_opts[p] THEN ST!Added(st_typed[p]) ELSE st_typed[p])
      BY <1>2, <1>3, <2>1 DEF StPair, StPending
    <3> QED
      BY <2>2, <3>2, <3>3, <3>4, <3>5, <3>6 DEF StPending
  <2>8. StMarks(st_net[p], st_i') /\ StMarks(st_net[p] \o piece, st_i')
    <3>1. st_net[p] \in Seq(StAll) /\ StMarks(st_net[p], st_i')
      BY <1>2, <1>3, StValues DEF StPair
    <3>2. StOne(st_net[p] \o piece)
      BY <2>6, <3>1, OneMarkJoined DEF StMarks
    <3>3. st_net[p] \in Seq(ST!Bytes) => st_net[p] \o piece \in Seq(ST!Bytes)
      BY ConcatProperties
    <3> QED
      BY <3>1, <3>2, <3>3 DEF StMarks
  <2> QED
    BY <1>3, <1>4, <2>4, <2>5, <2>6, <2>7, <2>8, StTakes
<1> QED
  BY <1>5, <1>6, Zenon DEF ST!Write

\* The buffer of source_tcp, with the urgent byte before it.
LEMMA PatternIs ==
  /\ ST!Pattern \in Seq(ST!Bytes) /\ ST!Pattern \in Seq(StAll)
  /\ <<"oob">> \o ST!Pattern \in Seq(StAll) /\ StOne(<<"oob">> \o ST!Pattern)
  /\ StOne(ST!Pattern)
<1>1. ST!Pattern \in Seq(ST!Bytes)
  <2>1. WriteLen \in Nat /\ "x" \in ST!Bytes
    BY ToolsAssumption DEF ST!Bytes
  <2> QED
    BY <2>1 DEF ST!Pattern
<1>2. ST!Pattern \in Seq(StAll) /\ StOne(ST!Pattern)
  BY <1>1, NoMark, NoMarkIsOne
<1>3. <<"oob">> \in Seq(StAll) /\ StOne(<<"oob">>)
  BY DEF StAll, StOne
<1> QED
  BY <1>1, <1>2, <1>3, OneMarkJoined, ConcatProperties

LEMMA StSources == ASSUME StInv, NEW p \in ST!Sides, ST!Source(p) PROVE StInv'
<1>1. PICK q \in ST!Sides : q = ST!Peer(p) /\ q # p
  BY StPeers
<1>2. StTypes /\ StPair(p, q) /\ StPair(q, p)
  BY <1>1, StBoth
<1>3. /\ st_pc[p] = "source" /\ st_opts' = st_opts /\ st_input' = st_input
      /\ st_i' = st_i + 1 /\ st_out' = st_out /\ st_typed' = st_typed /\ st_ready' = st_ready
      /\ st_towrite' = st_towrite
  BY Zenon DEF ST!Source
<1>4. /\ st_typed' \in [ST!Sides -> Seq(ST!Bytes)] /\ st_input' \in [ST!Sides -> Seq(ST!Bytes)]
      /\ st_ready' \in [ST!Sides -> SUBSET {"stdin", "sock"}]
      /\ st_i' \in Nat /\ st_i' >= st_i /\ st_i \in Nat
      /\ \A x \in ST!Sides : x # p => st_typed'[x] = st_typed[x]
      /\ "error" \in StCauses /\ "source" \in StPlaces
      /\ st_towrite' \in [ST!Sides -> Seq(Seq(ST!Bytes))]
      /\ \A x \in ST!Sides : x # p => st_towrite'[x] = st_towrite[x]
  BY <1>2, <1>3 DEF StTypes, StCauses, StPlaces
<1>5. ASSUME ST!Exit(p, "error"), st_wrote' = st_wrote PROVE StInv'
  BY <1>3, <1>4, <1>5, StExits
<1>6. /\ st_net[p] \in Seq(StAll) /\ StOne(st_net[p])
      /\ (st_i <= 2 => st_net[p] \in Seq(ST!Bytes))
  BY <1>2, StValues DEF StPair, StMarks
<1>7. StMarks(st_net[p], st_i')
  <2>1. st_i' <= 2 => st_i <= 2
    BY <1>4
  <2> QED
    BY <1>6, <2>1 DEF StMarks
<1> DEFINE piece == IF ST!Has(p, "U") /\ st_i = 2 THEN <<"oob">> \o ST!Pattern ELSE ST!Pattern
<1>8. CASE ST!Takes(p, piece, "source")
  <2>1. piece \in Seq(StAll) /\ StOne(piece) /\ (st_i' <= 2 => piece \in Seq(ST!Bytes))
        /\ (piece \in Seq(ST!Bytes) \/ st_net[p] \in Seq(ST!Bytes))
    <3>1. CASE ST!Has(p, "U") /\ st_i = 2
      <4>1. piece = <<"oob">> \o ST!Pattern /\ st_net[p] \in Seq(ST!Bytes) /\ ~(st_i' <= 2)
        BY <1>3, <1>6, <3>1
      <4> QED
        BY <4>1, PatternIs, Zenon
    <3>2. CASE ~(ST!Has(p, "U") /\ st_i = 2)
      <4>1. piece = ST!Pattern
        BY <3>2
      <4> QED
        BY <4>1, PatternIs, Zenon
    <3> QED
      BY <3>1, <3>2
  <2>2. PICK v \in Seq(StAll) : v = piece
    BY <2>1
  <2> HIDE DEF piece
  <2>3. StMarks(st_net[p] \o v, st_i')
    <3>1. StOne(st_net[p] \o v)
      BY <1>6, <2>1, <2>2, OneMarkJoined
    <3>2. st_i' <= 2 => st_net[p] \in Seq(ST!Bytes) /\ v \in Seq(ST!Bytes)
      BY <1>3, <1>4, <1>6, <2>1, <2>2
    <3>3. st_i' <= 2 => st_net[p] \o v \in Seq(ST!Bytes)
      BY <3>2, ConcatProperties
    <3> QED
      BY <3>1, <3>3 DEF StMarks
  <2>4. StPending(st_opts[p], "source", st_towrite'[p], st_wrote[p] \o ST!Data(v), st_typed[p])
    BY <1>2, <1>3 DEF StPair, StPending, StFixed
  <2>5. ST!Takes(p, v, "source") /\ st_pc[p] \in {"write", "source"}
    BY <1>3, <1>8, <2>2
  <2>6. "source" = st_pc[p]
    BY <1>3
  <2> QED
    BY <1>3, <1>4, <1>7, <2>2, <2>3, <2>4, <2>5, <2>6, StTakes
<1>9. CASE /\ st_reset[p] = "pending" /\ st_reset' = [st_reset EXCEPT ![p] = "told"]
           /\ st_pc' = st_pc /\ st_net' = st_net /\ st_fin' = st_fin
           /\ st_cause' = st_cause /\ st_wrote' = st_wrote
  <2>1. st_reset'[p] = "told" /\ st_reset'[q] = st_reset[q]
    BY <1>1, <1>2, <1>9 DEF StTypes
  <2>2. StTypes'
    BY <1>2, <1>3, <1>4, <1>9 DEF StTypes
  <2>3. /\ StCopied(st_wrote[q], st_out[p], st_net[q], "told", st_pc[p])
        /\ StGone("told", st_pc[q])
    BY <1>2, <1>9 DEF StPair, StCopied, StGone
  <2>4. StPair(p, q)'
    BY <1>2, <1>3, <1>7, <1>9, <2>1, <2>3 DEF StPair
  <2>5. StMarks(st_net[q], st_i')
    <3>1. st_i' <= 2 => st_i <= 2
      BY <1>3, <1>4
    <3> QED
      BY <1>2, <3>1 DEF StPair, StMarks
  <2>6. StPair(q, p)'
    BY <1>2, <1>3, <1>9, <2>1, <2>5 DEF StPair
  <2> QED
    BY <1>1, <2>2, <2>4, <2>6, StBoth
<1>10. \/ ST!Takes(p, piece, "source")
       \/ ST!Exit(p, "error") /\ st_wrote' = st_wrote
       \/ /\ st_reset[p] = "pending" /\ st_reset' = [st_reset EXCEPT ![p] = "told"]
          /\ st_pc' = st_pc /\ st_net' = st_net /\ st_fin' = st_fin
          /\ st_cause' = st_cause /\ st_wrote' = st_wrote
  <2> HIDE DEF piece
  <2> QED
    BY Zenon DEF ST!Source, piece
<1> QED
  BY <1>5, <1>8, <1>9, <1>10

LEMMA StReadsStdin == ASSUME StInv, NEW p \in ST!Sides, ST!ReadStdin(p) PROVE StInv'
<1>1. PICK q \in ST!Sides : q = ST!Peer(p) /\ q # p
  BY StPeers
<1>2. StTypes /\ StPair(p, q) /\ StPair(q, p)
  BY <1>1, StBoth
<1>3. /\ st_pc[p] = "stdin" /\ st_opts' = st_opts /\ st_ready' = st_ready
      /\ st_i' = st_i /\ st_out' = st_out /\ st_wrote' = st_wrote
  BY Zenon DEF ST!ReadStdin
<1>4. PICK n \in 1 .. ReadLen :
        LET chunk == SubSeq(st_input[p], 1, n)
            data  == IF ST!Has(p, "c") THEN ST!CrlfAdd(chunk) ELSE chunk
        IN  /\ n <= Len(st_input[p])
            /\ st_input' = [st_input EXCEPT ![p] = SubSeq(@, n + 1, Len(@))]
            /\ st_typed' = [st_typed EXCEPT ![p] = @ \o chunk]
            /\ IF data = ST!Refused
               THEN ST!Exit(p, "crlf") /\ UNCHANGED st_towrite
               ELSE /\ ST!Go(p, "write") /\ UNCHANGED <<st_net, st_fin, st_reset, st_cause>>
                    /\ st_towrite' = [st_towrite EXCEPT ![p] = ST!Pieces(st_opts[p], data)]
  BY Zenon DEF ST!ReadStdin
<1>5. /\ st_input[p] \in Seq(ST!Bytes) /\ st_typed[p] \in Seq(ST!Bytes)
      /\ st_wrote[p] \in Seq(ST!Bytes)
  BY <1>2, StValues
<1>6. n \in 0 .. Len(st_input[p])
  <2>1. ReadLen \in Nat /\ Len(st_input[p]) \in Nat
    BY <1>5, ToolsAssumption
  <2>2. n <= Len(st_input[p])
    BY <1>4, Zenon
  <2> QED
    BY <2>1, <2>2
<1>7. PICK chunk \in Seq(ST!Bytes), rest \in Seq(ST!Bytes) :
        chunk = SubSeq(st_input[p], 1, n) /\ rest = SubSeq(st_input[p], n + 1, Len(st_input[p]))
  BY <1>5, <1>6, Halves
<1>8. PICK data : data = IF "c" \in st_opts[p] THEN ST!CrlfAdd(chunk) ELSE chunk
  OBVIOUS
<1>9. /\ st_input' = [st_input EXCEPT ![p] = rest]
      /\ st_typed' = [st_typed EXCEPT ![p] = @ \o chunk]
      /\ data = ST!Refused => ST!Exit(p, "crlf") /\ st_towrite' = st_towrite
      /\ data # ST!Refused =>
           /\ st_pc' = [st_pc EXCEPT ![p] = "write"]
           /\ st_net' = st_net /\ st_fin' = st_fin /\ st_reset' = st_reset
           /\ st_cause' = st_cause
           /\ st_towrite' = [st_towrite EXCEPT ![p] = ST!Pieces(st_opts[p], data)]
  BY <1>4, <1>7, <1>8 DEF ST!Has, ST!Go
<1>10. st_typed[p] \o chunk \in Seq(ST!Bytes)
  BY <1>5, ConcatProperties
<1>11. /\ st_typed' \in [ST!Sides -> Seq(ST!Bytes)] /\ st_input' \in [ST!Sides -> Seq(ST!Bytes)]
       /\ st_ready' \in [ST!Sides -> SUBSET {"stdin", "sock"}]
       /\ st_i' \in Nat /\ st_i' >= st_i
       /\ \A x \in ST!Sides : x # p => st_typed'[x] = st_typed[x]
       /\ st_typed'[p] = st_typed[p] \o chunk
       /\ "crlf" \in StCauses /\ "write" \in StPlaces
  BY <1>2, <1>3, <1>9, <1>10 DEF StTypes, StCauses, StPlaces
<1>12. CASE data = ST!Refused
  BY <1>3, <1>9, <1>11, <1>12, StExits
<1>13. CASE data # ST!Refused
  <2>1. data \in Seq(ST!Bytes) /\ data = IF "c" \in st_opts[p] THEN ST!Added(chunk) ELSE chunk
    <3>1. "c" \in st_opts[p] => ST!CrlfAdd(chunk) = ST!Added(chunk)
      BY <1>8, <1>13, AddIs
    <3>2. ST!Added(chunk) \in Seq(ST!Bytes)
      BY AddedIs
    <3> QED
      BY <1>8, <3>1, <3>2
  <2>2. PICK pieces \in Seq(Seq(ST!Bytes)) :
          /\ pieces = ST!Pieces(st_opts[p], data) /\ pieces # <<>>
          /\ ST!FlattenSeq(pieces) = data
    BY <2>1, PiecesAre
  <2>3. st_towrite' = [st_towrite EXCEPT ![p] = pieces]
    BY <1>9, <1>13, <2>2
  <2>4. /\ st_pc'[p] = "write" /\ st_pc'[q] = st_pc[q] /\ st_towrite'[p] = pieces
        /\ st_towrite'[q] = st_towrite[q] /\ st_typed'[q] = st_typed[q]
    BY <1>1, <1>2, <1>9, <1>11, <1>13, <2>3 DEF StTypes
  <2>5. StTypes'
    <3>1. st_towrite' \in [ST!Sides -> Seq(Seq(ST!Bytes))]
      BY <1>2, <2>2, <2>3 DEF StTypes
    <3>2. st_pc' \in [ST!Sides -> StPlaces]
      <4>1. st_pc' = [st_pc EXCEPT ![p] = "write"]
        BY <1>9, <1>13
      <4> QED
        BY <1>2, <1>11, <4>1 DEF StTypes
    <3> QED
      BY <1>2, <1>3, <1>9, <1>11, <1>13, <3>1, <3>2 DEF StTypes
  <2>6. StPending(st_opts[p], "write", pieces, st_wrote[p], st_typed[p] \o chunk)
    <3>1. ASSUME "i" \notin st_opts[p]
          PROVE  st_wrote[p] \o data =
                   (IF "c" \in st_opts[p] THEN ST!Added(st_typed[p] \o chunk)
                    ELSE st_typed[p] \o chunk)
      <4>1. st_wrote[p] \o ST!FlattenSeq(<<>>) =
              (IF "c" \in st_opts[p] THEN ST!Added(st_typed[p]) ELSE st_typed[p])
        BY <1>2, <1>3, <3>1 DEF StPair, StPending
      <4>2. st_wrote[p] \o <<>> = st_wrote[p]
        BY <1>5, ConcatEmptySeq
      <4>3. ST!Added(st_typed[p] \o chunk) = ST!Added(st_typed[p]) \o ST!Added(chunk)
        BY <1>5, AddedIs
      <4> QED
        BY <2>1, <4>1, <4>2, <4>3, FlattenEmpty
    <3> QED
      BY <2>2, <3>1 DEF StPending
  <2>7. /\ StCopied(st_wrote[q], st_out[p], st_net[q], st_reset[p], "write")
        /\ StPeeks(st_out[p], "write", st_net[q])
        /\ StEof(st_cause[p], st_fin[q], "write", st_out[p], st_wrote[q])
        /\ StFin(st_fin[p], "write") /\ StFixed(st_opts[p], "write")
        /\ StGone(st_reset[q], "write")
    BY <1>2, <1>3 DEF StPair, StCopied, StPeeks, StEof, StFin, StFixed, StGone
  <2>8. StPair(p, q)'
    BY <1>2, <1>3, <1>9, <1>11, <1>13, <2>4, <2>6, <2>7 DEF StPair
  <2>9. StPair(q, p)'
    BY <1>2, <1>3, <1>9, <1>13, <2>4, <2>7 DEF StPair
  <2> QED
    BY <1>1, <2>5, <2>8, <2>9, StBoth
<1> QED
  BY <1>12, <1>13

\* What recv makes of the bytes on their way; a chunk that was looked at before
\* begins the one that is read.
Reads(s, u, c, rest) ==
  /\ c \in Seq(ST!Bytes) /\ u \in Seq(StAll) /\ rest \in Seq(StAll)
  /\ u = ST!Unmarked(s) /\ c = ST!Upto(u) /\ rest = SubSeq(u, Len(c) + 1, Len(u))
  /\ ST!Data(u) = ST!Data(s) /\ ST!Data(s) = c \o ST!Data(rest)
  /\ StOne(u) /\ StOne(rest)
  /\ s \in Seq(ST!Bytes) => u \in Seq(ST!Bytes) /\ rest \in Seq(ST!Bytes)
  /\ Len(c) <= ReadLen /\ Begins(u, c)
  /\ \A b \in Seq(ST!Bytes) :
       b # <<>> /\ Begins(s, b) /\ Len(b) <= ReadLen => Begins(c, b)

LEMMA ReadsIs ==
  ASSUME NEW s \in Seq(StAll), StOne(s)
  PROVE  \E u, c, rest : Reads(s, u, c, rest)
<1>1. PICK u \in Seq(StAll) : u = ST!Unmarked(s)
  BY UnmarkedIs
<1>2. /\ StOne(u) /\ ST!Data(u) = ST!Data(s)
      /\ s # <<>> /\ s[1] # "oob" => u = s
      /\ s \in Seq(ST!Bytes) => u = s
  BY <1>1, UnmarkedIs
<1>3. PICK n \in 0 .. Len(u) :
        /\ ST!Upto(u) = SubSeq(u, 1, n) /\ n <= ReadLen /\ ST!Upto(u) \in Seq(ST!Bytes)
        /\ \A m \in 0 .. Len(u) : m <= ReadLen /\ (\A k \in 1 .. m : u[k] # "oob") => m <= n
  BY UptoIs
<1>4. PICK c, rest : /\ c = SubSeq(u, 1, n) /\ rest = SubSeq(u, n + 1, Len(u))
                     /\ Splits(StAll, u, n, c, rest)
  BY SplitsIs
<1>5. /\ c \in Seq(StAll) /\ rest \in Seq(StAll) /\ c \o rest = u /\ Len(c) = n
      /\ \A k \in 1 .. n : c[k] = u[k]
  BY <1>4 DEF Splits
<1>6. c = ST!Upto(u) /\ c \in Seq(ST!Bytes) /\ rest = SubSeq(u, Len(c) + 1, Len(u))
  BY <1>3, <1>4, <1>5
<1>7. ST!Data(s) = c \o ST!Data(rest)
  <2>1. \A x, y \in Seq(StAll) : ST!Data(x \o y) = ST!Data(x) \o ST!Data(y)
    BY DataIs
  <2>2. ST!Data(c) = c
    BY <1>6, DataIs
  <2> QED
    BY <1>2, <1>5, <2>1, <2>2, Zenon
<1>8. StOne(rest)
  BY <1>2, <1>4, OneMarkKept
<1>9. s \in Seq(ST!Bytes) => u \in Seq(ST!Bytes) /\ rest \in Seq(ST!Bytes)
  BY <1>2, <1>4, Halves
<1>10. Len(u) \in Nat /\ Len(s) \in Nat /\ n \in Nat /\ n <= Len(u)
  BY <1>1
<1>11. Len(c) <= ReadLen /\ Begins(u, c)
  BY <1>3, <1>5, <1>10 DEF Begins
<1>12. ASSUME NEW b \in Seq(ST!Bytes), b # <<>>, Begins(s, b), Len(b) <= ReadLen
       PROVE  Begins(c, b)
  <2>1. Len(b) \in Nat /\ Len(b) # 0 /\ \A k \in 1 .. Len(b) : b[k] # "oob"
    BY <1>12, NoMark, EmptySeq
  <2>2. Len(b) <= Len(s) /\ \A k \in 1 .. Len(b) : s[k] = b[k]
    BY <1>12 DEF Begins
  <2>3. u = s
    <3>1. 1 \in 1 .. Len(b)
      BY <2>1
    <3>2. s[1] # "oob" /\ s # <<>>
      BY <1>10, <2>1, <2>2, <3>1, EmptySeq
    <3> QED
      BY <1>2, <3>2
  <2>4. Len(b) <= n
    <3>1. Len(b) \in 0 .. Len(u) /\ \A k \in 1 .. Len(b) : u[k] # "oob"
      BY <1>10, <2>1, <2>2, <2>3
    <3> QED
      BY <1>3, <1>12, <3>1
  <2>5. \A k \in 1 .. Len(b) : k \in 1 .. n
    BY <1>10, <2>1, <2>4
  <2> QED
    BY <1>5, <2>2, <2>3, <2>4, <2>5 DEF Begins
<1>13. Reads(s, u, c, rest)
  BY <1>1, <1>2, <1>5, <1>6, <1>7, <1>8, <1>9, <1>11, <1>12 DEF Reads
<1> QED
  BY <1>13

\* One more chunk: e, after those of o.
OneMore(o, e, s, place, S, u, rest, next) ==
  /\ o \in Seq(StOuts) /\ e \in StOuts
  /\ StPeeks(o, place, s) /\ StShownIs(S, o)
  /\ place \in {"recv", "again"} /\ (place = "recv" \/ ~e.peek)
  /\ e.shown = (IF "c" \in S THEN ST!Stripped(e.chunk) ELSE e.chunk)
  /\ Reads(s, u, e.chunk, rest) /\ e.chunk # <<>>
  /\ next = "again" <=> e.peek

LEMMA OneMoreChunk ==
  ASSUME NEW o, NEW e, NEW s, NEW place, NEW S, NEW u, NEW rest, NEW next,
         OneMore(o, e, s, place, S, u, rest, next)
  PROVE  /\ Append(o, e) \in Seq(StOuts)
         /\ StPeeks(Append(o, e), next, IF e.peek THEN u ELSE rest)
         /\ StShownIs(S, Append(o, e))
         /\ Whole(Append(o, e), "chunk") \o ST!Data(IF e.peek THEN u ELSE rest) =
              Whole(o, "chunk") \o ST!Data(s)
<1>0. /\ o \in Seq(StOuts) /\ e \in StOuts
      /\ StPeeks(o, place, s) /\ StShownIs(S, o)
      /\ place \in {"recv", "again"} /\ (place = "recv" \/ ~e.peek)
      /\ e.shown = (IF "c" \in S THEN ST!Stripped(e.chunk) ELSE e.chunk)
      /\ Reads(s, u, e.chunk, rest) /\ e.chunk # <<>>
      /\ next = "again" <=> e.peek
  BY DEF OneMore
<1>1. /\ e.peek \in BOOLEAN /\ e.chunk \in Seq(ST!Bytes) /\ e.shown \in Seq(ST!Bytes)
  BY <1>0, <1>0 DEF StOuts
<1>2. PICK w, h, c : /\ w = Whole(o, "chunk") /\ h = Whole(o, "shown") /\ c = e.chunk
                     /\ w \in Seq(ST!Bytes) /\ h \in Seq(ST!Bytes) /\ c \in Seq(ST!Bytes)
  BY <1>0, <1>1, WholeIs
<1>3. /\ Whole(Append(o, e), "chunk") = w \o (IF e.peek THEN <<>> ELSE c)
      /\ Whole(Append(o, e), "shown") = h \o (IF e.peek THEN <<>> ELSE e.shown)
  BY <1>0, <1>2, WholeIs
<1>4. w \o <<>> = w /\ h \o <<>> = h
  BY <1>0, <1>2, ConcatEmptySeq
<1>5. Whole(Append(o, e), "chunk") \o ST!Data(IF e.peek THEN u ELSE rest) = w \o ST!Data(s)
  <2>1. CASE e.peek
    BY <1>0, <1>3, <1>4, <2>1 DEF Reads
  <2>2. CASE ~e.peek
    <3>1. ST!Data(rest) \in Seq(ST!Bytes) /\ ST!Data(s) = c \o ST!Data(rest)
      BY <1>0, <1>2, DataIs DEF Reads
    <3>2. (w \o c) \o ST!Data(rest) = w \o (c \o ST!Data(rest))
      BY <1>0, <1>2, <3>1, BytesJoin, Zenon
    <3> QED
      BY <1>0, <1>3, <2>2, <3>1, <3>2
  <2> QED
    BY <1>0, <2>1, <2>2
<1>6. StShownIs(S, Append(o, e))
  <2>1. h = (IF "c" \in S THEN ST!Stripped(w) ELSE w)
    BY <1>0, <1>2 DEF StShownIs
  <2>2. ST!Stripped(w \o c) = ST!Stripped(w) \o ST!Stripped(c)
    BY <1>0, <1>2, StrippedIs
  <2>3. CASE e.peek
    BY <1>0, <1>3, <1>4, <2>1, <2>3 DEF StShownIs
  <2>4. CASE ~e.peek
    BY <1>0, <1>2, <1>3, <2>1, <2>2, <2>4 DEF StShownIs
  <2> QED
    BY <1>0, <2>3, <2>4
<1>7. PICK v \in Seq(StOuts), m \in Nat :
        /\ v = Append(o, e) /\ m = Len(o) /\ Len(v) = m + 1 /\ DOMAIN v = 1 .. m + 1
        /\ v[m + 1] = e /\ \A k \in 1 .. m : v[k] = o[k]
        /\ DOMAIN o = 1 .. m
  <2>1. PICK m \in Nat : m = Len(o) /\ DOMAIN o = 1 .. m
    BY <1>0, LenProperties
  <2>2. PICK v \in Seq(StOuts) :
          /\ v = Append(o, e) /\ Len(v) = Len(o) + 1 /\ v[Len(o) + 1] = e
          /\ \A k \in 1 .. Len(o) : v[k] = o[k]
    <3>1. /\ Append(o, e) \in Seq(StOuts) /\ Len(Append(o, e)) = Len(o) + 1
          /\ Append(o, e)[Len(o) + 1] = e
          /\ \A k \in 1 .. Len(o) : Append(o, e)[k] = o[k]
      BY <1>0, AppendProperties
    <3> QED
      BY <3>1, Zenon
  <2>3. DOMAIN v = 1 .. m + 1
    BY <2>1, <2>2, LenProperties
  <2> QED
    BY <2>1, <2>2, <2>3
<1>8. v # <<>> /\ v[Len(v)] = e
  BY <1>0, <1>7, EmptySeq
<1>9. \A k \in DOMAIN v : v[k].peek /\ k < Len(v) =>
        ~v[k + 1].peek /\ Begins(v[k + 1].chunk, v[k].chunk)
  <2> SUFFICES ASSUME NEW k \in 1 .. m + 1, v[k].peek, k < m + 1
               PROVE  ~v[k + 1].peek /\ Begins(v[k + 1].chunk, v[k].chunk)
    BY <1>0, <1>7
  <2>1. k \in 1 .. m /\ o[k].peek
    BY <1>0, <1>7
  <2>2. CASE k < m
    <3>1. k + 1 \in 1 .. m
      BY <1>0, <2>1, <2>2
    <3>2. ~o[k + 1].peek /\ Begins(o[k + 1].chunk, o[k].chunk)
      BY <1>0, <1>7, <2>1, <2>2 DEF StPeeks
    <3> QED
      BY <1>0, <1>7, <2>1, <3>1, <3>2
  <2>3. CASE k = m
    <3>1. v[k] = o[m] /\ v[k + 1] = e
      BY <1>0, <1>7, <2>1, <2>3
    <3>2. o # <<>> /\ o[Len(o)] = o[m] /\ o[m] \in StOuts
      BY <1>0, <1>7, <2>1, <2>3, EmptySeq, ElementOfSeq
    <3>3. place = "again"
      BY <1>0, <2>1, <2>3, <3>2 DEF StPeeks
    <3>4. /\ o[m].chunk # <<>> /\ Len(o[m].chunk) <= ReadLen /\ Begins(s, o[m].chunk)
          /\ o[m].chunk \in Seq(ST!Bytes)
      BY <1>0, <3>2, <3>3 DEF StPeeks, StOuts
    <3>5. Begins(e.chunk, o[m].chunk)
      BY <1>0, <3>4 DEF Reads
    <3> QED
      BY <1>0, <3>1, <3>3, <3>5
  <2> QED
    BY <1>0, <1>7, <2>1, <2>2, <2>3
<1>10. StPeeks(v, next, IF e.peek THEN u ELSE rest)
  <2>1. next = "again" => Begins(IF e.peek THEN u ELSE rest, e.chunk) /\ Len(e.chunk) <= ReadLen
    BY <1>0, <1>0 DEF Reads
  <2> QED
    BY <1>0, <1>8, <1>9, <2>1 DEF StPeeks
<1> QED
  BY <1>0, <1>2, <1>5, <1>6, <1>7, <1>10

LEMMA StReceives == ASSUME StInv, NEW p \in ST!Sides, ST!Recv(p) PROVE StInv'
<1>1. PICK q \in ST!Sides : q = ST!Peer(p) /\ q # p
  BY StPeers
<1>2. StTypes /\ StPair(p, q) /\ StPair(q, p)
  BY <1>1, StBoth
<1>3. /\ st_pc[p] \in {"recv", "again"} /\ st_opts' = st_opts /\ st_ready' = st_ready
      /\ st_i' = st_i /\ st_wrote' = st_wrote /\ st_typed' = st_typed
      /\ st_towrite' = st_towrite /\ st_input' = st_input
  BY Zenon DEF ST!Recv, ST!history
<1>4. st_net[q] \in Seq(StAll) /\ StOne(st_net[q]) /\ st_out[p] \in Seq(StOuts)
  BY <1>2, StValues DEF StPair, StMarks
<1>5. PICK u, c, rest : Reads(st_net[q], u, c, rest)
  BY <1>4, ReadsIs
<1>6. /\ c # <<>>
      /\ IF ST!Shown(p, c) = ST!Refused
         THEN ST!Exit(p, "crlf") /\ st_out' = st_out
         ELSE /\ st_out' = [st_out EXCEPT ![p] = Append(@, [peek |-> ST!Peeks(p), chunk |-> c,
                                                           shown |-> ST!Shown(p, c)])]
              /\ st_net' = [st_net EXCEPT ![q] = IF ST!Peeks(p) THEN u ELSE rest]
              /\ st_pc' = [st_pc EXCEPT ![p] = ST!AfterRecv(p)]
              /\ st_fin' = st_fin /\ st_reset' = st_reset /\ st_cause' = st_cause
  <2>1. u = ST!Unmarked(st_net[q]) /\ c = ST!Upto(u) /\ rest = SubSeq(u, Len(c) + 1, Len(u))
    BY <1>5 DEF Reads
  <2> QED
    BY <1>1, <2>1, Zenon DEF ST!Recv, ST!Go
<1>7. CASE ST!Shown(p, c) = ST!Refused
  <2>1. /\ st_typed' \in [ST!Sides -> Seq(ST!Bytes)] /\ st_input' \in [ST!Sides -> Seq(ST!Bytes)]
        /\ st_ready' \in [ST!Sides -> SUBSET {"stdin", "sock"}]
        /\ st_i' \in Nat /\ st_i' >= st_i
        /\ \A x \in ST!Sides : x # p => st_typed'[x] = st_typed[x]
        /\ "crlf" \in StCauses
    BY <1>2, <1>3, StStill DEF StTypes, StCauses
  <2> QED
    BY <1>3, <1>6, <1>7, <2>1, StExits
<1>8. CASE ST!Shown(p, c) # ST!Refused
  <2>1. /\ c \in Seq(ST!Bytes) /\ u \in Seq(StAll) /\ rest \in Seq(StAll)
        /\ StOne(u) /\ StOne(rest)
        /\ st_net[q] \in Seq(ST!Bytes) => u \in Seq(ST!Bytes) /\ rest \in Seq(ST!Bytes)
    BY <1>5 DEF Reads
  <2>2. /\ ST!Shown(p, c) = IF "c" \in st_opts[p] THEN ST!Stripped(c) ELSE c
        /\ ST!Shown(p, c) \in Seq(ST!Bytes)
    <3>1. "i" \in st_opts[p] => "c" \notin st_opts[p]
      BY <1>2 DEF StPair, StFixed
    <3>2. ST!CrlfStrip(c) # ST!Refused => ST!CrlfStrip(c) = ST!Stripped(c)
      BY <2>1, StripIs
    <3>3. ST!Stripped(c) \in Seq(ST!Bytes)
      BY <2>1, StrippedIs
    <3> QED
      BY <1>8, <2>1, <3>1, <3>2, <3>3 DEF ST!Shown, ST!Has
  <2>3. PICK e : e = [peek |-> ST!Peeks(p), chunk |-> c, shown |-> ST!Shown(p, c)]
    OBVIOUS
  <2>4. PICK next : next = ST!AfterRecv(p)
    OBVIOUS
  <2>5. PICK left : left = IF e.peek THEN u ELSE rest
    OBVIOUS
  <2>6. ST!Peeks(p) \in BOOLEAN /\ (ST!Peeks(p) => st_pc[p] = "recv")
    BY DEF ST!Peeks
  <2>7. /\ e \in StOuts /\ e.peek = ST!Peeks(p) /\ e.chunk = c /\ e.shown = ST!Shown(p, c)
        /\ next \in {"again", "recv", "select"} /\ (next = "again" <=> e.peek)
        /\ next \in StPlaces
    <3>1. next \in {"again", "recv", "select"} /\ (next = "again" <=> ST!Peeks(p))
      BY <2>4 DEF ST!AfterRecv
    <3> HIDE DEF ST!Peeks, ST!Shown
    <3> QED
      BY <2>1, <2>2, <2>3, <2>6, <3>1 DEF StOuts, StPlaces
  <2>8. /\ st_out' = [st_out EXCEPT ![p] = Append(@, e)]
        /\ st_net' = [st_net EXCEPT ![q] = left]
        /\ st_pc' = [st_pc EXCEPT ![p] = next]
        /\ st_fin' = st_fin /\ st_reset' = st_reset /\ st_cause' = st_cause
    BY <1>6, <1>8, <2>3, <2>4, <2>5, <2>7
  <2>9. /\ Append(st_out[p], e) \in Seq(StOuts)
        /\ StPeeks(Append(st_out[p], e), next, left)
        /\ StShownIs(st_opts[p], Append(st_out[p], e))
        /\ Whole(Append(st_out[p], e), "chunk") \o ST!Data(left) =
             Whole(st_out[p], "chunk") \o ST!Data(st_net[q])
    <3>1. StPeeks(st_out[p], st_pc[p], st_net[q]) /\ StShownIs(st_opts[p], st_out[p])
      BY <1>2 DEF StPair
    <3>2. st_pc[p] = "recv" \/ ~e.peek
      BY <2>6, <2>7
    <3>3. Reads(st_net[q], u, e.chunk, rest) /\ e.chunk # <<>>
      BY <1>5, <1>6, <2>7
    <3>4. e.shown = (IF "c" \in st_opts[p] THEN ST!Stripped(e.chunk) ELSE e.chunk)
      BY <2>2, <2>7
    <3>5. OneMore(st_out[p], e, st_net[q], st_pc[p], st_opts[p], u, rest, next)
      BY <1>3, <1>4, <2>7, <3>1, <3>2, <3>3, <3>4 DEF OneMore
    <3>6. /\ Append(st_out[p], e) \in Seq(StOuts)
          /\ StPeeks(Append(st_out[p], e), next, IF e.peek THEN u ELSE rest)
          /\ StShownIs(st_opts[p], Append(st_out[p], e))
          /\ Whole(Append(st_out[p], e), "chunk") \o ST!Data(IF e.peek THEN u ELSE rest) =
               Whole(st_out[p], "chunk") \o ST!Data(st_net[q])
      BY ONLY <3>5, OneMoreChunk
    <3> QED
      BY <2>5, <3>6
  <2>10. PICK o : o = Append(st_out[p], e)
    OBVIOUS
  <2>11. left \in Seq(StAll) /\ StOne(left) /\ (st_net[q] \in Seq(ST!Bytes) => left \in Seq(ST!Bytes))
    BY <2>1, <2>5
  <2>12. /\ st_out'[p] = o /\ st_out'[q] = st_out[q] /\ st_pc'[p] = next /\ st_pc'[q] = st_pc[q]
         /\ st_net'[q] = left /\ st_net'[p] = st_net[p]
    BY <1>1, <1>2, <2>8, <2>10 DEF StTypes
  <2>13. StTypes'
    <3>1. st_out' \in [ST!Sides -> Seq(StOuts)]
      BY <1>2, <2>8, <2>9 DEF StTypes
    <3>2. st_net' \in [ST!Sides -> Seq(StAll)]
      BY <1>2, <2>8, <2>11 DEF StTypes
    <3>3. st_pc' \in [ST!Sides -> StPlaces]
      BY <1>2, <2>7, <2>8 DEF StTypes
    <3> QED
      BY <1>2, <1>3, <2>8, <3>1, <3>2, <3>3 DEF StTypes
  <2>14. StPair(p, q)'
    <3>1. StCopied(st_wrote[q], o, left, st_reset[p], next)
      BY <1>2, <1>3, <2>9, <2>10 DEF StPair, StCopied
    <3>2. /\ StPending(st_opts[p], next, st_towrite[p], st_wrote[p], st_typed[p])
          /\ StEof(st_cause[p], st_fin[q], next, o, st_wrote[q])
          /\ StFin(st_fin[p], next) /\ StFixed(st_opts[p], next)
      BY <1>2, <1>3, <2>7 DEF StPair, StPending, StEof, StFin, StFixed
    <3> QED
      BY <1>2, <1>3, <2>8, <2>9, <2>10, <2>12, <3>1, <3>2 DEF StPair
  <2>15. StPair(q, p)'
    <3>1. StGone(st_reset[q], next)
      BY <1>2, <1>3 DEF StPair, StGone
    <3>2. StMarks(left, st_i)
      BY <1>2, <2>11 DEF StPair, StMarks
    <3> QED
      BY <1>2, <1>3, <2>8, <2>12, <3>1, <3>2 DEF StPair
  <2> QED
    BY <1>1, <2>13, <2>14, <2>15, StBoth
<1> QED
  BY <1>7, <1>8

LEMMA StStarts == ASSUME ST!Init PROVE StInv
<1>1. /\ st_opts \in [ST!Sides -> SUBSET (ST!Letters \ {"f", "o", "u", "D", "L", "N"})]
      /\ \A p \in ST!Sides : ST!Has(p, "i") => st_opts[p] \cap {"c", "h", "k"} = {}
      /\ st_pc = [p \in ST!Sides |-> IF ST!Routine(st_opts[p]) = "loop_tcp" THEN "select"
                                     ELSE IF ST!Has(p, "s") THEN "recv" ELSE "source"]
      /\ st_input \in [ST!Sides -> UNION {[1 .. n -> ST!Bytes] : n \in 0 .. MaxInput}]
      /\ st_ready = [p \in ST!Sides |-> {}] /\ st_towrite = [p \in ST!Sides |-> <<>>]
      /\ st_i = 1
      /\ st_net = [p \in ST!Sides |-> <<>>] /\ st_fin = [p \in ST!Sides |-> FALSE]
      /\ st_reset = [p \in ST!Sides |-> "no"]
      /\ st_out = [p \in ST!Sides |-> <<>>]
      /\ st_typed = [p \in ST!Sides |-> <<>>] /\ st_wrote = [p \in ST!Sides |-> <<>>]
      /\ st_cause = [p \in ST!Sides |-> "none"]
  BY Zenon DEF ST!Init
<1>2. st_input \in [ST!Sides -> Seq(ST!Bytes)]
  <2>1. \A n \in 0 .. MaxInput : [1 .. n -> ST!Bytes] \subseteq Seq(ST!Bytes)
    <3>1. MaxInput \in Nat
      BY ToolsAssumption
    <3>2. \A n \in 0 .. MaxInput : n \in Nat
      BY <3>1
    <3> QED
      BY <3>2
  <2>2. UNION {[1 .. n -> ST!Bytes] : n \in 0 .. MaxInput} \subseteq Seq(ST!Bytes)
    BY <2>1, Zenon
  <2> QED
    BY <1>1, <2>2
<1>3. /\ \A p \in ST!Sides : st_pc[p] \in {"select", "recv", "source"}
      /\ \A p \in ST!Sides : "i" \in st_opts[p] => "c" \notin st_opts[p]
      /\ \A p \in ST!Sides : st_pc[p] = "source" => "i" \in st_opts[p]
  <2> SUFFICES ASSUME NEW p \in ST!Sides
               PROVE  /\ st_pc[p] \in {"select", "recv", "source"}
                      /\ "i" \in st_opts[p] => "c" \notin st_opts[p]
                      /\ st_pc[p] = "source" => "i" \in st_opts[p]
    OBVIOUS
  <2>1. st_pc[p] = IF ST!Routine(st_opts[p]) = "loop_tcp" THEN "select"
                   ELSE IF ST!Has(p, "s") THEN "recv" ELSE "source"
    BY <1>1
  <2>2. "i" \notin st_opts[p] => ST!Routine(st_opts[p]) = "loop_tcp"
    BY <1>1 DEF ST!Routine
  <2>3. "i" \in st_opts[p] => "c" \notin st_opts[p]
    BY <1>1 DEF ST!Has
  <2> QED
    BY <2>1, <2>2, <2>3
<1>4. StTypes
  <2>1. <<>> \in Seq(ST!Bytes) /\ <<>> \in Seq(StAll) /\ <<>> \in Seq(StOuts)
        /\ <<>> \in Seq(Seq(ST!Bytes))
    BY EmptySeq
  <2>2. st_opts \in [ST!Sides -> SUBSET ST!Letters]
    BY <1>1
  <2>3. st_pc \in [ST!Sides -> StPlaces]
    BY <1>1, <1>3 DEF StPlaces
  <2>4. /\ st_ready \in [ST!Sides -> SUBSET {"stdin", "sock"}] /\ st_i \in Nat
        /\ st_fin \in [ST!Sides -> BOOLEAN] /\ st_reset \in [ST!Sides -> {"no", "pending", "told"}]
        /\ st_cause \in [ST!Sides -> StCauses]
    BY <1>1 DEF StCauses
  <2>5. /\ st_typed \in [ST!Sides -> Seq(ST!Bytes)] /\ st_wrote \in [ST!Sides -> Seq(ST!Bytes)]
        /\ st_towrite \in [ST!Sides -> Seq(Seq(ST!Bytes))] /\ st_net \in [ST!Sides -> Seq(StAll)]
        /\ st_out \in [ST!Sides -> Seq(StOuts)]
    BY <1>1, <2>1
  <2> QED
    BY <1>2, <2>2, <2>3, <2>4, <2>5 DEF StTypes
<1>5. ASSUME NEW p \in ST!Sides, NEW q \in ST!Sides PROVE StPair(p, q)
  <2>1. /\ st_wrote[q] = <<>> /\ st_out[p] = <<>> /\ st_net[q] = <<>> /\ st_net[p] = <<>>
        /\ st_reset[p] = "no" /\ st_towrite[p] = <<>> /\ st_wrote[p] = <<>>
        /\ st_typed[p] = <<>> /\ st_cause[p] = "none" /\ st_fin[p] = FALSE /\ st_i = 1
        /\ st_pc[p] \in {"select", "recv", "source"}
    BY <1>1, <1>3
  <2>2. /\ Whole(<<>>, "chunk") = <<>> /\ Whole(<<>>, "shown") = <<>> /\ ST!Data(<<>>) = <<>>
        /\ ST!FlattenSeq(<<>>) = <<>> /\ ST!Added(<<>>) = <<>> /\ ST!Stripped(<<>>) = <<>>
        /\ <<>> \o <<>> = <<>>
    <3>1. <<>> \in Seq(StOuts) /\ <<>> \in Seq(ST!Bytes)
      BY EmptySeq
    <3> QED
      BY <3>1, WholeIs, DataIs, AddedIs, StrippedIs, FlattenEmpty, ConcatEmptySeq
  <2>3. StCopied(<<>>, <<>>, <<>>, "no", st_pc[p])
    <3>1. Begins(<<>>, <<>>)
      BY DEF Begins
    <3> QED
      BY <2>2, <3>1 DEF StCopied
  <2>4. StPending(st_opts[p], st_pc[p], <<>>, <<>>, <<>>)
    BY <2>1, <2>2 DEF StPending
  <2>5. StPeeks(<<>>, st_pc[p], <<>>)
    BY <2>1 DEF StPeeks
  <2>6. /\ StShownIs(st_opts[p], <<>>) /\ StEof("none", st_fin[q], st_pc[p], <<>>, <<>>)
        /\ StFin(FALSE, st_pc[p]) /\ StGone("no", st_pc[q]) /\ StFixed(st_opts[p], st_pc[p])
    BY <1>3, <2>2 DEF StShownIs, StEof, StFin, StGone, StFixed
  <2>7. StMarks(<<>>, 1)
    BY EmptySeq, NoMarkIsOne DEF StMarks
  <2> QED
    BY <2>1, <2>3, <2>4, <2>5, <2>6, <2>7 DEF StPair
<1> QED
  BY <1>4, <1>5, StPeers DEF StInv

LEMMA StSteps == ASSUME StInv, ST!Next PROVE StInv'
<1>1. PICK p \in ST!Sides : ST!Step(p)
  BY Zenon DEF ST!Next
<1> QED
  BY <1>1, StCloses, StSelects, StStdinEnds, StReadsStdin, StWrites, StReceives, StRecvEnds,
     StSources, StSourceEnds, Zenon DEF ST!Step

LEMMA StStays == ASSUME StInv, UNCHANGED st_vars PROVE StInv'
<1>1. /\ st_opts' = st_opts /\ st_pc' = st_pc /\ st_ready' = st_ready /\ st_input' = st_input
      /\ st_towrite' = st_towrite /\ st_i' = st_i /\ st_net' = st_net /\ st_fin' = st_fin
      /\ st_reset' = st_reset /\ st_out' = st_out /\ st_typed' = st_typed
      /\ st_wrote' = st_wrote /\ st_cause' = st_cause
  BY DEF st_vars
<1>2. StTypes'
  BY <1>1 DEF StInv, StTypes
<1>3. ASSUME NEW p \in ST!Sides PROVE StPair(p, ST!Peer(p))'
  BY <1>1, Zenon DEF StInv, StPair
<1> QED
  BY <1>2, <1>3 DEF StInv

LEMMA StCopies == ASSUME StInv PROVE ST!CopiesFaithfully
<1>1. ASSUME NEW p \in ST!Sides
      PROVE  /\ ST!ReadIsWritten(p) /\ ST!PeekedIsRead(p) /\ ST!EofIsComplete(p)
             /\ ST!RefusesOnlyFull(st_input[p])
  <2>1. PICK q \in ST!Sides : q = ST!Peer(p)
    BY StPeers
  <2>2. StTypes /\ StPair(p, q) /\ StPair(q, p)
    BY <2>1, StBoth
  <2>3. /\ st_out[p] \in Seq(StOuts) /\ st_wrote[q] \in Seq(ST!Bytes)
        /\ st_net[q] \in Seq(StAll) /\ st_input[p] \in Seq(ST!Bytes)
    BY <2>2, StValues
  <2>4. PICK w, d : /\ w = Whole(st_out[p], "chunk") /\ d = ST!Data(st_net[q])
                    /\ w \in Seq(ST!Bytes) /\ d \in Seq(ST!Bytes)
    BY <2>3, WholeIs, DataIs
  <2>5. ST!Chunks(p, "chunk") = w /\ ST!Chunks(p, "shown") = Whole(st_out[p], "shown")
    BY <2>4, Zenon DEF ST!Chunks, Whole
  <2>6. ST!IsPrefix(w, st_wrote[q])
    <3>1. Begins(st_wrote[q], w \o d)
      BY <2>2, <2>4 DEF StPair, StCopied
    <3>2. Begins(st_wrote[q], w)
      BY <2>3, <2>4, <3>1, BeginsIs
    <3> QED
      BY <2>3, <2>4, <3>2, BeginsIs
  <2>7. st_pc[q] # "exit" /\ ~ST!Has(q, "i") =>
          st_wrote[q] \o ST!FlattenSeq(st_towrite[q]) = ST!Sent(q)
    BY <2>2 DEF StPair, StPending, ST!Has, ST!Sent
  <2>8. ST!Chunks(p, "shown") = (IF ST!Has(p, "c") THEN ST!Stripped(w) ELSE w)
    BY <2>2, <2>4, <2>5 DEF StPair, StShownIs, ST!Has
  <2>9. ST!ReadIsWritten(p)
    BY <2>1, <2>5, <2>6, <2>7, <2>8 DEF ST!ReadIsWritten
  <2>10. ST!PeekedIsRead(p)
    <3> SUFFICES ASSUME NEW k \in DOMAIN st_out[p], st_out[p][k].peek, k < Len(st_out[p])
                 PROVE  /\ ~st_out[p][k + 1].peek
                        /\ ST!IsPrefix(st_out[p][k].chunk, st_out[p][k + 1].chunk)
      BY DEF ST!PeekedIsRead
    <3>1. ~st_out[p][k + 1].peek /\ Begins(st_out[p][k + 1].chunk, st_out[p][k].chunk)
      BY <2>2 DEF StPair, StPeeks
    <3>2. k \in 1 .. Len(st_out[p]) /\ k + 1 \in 1 .. Len(st_out[p])
      BY <2>3, LenProperties
    <3>3. st_out[p][k] \in StOuts /\ st_out[p][k + 1] \in StOuts
      BY <2>3, <3>2, ElementOfSeq
    <3>4. st_out[p][k].chunk \in Seq(ST!Bytes) /\ st_out[p][k + 1].chunk \in Seq(ST!Bytes)
      BY <3>3 DEF StOuts
    <3> QED
      BY <3>1, <3>4, BeginsIs
  <2>11. ST!EofIsComplete(p)
    BY <2>1, <2>2, <2>4, <2>5 DEF StPair, StEof, ST!EofIsComplete
  <2> QED
    BY <2>3, <2>9, <2>10, <2>11, Conversions
<1>2. ST!PartsSuffice
  <2>1. MaxIov * MaxIov \in Nat
    BY ToolsAssumption
  <2>2. \A n \in 0 .. MaxIov * MaxIov : n \in Nat
    BY <2>1
  <2> QED
    BY <2>2, PartsAreEnough DEF ST!PartsSuffice
<1> QED
  BY <1>1, <1>2 DEF ST!CopiesFaithfully

-----------------------------------------------------------------------------
(* sock over UDP: what the reasons rest on                                   *)

SuPlaces    == {"select", "stdin", "recv", "again", "source", "exit"}
SuDatagrams == [from : {"client", "server", "other"}, size : Nat]

SuTypes ==
  /\ su_opts \in [SU!Sides -> SUBSET SU!Letters]
  /\ su_pc \in [SU!Sides -> SuPlaces]
  /\ su_others \in 0 .. MaxOther
  /\ su_queue \in [SU!Sides -> Seq(SuDatagrams)]
  /\ su_soerror \in [SU!Sides -> BOOLEAN]
  /\ su_servaddr \in {"unset", "server", "other"}
  /\ su_shown \in [SU!Sides -> SuDatagrams \cup {SU!Nothing}]
  /\ su_cause \in
       [SU!Sides -> {"none", "stdin", "write", "sendto", "refused", "closed", "done"}]

\* The options of a process, and where they let it be.
SuFixed(p, S) ==
  /\ "s" \in S <=> p = "server"
  /\ "u" \in S /\ "h" \notin S
  /\ ("f" \in S => p = "server") /\ ("o" \in S => p = "client")
  /\ "W" \in S => "i" \in S /\ p = "client"
SuPlaced(p, S, place) ==
  /\ place \in {"select", "stdin"} => "i" \notin S
  /\ place \in {"recv", "again"} => "i" \notin S \/ p = "server"
  /\ place = "source" => "i" \in S /\ p = "client"

\* Who sent what is in a queue; only the other host, or -w 0, sends nothing.
SuQueued(p, d, linked, n) ==
  /\ d.from \in {SU!Peer(p), "other"}
  /\ d.size = 0 => (~linked /\ n < MaxOther) \/ (p = "server" /\ WriteLen = 0)

\* What was looked at is still in front.
SuPeeks(place, d, s) == place = "again" => s # <<>> /\ d = Head(s)

SuEnds(p, S, why, place, n) ==
  /\ why \in {"write", "refused"} =>
       "W" \notin S /\ (place = "exit" \/ (p = "server" /\ "f" \notin S))
  /\ why = "sendto" => p = "client" /\ "o" \in S
  /\ why = "closed" => p = "server" /\ "i" \in S /\ (n < MaxOther \/ WriteLen = 0)

SuOne(p) ==
  /\ SuFixed(p, su_opts[p]) /\ SuPlaced(p, su_opts[p], su_pc[p])
  /\ \A k \in DOMAIN su_queue[p] : SuQueued(p, su_queue[p][k], SU!Connected(p), su_others)
  /\ SuPeeks(su_pc[p], su_shown[p], su_queue[p])
  /\ su_soerror[p] => SU!Connected(p) /\ su_pc[SU!Peer(p)] = "exit"
  /\ SuEnds(p, su_opts[p], su_cause[p], su_pc[SU!Peer(p)], su_others)

\* A client that "sendto error" ended never hears from anybody.
SuUnset ==
  su_cause["client"] = "sendto" => su_pc["client"] = "exit" /\ su_servaddr = "unset"

SuInv ==
  /\ SuTypes /\ ~su_halfclosed /\ SU!SentWhereNamed /\ SuUnset
  /\ \A p \in SU!Sides : SuOne(p)

LEMMA SuPeers ==
  ASSUME NEW p \in SU!Sides
  PROVE  /\ SU!Peer(p) \in SU!Sides /\ SU!Peer(p) # p /\ SU!Peer(SU!Peer(p)) = p
         /\ \A x \in SU!Sides : x = p \/ x = SU!Peer(p)
         /\ p \in {"client", "server"}
BY DEF SU!Sides, SU!Peer

\* What the network may do in a step of p.
SuNet(p) ==
  /\ su_queue' \in [SU!Sides -> Seq(SuDatagrams)]
  /\ su_soerror' \in [SU!Sides -> BOOLEAN]
  /\ \A x \in SU!Sides :
       /\ \A k \in DOMAIN su_queue'[x] :
            SuQueued(x, su_queue'[x][k], SU!Connected(x), su_others')
       /\ su_soerror'[x] => SU!Connected(x) /\ su_pc[SU!Peer(x)] = "exit"
       /\ x # p => SuPeeks(su_pc[x], su_shown[x], su_queue'[x])

LEMMA SuLater ==
  ASSUME NEW m \in Int, NEW n \in Int, m <= n, n <= MaxOther
  PROVE  /\ \A p, d, l : SuQueued(p, d, l, n) => SuQueued(p, d, l, m)
         /\ \A p, S, why, place : SuEnds(p, S, why, place, n) => SuEnds(p, S, why, place, m)
<1>1. MaxOther \in Nat
  BY ToolsAssumption
<1>2. n < MaxOther => m < MaxOther
  BY <1>1
<1> QED
  BY <1>2 DEF SuQueued, SuEnds

LEMMA SuQuiet ==
  ASSUME SuInv, NEW p \in SU!Sides, su_queue' = su_queue,
         su_soerror' \in [SU!Sides -> BOOLEAN],
         \A x \in SU!Sides : su_soerror'[x] => su_soerror[x],
         su_others' = su_others
  PROVE  SuNet(p) /\ SuPeeks(su_pc[p], su_shown[p], su_queue'[p])
BY DEF SuInv, SuTypes, SuOne, SuNet

LEMMA SuDelivers ==
  ASSUME SuInv, NEW p \in SU!Sides, NEW from \in {"client", "server", "other"}, NEW q,
         NEW size \in Nat, SU!Deliver(from, q, size),
         su_others' \in 0 .. MaxOther, su_others' <= su_others,
         q \in SU!Sides => /\ from \in {SU!Peer(q), "other"}
                           /\ \A d \in SuDatagrams : d.from = from /\ d.size = size =>
                                SuQueued(q, d, SU!Connected(q), su_others')
  PROVE  SuNet(p) /\ SuPeeks(su_pc[p], su_shown[p], su_queue'[p])
<1>1. /\ su_queue \in [SU!Sides -> Seq(SuDatagrams)] /\ su_soerror \in [SU!Sides -> BOOLEAN]
      /\ su_others \in 0 .. MaxOther
  BY DEF SuInv, SuTypes
<1>2. \A x \in SU!Sides :
        /\ \A k \in DOMAIN su_queue[x] :
             SuQueued(x, su_queue[x][k], SU!Connected(x), su_others')
        /\ su_soerror[x] => SU!Connected(x) /\ su_pc[SU!Peer(x)] = "exit"
        /\ SuPeeks(su_pc[x], su_shown[x], su_queue[x])
  <2>1. \A x, d, l : SuQueued(x, d, l, su_others) => SuQueued(x, d, l, su_others')
    BY <1>1, ToolsAssumption, SuLater
  <2> QED
    BY <2>1 DEF SuInv, SuOne
<1>3. CASE su_queue' = su_queue /\ su_soerror' = su_soerror
  BY <1>1, <1>2, <1>3 DEF SuNet
<1>4. CASE /\ q \in SU!Sides /\ su_soerror' = su_soerror
           /\ su_queue' = [su_queue EXCEPT ![q] = Append(@, [from |-> from, size |-> size])]
  <2>1. PICK d \in SuDatagrams : /\ d = [from |-> from, size |-> size]
                                 /\ d.from = from /\ d.size = size
    <3>1. [from |-> from, size |-> size] \in SuDatagrams
      BY DEF SuDatagrams
    <3> QED
      BY <3>1
  <2>2. PICK s \in Seq(SuDatagrams), m \in Nat : s = su_queue[q] /\ m = Len(s) /\ DOMAIN s = 1 .. m
    BY <1>1, <1>4, LenProperties
  <2>3. PICK t : t = Append(s, d)
    OBVIOUS
  <2>4. /\ t \in Seq(SuDatagrams) /\ DOMAIN t = 1 .. m + 1 /\ t[m + 1] = d
        /\ \A k \in 1 .. m : t[k] = s[k]
    BY <2>2, <2>3, AppendProperties, LenProperties
  <2>5. su_queue' = [su_queue EXCEPT ![q] = t]
    BY <1>4, <2>1, <2>2, <2>3
  <2>6. \A k \in DOMAIN t : SuQueued(q, t[k], SU!Connected(q), su_others')
    <3> SUFFICES ASSUME NEW k \in 1 .. m + 1
                 PROVE  SuQueued(q, t[k], SU!Connected(q), su_others')
      BY <2>4
    <3>1. CASE k \in 1 .. m
      BY <1>2, <1>4, <2>2, <2>4, <3>1
    <3>2. CASE k = m + 1
      BY <1>4, <2>1, <2>4, <3>2
    <3> QED
      BY <3>1, <3>2
  <2>7. SuPeeks(su_pc[q], su_shown[q], t)
    <3>1. SuPeeks(su_pc[q], su_shown[q], s)
      BY <1>2, <1>4, <2>2
    <3>2. s # <<>> => t # <<>> /\ Head(t) = Head(s)
      BY <2>1, <2>2, <2>3, <2>4, HeadTailAppend, EmptySeq
    <3> QED
      BY <3>1, <3>2 DEF SuPeeks
  <2>8. su_queue' \in [SU!Sides -> Seq(SuDatagrams)]
    BY <1>1, <2>4, <2>5
  <2>9. \A x \in SU!Sides : su_queue'[x] = IF x = q THEN t ELSE su_queue[x]
    BY <1>1, <2>5
  <2>10. \A x \in SU!Sides :
           /\ \A k \in DOMAIN su_queue'[x] :
                SuQueued(x, su_queue'[x][k], SU!Connected(x), su_others')
           /\ SuPeeks(su_pc[x], su_shown[x], su_queue'[x])
    BY <1>2, <1>4, <2>6, <2>7, <2>9
  <2> QED
    BY <1>1, <1>2, <1>4, <2>8, <2>10 DEF SuNet
<1>5. CASE /\ q \in SU!Sides /\ su_pc[q] = "exit" /\ from \in SU!Sides /\ SU!Connected(from)
           /\ su_soerror' = [su_soerror EXCEPT ![from] = TRUE] /\ su_queue' = su_queue
  <2>1. from = SU!Peer(q) /\ SU!Peer(from) = q
    BY <1>5, SuPeers DEF SU!Sides
  <2> QED
    BY <1>1, <1>2, <1>5, <2>1 DEF SuNet
<1> QED
  BY <1>3, <1>4, <1>5 DEF SU!Deliver, SU!Gone

\* A step of p, whatever the network does.
LEMMA SuMoves ==
  ASSUME SuInv, NEW p \in SU!Sides, NEW place \in SuPlaces, NEW why, NEW d,
         su_opts' = su_opts, su_pc' = [su_pc EXCEPT ![p] = place],
         su_pc[p] = "exit" => place = "exit",
         su_cause' = [su_cause EXCEPT ![p] = why],
         why \in {"none", "stdin", "write", "sendto", "refused", "closed", "done"},
         su_shown' = [su_shown EXCEPT ![p] = d], d \in SuDatagrams \cup {SU!Nothing},
         su_others' \in 0 .. MaxOther, su_others' <= su_others,
         su_servaddr' \in {"unset", "server", "other"},
         su_servaddr' = su_servaddr \/ su_pc["client"] # "exit",
         why = "sendto" => why = su_cause[p] \/ (place = "exit" /\ su_servaddr' = "unset"),
         ~su_halfclosed', SU!SentWhereNamed',
         SuPlaced(p, su_opts[p], place), SuPeeks(place, d, su_queue'[p]),
         SuEnds(p, su_opts[p], why, su_pc[SU!Peer(p)], su_others'),
         SuNet(p)
  PROVE  SuInv'
<1>1. PICK q \in SU!Sides : q = SU!Peer(p) /\ q # p /\ SU!Peer(q) = p
                            /\ \A x \in SU!Sides : x = p \/ x = q
  BY SuPeers
<1>2. SuTypes /\ SuOne(p) /\ SuOne(q)
  BY DEF SuInv
<1>3. /\ su_pc'[p] = place /\ su_pc'[q] = su_pc[q]
      /\ su_cause'[p] = why /\ su_cause'[q] = su_cause[q]
      /\ su_shown'[p] = d /\ su_shown'[q] = su_shown[q]
  BY <1>1, <1>2 DEF SuTypes
<1>4. SuTypes'
  BY <1>2 DEF SuTypes, SuNet
<1>5. \A x \in SU!Sides : /\ SU!Connected(x)' = SU!Connected(x)
  BY DEF SU!Connected, SU!Has
<1>6. \A x \in SU!Sides : su_pc[SU!Peer(x)] = "exit" => su_pc'[SU!Peer(x)] = "exit"
  BY <1>1, <1>3
<1>7. SuOne(p)'
  <2>1. SuFixed(p, su_opts[p])
    BY <1>2 DEF SuOne
  <2> QED
    BY <1>1, <1>3, <1>5, <1>6, <2>1 DEF SuOne, SuNet
<1>8. SuOne(q)'
  <2>1. SuEnds(q, su_opts[q], su_cause[q], su_pc[p], su_others')
    <3>1. \A x, S, y, z : SuEnds(x, S, y, z, su_others) => SuEnds(x, S, y, z, su_others')
      BY <1>2, ToolsAssumption, SuLater DEF SuTypes
    <3> QED
      BY <1>1, <1>2, <3>1 DEF SuOne
  <2>2. SuEnds(q, su_opts[q], su_cause[q], place, su_others')
    BY <2>1 DEF SuEnds
  <2> QED
    BY <1>1, <1>2, <1>3, <1>5, <1>6, <2>2 DEF SuOne, SuNet
<1>9. \A x \in SU!Sides : SuOne(x)'
  BY <1>1, <1>7, <1>8
<1>10. SuUnset'
  <2>1. SuUnset /\ "client" \in SU!Sides
    BY DEF SuInv, SU!Sides
  <2>2. CASE p = "client"
    BY <1>3, <2>1, <2>2 DEF SuUnset
  <2>3. CASE q = "client"
    BY <1>3, <2>1, <2>3 DEF SuUnset
  <2> QED
    BY <1>1, <2>1, <2>2, <2>3
<1> QED
  BY <1>4, <1>9, <1>10 DEF SuInv

LEMMA SuSame ==
  ASSUME SuInv, NEW p \in SU!Sides
  PROVE  /\ su_pc = [su_pc EXCEPT ![p] = su_pc[p]] /\ su_pc[p] \in SuPlaces
         /\ su_cause = [su_cause EXCEPT ![p] = su_cause[p]]
         /\ su_cause[p] \in {"none", "stdin", "write", "sendto", "refused", "closed", "done"}
         /\ su_shown = [su_shown EXCEPT ![p] = su_shown[p]]
         /\ su_shown[p] \in SuDatagrams \cup {SU!Nothing}
         /\ su_others \in 0 .. MaxOther /\ su_others <= su_others
         /\ su_servaddr \in {"unset", "server", "other"} /\ ~su_halfclosed
         /\ su_soerror \in [SU!Sides -> BOOLEAN]
         /\ SU!SentWhereNamed /\ SuOne(p) /\ su_queue[p] \in Seq(SuDatagrams)
         /\ SuFixed(p, su_opts[p]) /\ SuPlaced(p, su_opts[p], su_pc[p])
         /\ SuEnds(p, su_opts[p], su_cause[p], su_pc[SU!Peer(p)], su_others)
BY DEF SuInv, SuTypes, SuOne

LEMMA SuSent ==
  ASSUME SuInv, su_opts' = su_opts, su_sentto' = su_sentto
  PROVE  SU!SentWhereNamed'
BY DEF SuInv, SU!SentWhereNamed, SU!Has

LEMMA SuSelects == ASSUME SuInv, NEW p \in SU!Sides, SU!Select(p) PROVE SuInv'
<1>1. /\ su_pc[p] = "select" /\ su_opts' = su_opts /\ su_others' = su_others
      /\ su_queue' = su_queue /\ su_soerror' = su_soerror /\ su_servaddr' = su_servaddr
      /\ su_shown' = su_shown /\ su_sentto' = su_sentto /\ su_halfclosed' = su_halfclosed
      /\ su_cause' = su_cause
  BY Zenon DEF SU!Select
<1>2. PICK place \in {"stdin", "recv"} : su_pc' = [su_pc EXCEPT ![p] = place]
  BY DEF SU!Select, SU!Go
<1>3. place \in SuPlaces /\ SuPlaced(p, su_opts[p], place)
  BY <1>1, SuSame DEF SuPlaces, SuPlaced
<1>4. SuNet(p)
  BY <1>1, SuQuiet, SuSame
<1>5. SuPeeks(place, su_shown[p], su_queue'[p])
  BY DEF SuPeeks
<1> QED
  BY <1>1, <1>2, <1>3, <1>4, <1>5, SuSame, SuSent, SuMoves

LEMMA SuStdinEnds == ASSUME SuInv, NEW p \in SU!Sides, SU!StdinEof(p) PROVE SuInv'
<1>1. /\ su_pc[p] = "stdin" /\ su_opts' = su_opts /\ su_others' = su_others
      /\ su_queue' = su_queue /\ su_soerror' = su_soerror /\ su_servaddr' = su_servaddr
      /\ su_shown' = su_shown /\ su_sentto' = su_sentto
  BY Zenon DEF SU!StdinEof
<1>2. /\ su_pc' = [su_pc EXCEPT ![p] = "exit"] /\ su_cause' = [su_cause EXCEPT ![p] = "stdin"]
      /\ su_halfclosed' = su_halfclosed
  BY SuSame DEF SU!StdinEof, SU!Exit, SU!Go, SuFixed, SU!Has
<1>3. "exit" \in SuPlaces /\ SuPlaced(p, su_opts[p], "exit") /\ SuPeeks("exit", su_shown[p], su_queue'[p])
      /\ SuEnds(p, su_opts[p], "stdin", su_pc[SU!Peer(p)], su_others')
  BY DEF SuPlaces, SuPlaced, SuPeeks, SuEnds
<1>4. SuNet(p)
  BY <1>1, SuQuiet, SuSame
<1> QED
  BY <1>1, <1>2, <1>3, <1>4, SuSame, SuSent, SuMoves

\* A process that leaves, with no datagram sent or taken.
LEMMA SuExits ==
  ASSUME SuInv, NEW p \in SU!Sides,
         NEW why \in {"none", "stdin", "write", "sendto", "refused", "closed", "done"},
         SU!Exit(p, why), su_opts' = su_opts, su_others' = su_others, su_queue' = su_queue,
         su_soerror' \in [SU!Sides -> BOOLEAN],
         \A x \in SU!Sides : su_soerror'[x] => su_soerror[x],
         su_servaddr' = su_servaddr, su_shown' = su_shown, su_sentto' = su_sentto,
         su_halfclosed' = su_halfclosed,
         SuEnds(p, su_opts[p], why, su_pc[SU!Peer(p)], su_others),
         why = "sendto" => su_servaddr = "unset"
  PROVE  SuInv'
<1>1. /\ su_pc' = [su_pc EXCEPT ![p] = "exit"] /\ su_cause' = [su_cause EXCEPT ![p] = why]
  BY DEF SU!Exit, SU!Go
<1>2. "exit" \in SuPlaces /\ SuPlaced(p, su_opts[p], "exit") /\ SuPeeks("exit", su_shown[p], su_queue'[p])
  BY DEF SuPlaces, SuPlaced, SuPeeks
<1>3. SuNet(p)
  BY SuQuiet
<1> QED
  BY <1>1, <1>2, <1>3, SuSame, SuSent, SuMoves

LEMMA SuLines == ASSUME SuInv, NEW p \in SU!Sides, SU!SendLine(p) PROVE SuInv'
<1>1. /\ su_pc[p] = "stdin" /\ su_opts' = su_opts /\ su_others' = su_others
      /\ su_servaddr' = su_servaddr /\ su_shown' = su_shown /\ su_halfclosed' = su_halfclosed
  BY Zenon DEF SU!SendLine
<1>2. SuFixed(p, su_opts[p]) /\ SuPlaced(p, su_opts[p], su_pc[p])
  BY SuSame
<1>3. CASE su_soerror[p] \/ (~SU!Has(p, "o") /\ ~SU!Connected(p))
  <2>1. /\ SU!Exit(p, "write") /\ su_queue' = su_queue /\ su_soerror' = su_soerror
        /\ su_sentto' = su_sentto
    BY <1>3, Zenon DEF SU!SendLine
  <2>2. SuEnds(p, su_opts[p], "write", su_pc[SU!Peer(p)], su_others)
    <3>1. "W" \notin su_opts[p]
      BY <1>1, <1>2 DEF SuFixed, SuPlaced
    <3>2. CASE su_soerror[p]
      BY <3>1, <3>2, SuSame DEF SuOne, SuEnds
    <3>3. CASE ~SU!Has(p, "o") /\ ~SU!Connected(p)
      BY <3>1, <3>3, SuPeers DEF SU!Connected, SU!Has, SuEnds
    <3> QED
      BY <1>3, <3>2, <3>3
  <2> QED
    BY <1>1, <2>1, <2>2, SuSame, SuExits
<1>4. CASE /\ SU!Destination(p) = "unset" /\ SU!Exit(p, "sendto")
           /\ su_queue' = su_queue /\ su_soerror' = su_soerror /\ su_sentto' = su_sentto
  <2>1. SU!Has(p, "o") /\ p = "client" /\ su_servaddr = "unset"
    <3>1. SU!Peer(p) # "unset"
      BY DEF SU!Peer
    <3> QED
      BY <1>2, <1>4, <3>1, SuPeers DEF SU!Destination, SuFixed, SU!Has
  <2>2. SuEnds(p, su_opts[p], "sendto", su_pc[SU!Peer(p)], su_others)
    BY <2>1 DEF SuEnds, SU!Has
  <2> QED
    BY <1>1, <1>4, <2>1, <2>2, SuSame, SuExits
<1>5. CASE /\ SU!Go(p, IF "sock" \in su_ready[p] THEN "recv" ELSE "select") /\ su_cause' = su_cause
           /\ \E size \in SU!Sizes : SU!Deliver(p, SU!Destination(p), size)
           /\ su_sentto' = IF p = "client" THEN su_sentto \cup {<<SU!Destination(p), su_servaddr>>}
                           ELSE su_sentto
  <2>1. PICK place \in {"recv", "select"} : su_pc' = [su_pc EXCEPT ![p] = place]
    BY <1>5 DEF SU!Go
  <2>2. PICK size \in SU!Sizes : SU!Deliver(p, SU!Destination(p), size)
    BY <1>5
  <2>3. /\ su_cause' = su_cause
        /\ su_sentto' = IF p = "client" THEN su_sentto \cup {<<SU!Destination(p), su_servaddr>>}
                        ELSE su_sentto
    BY <1>5
  <2>4. size \in Nat /\ size # 0
    BY ToolsAssumption DEF SU!Sizes
  <2>5. PICK q : q = SU!Destination(p)
    OBVIOUS
  <2>6. q \in SU!Sides => p \in {SU!Peer(q), "other"}
    <3>1. CASE SU!Has(p, "o")
      <4>1. q = su_servaddr /\ p = "client" /\ su_servaddr \in {"unset", "server", "other"}
        BY <1>2, <2>5, <3>1, SuSame DEF SU!Destination, SU!Has, SuFixed
      <4> QED
        BY <4>1 DEF SU!Sides, SU!Peer
    <3>2. CASE ~SU!Has(p, "o")
      BY <2>5, <3>2, SuPeers DEF SU!Destination
    <3> QED
      BY <3>1, <3>2
  <2>7. \A d \in SuDatagrams : q \in SU!Sides /\ d.from = p /\ d.size = size =>
          SuQueued(q, d, SU!Connected(q), su_others')
    BY <2>4, <2>6 DEF SuQueued
  <2>8. SuNet(p)
    <3>1. p \in {"client", "server", "other"} /\ SU!Deliver(p, q, size) /\ size \in Nat
      BY <2>2, <2>4, <2>5, SuPeers
    <3>2. su_others' \in 0 .. MaxOther /\ su_others' <= su_others
      BY <1>1, SuSame
    <3> QED
      BY <2>6, <2>7, <3>1, <3>2, SuDelivers
  <2>9. SU!SentWhereNamed'
    <3>1. CASE su_sentto' = su_sentto
      BY <1>1, <3>1, SuSent
    <3>2. CASE p = "client" /\ su_sentto' = su_sentto \cup {<<q, su_servaddr>>}
      <4>1. q \in {"server", su_servaddr} /\ (q = "unset" => SU!Has("client", "o") /\ su_servaddr = "unset")
        BY <2>5, <3>2 DEF SU!Destination, SU!Peer
      <4> QED
        BY <1>1, <3>2, <4>1, SuSame DEF SU!SentWhereNamed, SU!Has
    <3> QED
      BY <2>3, <2>5, <3>1, <3>2
  <2>10. place \in SuPlaces /\ SuPlaced(p, su_opts[p], place) /\ SuPeeks(place, su_shown[p], su_queue'[p])
    BY <1>1, <1>2 DEF SuPlaces, SuPlaced, SuPeeks
  <2> QED
    BY <1>1, <2>1, <2>3, <2>8, <2>9, <2>10, SuSame, SuMoves
<1> QED
  BY <1>3, <1>4, <1>5, Zenon DEF SU!SendLine

LEMMA SuRefused == ASSUME SuInv, NEW p \in SU!Sides, SU!RecvError(p) PROVE SuInv'
<1>1. /\ su_pc[p] \in {"recv", "again"} /\ su_soerror[p] /\ SU!Exit(p, "refused")
      /\ su_soerror' = [su_soerror EXCEPT ![p] = FALSE]
      /\ su_opts' = su_opts /\ su_others' = su_others /\ su_queue' = su_queue
      /\ su_servaddr' = su_servaddr /\ su_shown' = su_shown /\ su_halfclosed' = su_halfclosed
      /\ su_sentto' = su_sentto
  BY Zenon DEF SU!RecvError
<1>2. su_soerror' \in [SU!Sides -> BOOLEAN] /\ \A x \in SU!Sides : su_soerror'[x] => su_soerror[x]
  BY <1>1, SuSame
<1>3. SuEnds(p, su_opts[p], "refused", su_pc[SU!Peer(p)], su_others)
  BY <1>1, SuSame DEF SuOne, SuFixed, SuPlaced, SuEnds
<1> QED
  BY <1>1, <1>2, <1>3, SuExits

LEMMA SuSources == ASSUME SuInv, NEW p \in SU!Sides, SU!Source(p) PROVE SuInv'
<1>1. /\ su_pc[p] = "source" /\ su_opts' = su_opts /\ su_others' = su_others
      /\ su_servaddr' = su_servaddr /\ su_shown' = su_shown /\ su_halfclosed' = su_halfclosed
  BY Zenon DEF SU!Source
<1>2. p = "client" /\ "i" \in su_opts[p] /\ SU!Peer(p) = "server"
  BY <1>1, SuSame DEF SuPlaced, SU!Peer
<1>3. SuPeeks(su_pc[p], su_shown[p], su_queue'[p])
  BY <1>1 DEF SuPeeks
<1>4. CASE su_soerror[p]
  <2>1. /\ su_soerror' = [su_soerror EXCEPT ![p] = FALSE] /\ su_queue' = su_queue
        /\ su_sentto' = su_sentto
        /\ (SU!Has(p, "W") /\ su_pc' = su_pc /\ su_cause' = su_cause)
             \/ (~SU!Has(p, "W") /\ SU!Exit(p, "write"))
    BY <1>4, Zenon DEF SU!Source
  <2>2. su_soerror' \in [SU!Sides -> BOOLEAN] /\ \A x \in SU!Sides : su_soerror'[x] => su_soerror[x]
    BY <2>1, SuSame
  <2>3. CASE SU!Has(p, "W") /\ su_pc' = su_pc /\ su_cause' = su_cause
    <3>1. SuNet(p)
      BY <1>1, <2>1, <2>2, SuQuiet
    <3> QED
      BY <1>1, <1>3, <2>1, <2>3, <3>1, SuSame, SuSent, SuMoves
  <2>4. CASE ~SU!Has(p, "W") /\ SU!Exit(p, "write")
    <3>1. SuEnds(p, su_opts[p], "write", su_pc[SU!Peer(p)], su_others)
      BY <1>4, <2>4, SuSame DEF SuOne, SuEnds, SU!Has
    <3> QED
      BY <1>1, <2>1, <2>2, <2>4, <3>1, SuExits
  <2> QED
    BY <2>1, <2>3, <2>4
<1>5. CASE ~su_soerror[p]
  <2>1. /\ SU!Deliver(p, "server", WriteLen) /\ su_pc' = su_pc /\ su_cause' = su_cause
        /\ su_sentto' = su_sentto \cup {<<"server", su_servaddr>>}
    BY <1>5, Zenon DEF SU!Source
  <2>2. WriteLen \in Nat /\ p = SU!Peer("server") /\ "server" \in SU!Sides
    BY <1>2, ToolsAssumption DEF SU!Peer, SU!Sides
  <2>3. \A d \in SuDatagrams : d.from = p /\ d.size = WriteLen =>
          SuQueued("server", d, SU!Connected("server"), su_others')
    BY <2>2 DEF SuQueued
  <2>4. SuNet(p)
    BY <1>1, <2>1, <2>2, <2>3, SuPeers, SuSame, SuDelivers
  <2>5. SU!SentWhereNamed'
    BY <1>1, <2>1, SuSame DEF SU!SentWhereNamed, SU!Has
  <2> QED
    BY <1>1, <1>3, <2>1, <2>4, <2>5, SuSame, SuMoves
<1> QED
  BY <1>4, <1>5

LEMMA SuSourceEnds == ASSUME SuInv, NEW p \in SU!Sides, SU!SourceEnds(p) PROVE SuInv'
<1>1. /\ SU!Exit(p, "done") /\ su_soerror' = su_soerror
      /\ su_opts' = su_opts /\ su_others' = su_others /\ su_queue' = su_queue
      /\ su_servaddr' = su_servaddr /\ su_shown' = su_shown /\ su_halfclosed' = su_halfclosed
      /\ su_sentto' = su_sentto
  BY Zenon DEF SU!SourceEnds
<1>2. SuEnds(p, su_opts[p], "done", su_pc[SU!Peer(p)], su_others)
  BY DEF SuEnds
<1> QED
  BY <1>1, <1>2, SuSame, SuExits

LEMMA SuOthers == ASSUME SuInv, NEW p \in SU!Sides, SU!Other(p) PROVE SuInv'
<1>1. /\ su_others > 0 /\ su_others' = su_others - 1 /\ ~SU!Connected(p)
      /\ su_opts' = su_opts /\ su_pc' = su_pc /\ su_servaddr' = su_servaddr
      /\ su_shown' = su_shown /\ su_sentto' = su_sentto /\ su_halfclosed' = su_halfclosed
      /\ su_cause' = su_cause
  BY Zenon DEF SU!Other
<1>2. PICK size \in SU!Sizes \cup {0} : SU!Deliver("other", p, size)
  BY Zenon DEF SU!Other
<1>3. size \in Nat
  BY ToolsAssumption DEF SU!Sizes
<1>4. su_others' \in 0 .. MaxOther /\ su_others' <= su_others /\ su_others' < MaxOther
  BY <1>1, SuSame, ToolsAssumption
<1>5. \A d \in SuDatagrams : d.from = "other" /\ d.size = size =>
        SuQueued(p, d, SU!Connected(p), su_others')
  BY <1>1, <1>4 DEF SuQueued
<1>6. SuNet(p) /\ SuPeeks(su_pc[p], su_shown[p], su_queue'[p])
  BY <1>2, <1>3, <1>4, <1>5, SuDelivers
<1>7. SuEnds(p, su_opts[p], su_cause[p], su_pc[SU!Peer(p)], su_others')
  BY <1>4, SuSame, SuLater
<1> QED
  BY <1>1, <1>4, <1>6, <1>7, SuSame, SuSent, SuMoves

LEMMA SuReceives == ASSUME SuInv, NEW p \in SU!Sides, SU!Recv(p) PROVE SuInv'
<1>1. /\ su_pc[p] \in {"recv", "again"} /\ su_queue[p] # <<>>
      /\ su_opts' = su_opts /\ su_others' = su_others /\ su_soerror' = su_soerror
      /\ su_sentto' = su_sentto /\ su_halfclosed' = su_halfclosed
  BY Zenon DEF SU!Recv
<1>2. PICK s \in Seq(SuDatagrams), m \in Nat : s = su_queue[p] /\ m = Len(s) /\ m # 0
                                              /\ DOMAIN s = 1 .. m
  <2>1. PICK s \in Seq(SuDatagrams) : s = su_queue[p] /\ s # <<>>
    BY <1>1, SuSame
  <2>2. Len(s) \in Nat /\ Len(s) # 0 /\ DOMAIN s = 1 .. Len(s)
    BY <2>1, EmptySeq, LenProperties
  <2> QED
    BY <2>1, <2>2
<1>3. PICK d \in SuDatagrams, t \in Seq(SuDatagrams) :
        /\ d = Head(s) /\ d = s[1] /\ t = Tail(s) /\ DOMAIN t = 1 .. m - 1
        /\ \A k \in 1 .. m - 1 : t[k] = s[k + 1]
  <2>1. s # <<>>
    BY <1>1, <1>2
  <2>2. /\ Head(s) \in SuDatagrams /\ Head(s) = s[1] /\ Tail(s) \in Seq(SuDatagrams)
        /\ Len(Tail(s)) = m - 1 /\ \A k \in 1 .. m - 1 : Tail(s)[k] = s[k + 1]
    BY <1>2, <2>1, HeadTailProperties
  <2>3. DOMAIN Tail(s) = 1 .. m - 1
    BY <2>2, LenProperties
  <2> QED
    BY <2>2, <2>3
<1>4. PICK peeks \in BOOLEAN, calls \in BOOLEAN, loops \in BOOLEAN :
        /\ peeks = SU!Peeks(p) /\ calls = SU!CallsRecv(p) /\ loops = SU!Loops(p)
        /\ loops <=> "i" \notin su_opts[p]
        /\ calls => ~loops \/ (p = "client" /\ SU!Connected(p))
  <2>1. SU!Loops(p) <=> "i" \notin su_opts[p]
    BY SuSame DEF SU!Loops, SU!Routine, SuFixed
  <2> QED
    BY <2>1 DEF SU!Peeks, SU!CallsRecv, SU!Loops
<1>5. /\ IF calls /\ d.size = 0
         THEN su_pc' = [su_pc EXCEPT ![p] = "exit"] /\ su_cause' = [su_cause EXCEPT ![p] = "closed"]
         ELSE /\ su_pc' = [su_pc EXCEPT ![p] = IF peeks THEN "again"
                                               ELSE IF loops THEN "select" ELSE "recv"]
              /\ su_cause' = su_cause
      /\ su_queue' = [su_queue EXCEPT ![p] = IF peeks THEN s ELSE t]
      /\ su_shown' = [su_shown EXCEPT ![p] = IF peeks THEN d ELSE SU!Nothing]
      /\ su_servaddr' = IF p = "client" /\ ~calls THEN d.from ELSE su_servaddr
  BY <1>2, <1>3, <1>4 DEF SU!Recv, SU!Exit, SU!Go
<1>6. \A k \in 1 .. m : SuQueued(p, s[k], SU!Connected(p), su_others)
  BY <1>2, SuSame DEF SuOne
<1>7. SuQueued(p, d, SU!Connected(p), su_others)
  <2>1. 1 \in 1 .. m
    BY <1>2
  <2> QED
    BY <1>3, <1>6, <2>1
<1>8. PICK u \in Seq(SuDatagrams) :
        /\ u = IF peeks THEN s ELSE t
        /\ \A k \in DOMAIN u : SuQueued(p, u[k], SU!Connected(p), su_others)
  <2>1. \A k \in 1 .. m - 1 : k + 1 \in 1 .. m
    BY <1>2
  <2>2. \A k \in DOMAIN t : SuQueued(p, t[k], SU!Connected(p), su_others)
    BY <1>3, <1>6, <2>1
  <2> QED
    BY <1>2, <1>6, <2>2
<1>9. PICK e \in SuDatagrams \cup {SU!Nothing} : e = IF peeks THEN d ELSE SU!Nothing
  OBVIOUS
<1>10. su_queue' = [su_queue EXCEPT ![p] = u] /\ su_shown' = [su_shown EXCEPT ![p] = e]
  BY <1>5, <1>8, <1>9
<1>11. SuNet(p) /\ su_queue'[p] = u
  <2>1. su_queue \in [SU!Sides -> Seq(SuDatagrams)]
    BY DEF SuInv, SuTypes
  <2>2. \A x \in SU!Sides : su_queue'[x] = IF x = p THEN u ELSE su_queue[x]
    BY <1>10, <2>1
  <2>3. su_queue' \in [SU!Sides -> Seq(SuDatagrams)]
    BY <1>10, <2>1
  <2>4. ASSUME NEW x \in SU!Sides
        PROVE  \A k \in DOMAIN su_queue'[x] :
                 SuQueued(x, su_queue'[x][k], SU!Connected(x), su_others')
    <3>1. SuOne(x)
      BY SuSame
    <3>2. CASE x = p
      BY <1>1, <1>8, <2>2, <3>2
    <3>3. CASE x # p
      BY <1>1, <2>2, <3>1, <3>3 DEF SuOne
    <3> QED
      BY <3>2, <3>3
  <2>5. \A x \in SU!Sides : su_soerror'[x] => SU!Connected(x) /\ su_pc[SU!Peer(x)] = "exit"
    BY <1>1, SuSame DEF SuOne
  <2>6. \A x \in SU!Sides : x # p => SuPeeks(su_pc[x], su_shown[x], su_queue'[x])
    BY <2>2, SuSame DEF SuOne
  <2>7. su_soerror' \in [SU!Sides -> BOOLEAN]
    BY <1>1, SuSame
  <2> QED
    BY <2>2, <2>3, <2>4, <2>5, <2>6, <2>7 DEF SuNet
<1>12. su_servaddr' \in {"unset", "server", "other"}
  <2>1. p = "client" => d.from \in {"server", "other"}
    BY <1>7 DEF SuQueued, SU!Peer
  <2> QED
    BY <1>5, <2>1, SuSame
<1>13. su_servaddr' = su_servaddr \/ su_pc["client"] # "exit"
  BY <1>1, <1>5
<1>14. CASE calls /\ d.size = 0
  <2>1. SuEnds(p, su_opts[p], "closed", su_pc[SU!Peer(p)], su_others')
    <3>1. "i" \in su_opts[p] => p = "server"
      BY <1>1, SuSame DEF SuPlaced
    <3> QED
      BY <1>1, <1>4, <1>7, <1>14, <3>1 DEF SuQueued, SuEnds
  <2>2. "exit" \in SuPlaces /\ SuPlaced(p, su_opts[p], "exit") /\ SuPeeks("exit", e, su_queue'[p])
    BY DEF SuPlaces, SuPlaced, SuPeeks
  <2> QED
    BY <1>1, <1>5, <1>10, <1>11, <1>12, <1>13, <1>14, <2>1, <2>2, SuSame, SuSent, SuMoves
<1>15. CASE ~(calls /\ d.size = 0)
  <2>1. PICK place : place = IF peeks THEN "again" ELSE IF loops THEN "select" ELSE "recv"
    OBVIOUS
  <2>2. place \in SuPlaces /\ place # "exit" /\ SuPlaced(p, su_opts[p], place)
    BY <1>1, <1>4, <2>1, SuSame DEF SuPlaces, SuPlaced
  <2>3. SuPeeks(place, e, u)
    BY <1>1, <1>2, <1>3, <1>8, <1>9, <2>1 DEF SuPeeks
  <2>4. su_pc' = [su_pc EXCEPT ![p] = place] /\ su_cause' = su_cause
    BY <1>5, <1>15, <2>1
  <2>5. SuPeeks(place, e, su_queue'[p])
    BY <1>11, <2>3
  <2>6. SuEnds(p, su_opts[p], su_cause[p], su_pc[SU!Peer(p)], su_others')
    BY <1>1, SuSame
  <2>7. su_pc[p] = "exit" => place = "exit"
    BY <1>1
  <2> QED
    BY <1>1, <1>10, <1>11, <1>12, <1>13, <2>2, <2>4, <2>5, <2>6, <2>7, SuSame, SuSent, SuMoves
<1> QED
  BY <1>14, <1>15

LEMMA SuStarts == ASSUME SU!Init PROVE SuInv
<1>1. /\ su_opts \in [SU!Sides -> SUBSET {"f", "h", "i", "o", "s", "u", "W", "Z"}]
      /\ \A p \in SU!Sides : /\ (p = "server") <=> SU!Has(p, "s")
                             /\ SU!Has(p, "u") /\ SU!MakesSense(su_opts[p])
                             /\ SU!Has(p, "f") => p = "server"
                             /\ SU!Has(p, "o") => p = "client"
                             /\ SU!Has(p, "W") => SU!Routine(su_opts[p]) = "source_udp"
      /\ su_pc = [p \in SU!Sides |-> IF SU!Routine(su_opts[p]) = "loop_udp" THEN "select"
                                     ELSE IF SU!Has(p, "s") THEN "recv" ELSE "source"]
      /\ su_others = MaxOther /\ su_queue = [p \in SU!Sides |-> <<>>]
      /\ su_soerror = [p \in SU!Sides |-> FALSE] /\ su_servaddr = "unset"
      /\ su_shown = [p \in SU!Sides |-> SU!Nothing] /\ su_sentto = {} /\ su_halfclosed = FALSE
      /\ su_cause = [p \in SU!Sides |-> "none"]
  BY Zenon DEF SU!Init
<1>2. ASSUME NEW p \in SU!Sides
      PROVE  /\ SuFixed(p, su_opts[p]) /\ SuPlaced(p, su_opts[p], su_pc[p])
             /\ su_pc[p] \in {"select", "recv", "source"}
  <2>1. SuFixed(p, su_opts[p])
    BY <1>1, SuPeers DEF SU!Has, SU!MakesSense, SU!Routine, SuFixed
  <2>2. su_pc[p] = IF SU!Routine(su_opts[p]) = "loop_udp" THEN "select"
                   ELSE IF SU!Has(p, "s") THEN "recv" ELSE "source"
    BY <1>1
  <2>3. SU!Routine(su_opts[p]) = "loop_udp" <=> "i" \notin su_opts[p]
    BY <2>1 DEF SU!Routine, SuFixed
  <2> QED
    BY <2>1, <2>2, <2>3, SuPeers DEF SuPlaced, SuFixed, SU!Has
<1>3. SuTypes
  <2>1. <<>> \in Seq(SuDatagrams) /\ MaxOther \in 0 .. MaxOther
    BY EmptySeq, ToolsAssumption
  <2>2. su_opts \in [SU!Sides -> SUBSET SU!Letters]
    BY <1>1 DEF SU!Letters, SU!LowerCase, SU!UpperCase
  <2>3. su_pc \in [SU!Sides -> SuPlaces]
    BY <1>1, <1>2 DEF SuPlaces
  <2> QED
    BY <1>1, <2>1, <2>2, <2>3 DEF SuTypes
<1>4. ASSUME NEW p \in SU!Sides PROVE SuOne(p)
  <2>1. /\ su_queue[p] = <<>> /\ su_soerror[p] = FALSE /\ su_cause[p] = "none"
    BY <1>1
  <2>2. SuPeeks(su_pc[p], su_shown[p], su_queue[p])
    BY <1>2 DEF SuPeeks
  <2>3. SuEnds(p, su_opts[p], "none", su_pc[SU!Peer(p)], su_others)
    BY DEF SuEnds
  <2> QED
    BY <1>2, <2>1, <2>2, <2>3 DEF SuOne
<1> QED
  BY <1>1, <1>3, <1>4 DEF SuInv, SU!SentWhereNamed, SuUnset, SU!Sides

LEMMA SuSteps == ASSUME SuInv, SU!Next PROVE SuInv'
<1>1. PICK p \in SU!Sides : SU!Step(p)
  BY Zenon DEF SU!Next
<1> QED
  BY <1>1, SuSelects, SuStdinEnds, SuLines, SuReceives, SuRefused, SuSources, SuSourceEnds,
     SuOthers, Zenon DEF SU!Step

LEMMA SuStays == ASSUME SuInv, UNCHANGED su_vars PROVE SuInv'
<1>1. /\ su_opts' = su_opts /\ su_pc' = su_pc /\ su_others' = su_others /\ su_queue' = su_queue
      /\ su_soerror' = su_soerror /\ su_servaddr' = su_servaddr /\ su_shown' = su_shown
      /\ su_sentto' = su_sentto /\ su_halfclosed' = su_halfclosed /\ su_cause' = su_cause
  BY DEF su_vars
<1>2. SuTypes'
  BY <1>1 DEF SuInv, SuTypes
<1>3. ASSUME NEW p \in SU!Sides PROVE SuOne(p)'
  BY <1>1, Zenon DEF SuInv, SuOne, SU!Connected, SU!Has
<1> QED
  BY <1>1, <1>2, <1>3, SuSent DEF SuInv, SuUnset

LEMMA SuNames == ASSUME SuInv PROVE SU!UdpAsNamed
<1>1. SU!PeekedIsNext
  BY DEF SuInv, SuOne, SuPeeks, SU!PeekedIsNext
<1>2. SU!EndsForAReason
  BY DEF SuInv, SuOne, SuEnds, SuUnset, SU!EndsForAReason, SU!Has, SU!Gone
<1> QED
  BY <1>1, <1>2 DEF SuInv, SU!UdpAsNamed

-----------------------------------------------------------------------------
(* Both                                                                      *)

\* sock's copy loops, for any buffers, options and data: over TCP what is read is
\* what was typed or generated, in order, through chunks, newline conversion, peeks
\* and resets, and end of file means all of it; over UDP datagrams go where the
\* command line names, a peeked one is read next, and each end has its reason
\* (looptcp.c, loopudp.c, source*.c, sink*.c, crlf.c, write.c).
THEOREM SockCopies == SumSpec => []CopiesAsAsked
<1>1. SumInit => StInv /\ SuInv
  BY StStarts, SuStarts DEF SumInit
<1>2. StInv /\ SuInv /\ [SumNext]_all => StInv' /\ SuInv'
  <2> SUFFICES ASSUME StInv, SuInv, [SumNext]_all PROVE StInv' /\ SuInv'
    OBVIOUS
  <2>1. CASE Daemoned
    BY <2>1, StStays, SuStays DEF Daemoned
  <2>2. CASE Opening
    BY <2>2, StStays, SuStays DEF Opening
  <2>3. CASE Tcp /\ ST!Next
    BY <2>3, StSteps, SuStays DEF Tcp
  <2>4. CASE Udp /\ SU!Next
    BY <2>4, StStays, SuSteps DEF Udp
  <2>5. CASE UNCHANGED all
    BY <2>5, StStays, SuStays DEF all
  <2> QED
    BY <2>1, <2>2, <2>3, <2>4, <2>5 DEF SumNext
<1>3. StInv /\ SuInv => CopiesAsAsked
  BY StCopies, SuNames DEF CopiesAsAsked
<1> QED
  BY <1>1, <1>2, <1>3, PTL DEF SumSpec
==============================================================================
