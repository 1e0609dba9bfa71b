-------------------------- MODULE MuxServer_proofs --------------------------
(* The echo servers with select and poll, for any number of connections,       *)
(* descriptors and slots: the tables agree, no read blocks, nready counts what *)
(* is left (Consistent), and what is echoed (EchoesInOrder).                   *)
EXTENDS MuxServer, FiniteSetTheorems, SequenceTheorems, TLAPS

\* The types that Consistent does not state.
Types ==
  /\ TypeOK
  /\ version \in Versions /\ backlog \in Seq(Clients) /\ revents \in SUBSET Slots
  /\ received \in [Clients -> Seq(Units)] /\ echoed \in [Clients -> Seq(Units)]

\* A connection is in the backlog or has one descriptor, never both.
ConnInv ==
  /\ \A n \in 1 .. Len(backlog) : state[backlog[n]] = "queued"
  /\ \A m, n \in 1 .. Len(backlog) : backlog[m] = backlog[n] => m = n
  /\ \A f \in Open : state[conn[f]] = "accepted"
  /\ \A f, g \in Open : conn[f] = conn[g] => f = g

\* The slots from i on that the loop would read.
Marked(G) == {t \in Slots \ G : i <= t /\ client[t] >= 0 /\ IsSet(t)}

\* Between select and accept nready counts the listening socket and the slots
\* marked; what is marked is readable, and a free slot up to maxi is not marked.
AcceptInv ==
  server = "accept" =>
    /\ i = 0 /\ nready = 1 + Cardinality(Marked({}))
    /\ ~Poll => rset \subseteq allset
    /\ \A t \in Marked({}) : Readable(client[t])
    /\ Poll => \A t \in revents : t <= maxi => client[t] >= 0

\* Whether the descriptor of slot t is as select or poll found it.
Untouched(t) == t > i \/ server = "scan" \/ (server = "read" /\ version # "select03")

\* In the loop nready counts the slots marked, but for a poll server's slot maxi,
\* whose revents is garbage when the slot has just been taken: as all others come
\* before it, nready is 0 when its turn comes.
LoopInv ==
  server \in {"scan", "read", "write"} =>
    /\ nready > 0
    /\ \E G \in SUBSET {maxi} :
         /\ ~Poll => G = {}
         /\ nready = Cardinality(Marked(G))
         /\ \A t \in Marked(G) : Untouched(t) => Readable(client[t])
         /\ server \in {"read", "write"} => i \in Marked(G)

\* A slot in use is not beyond maxi.
SlotInv == \A s \in Slots : client[s] >= 0 => s <= maxi

TableInv == TableConsistent /\ SlotInv /\ ConnInv

IInv == Types /\ TableInv /\ AcceptInv /\ LoopInv

-----------------------------------------------------------------------------
(* Lemmas                                                                    *)

\* The slot that is read is that of an accepted connection.
LEMMA AtClient ==
  ASSUME IInv, server \in {"read", "write"}
  PROVE  /\ i \in Slots /\ client[i] \in Fds /\ cli \in Clients
         /\ state[cli] = "accepted" /\ client[i] \in Open
<1>1. i \in Slots /\ client[i] >= 0
  BY DEF IInv, LoopInv, Marked
<1>2. client[i] \in Open
  BY <1>1 DEF IInv, TableInv, TableConsistent
<1>3. client[i] \in Fds /\ conn[client[i]] # None
  BY <1>2 DEF Open
<1>4. cli \in Clients
  BY <1>3 DEF cli, sockfd, IInv, Types, TypeOK
<1> QED
  BY <1>1, <1>2, <1>3, <1>4 DEF IInv, TableInv, ConnInv, cli, sockfd

\* The number of marked slots.
LEMMA SlotsFinite ==
  ASSUME NEW S \in SUBSET Slots
  PROVE  IsFiniteSet(S) /\ Cardinality(S) \in Nat
<1>1. IsFiniteSet(Slots)
  BY SizeAssumption, FS_Interval DEF Slots
<1> QED
  BY <1>1, FS_Subset, FS_CardinalityType

\* One descriptor per slot in use: there are not more than descriptors.
LEMMA SlotsPerFd ==
  ASSUME IInv, NEW S \in SUBSET Slots, \A s \in S : client[s] >= 0
  PROVE  IsFiniteSet(S) /\ Cardinality(S) \in 0 .. OpenMax
<1> DEFINE h == [s \in S |-> client[s]]
<1>1. \A s \in S : client[s] \in Open
  BY DEF IInv, TableInv, TableConsistent
<1>2. h \in [S -> Fds]
  BY <1>1 DEF Open
<1>3. h \in Injection(S, Fds)
  BY <1>2 DEF Injection, IsInjective, IInv, TableInv, TableConsistent
<1>4. IsFiniteSet(Fds) /\ Cardinality(Fds) = OpenMax
  BY SizeAssumption, FS_Interval DEF Fds
<1> HIDE DEF h
<1>5. IsFiniteSet(S) /\ Cardinality(S) <= OpenMax
  BY <1>3, <1>4, FS_Injection
<1> QED
  BY <1>5, SizeAssumption, FS_CardinalityType

-----------------------------------------------------------------------------
(* Types                                                                     *)

\* At the start nothing is connected.
LEMMA InitInv == Init => IInv
<1> SUFFICES ASSUME Init PROVE IInv
  OBVIOUS
<1> USE DEF Init
<1>1. Types
  BY SizeAssumption DEF Types, TypeOK, Fds, Slots, listenfd, Poll
<1>2. Open = {}
  BY DEF Open
<1>3. TableInv
  BY <1>2, SizeAssumption DEF TableInv, TableConsistent, SlotInv, ConnInv, Slots
<1> QED
  BY <1>1, <1>3 DEF IInv, AcceptInv, LoopInv

\* What the clients and the network do keeps every variable's type.
LEMMA TypesClient ==
  ASSUME Types, NEW c \in Clients, Connect(c) \/ Send(c) \/ Finish(c) \/ Reset(c)
  PROVE  Types'
<1> USE DEF table, loop, data, net
<1>1. CASE Connect(c)
  BY <1>1 DEF Connect, Types, TypeOK
<1>2. CASE Send(c)
  <2>1. nsent' \in [Clients -> Nat] /\ nsent'[c] \in Nat \ {0}
    BY <1>2 DEF Send, Types, TypeOK
  <2>2. [from |-> c, k |-> nsent'[c]] \in Units
    BY <2>1 DEF Units
  <2>3. received' \in [Clients -> Seq(Units)]
    BY <1>2, <2>2 DEF Send, Types
  <2> QED
    BY <1>2, <2>1, <2>3 DEF Send, Types, TypeOK
<1>3. CASE Finish(c)
  BY <1>3 DEF Finish, Types, TypeOK
<1>4. CASE Reset(c)
  <2>1. backlog' \in Seq(Clients)
    <3>1. CASE UNCHANGED backlog
      BY <3>1 DEF Types
    <3>2. CASE \E n \in 1 .. Len(backlog) : backlog' = RemoveAt(backlog, n)
      <4> PICK n \in 1 .. Len(backlog) : backlog' = RemoveAt(backlog, n)
        BY <3>2
      <4>1. SubSeq(backlog, 1, n - 1) \in Seq(Clients)
        BY DEF Types
      <4>2. SubSeq(backlog, n + 1, Len(backlog)) \in Seq(Clients)
        BY DEF Types
      <4> QED
        BY <4>1, <4>2 DEF RemoveAt
    <3> QED
      BY <1>4, <3>1, <3>2 DEF Reset
  <2>2. received' \in [Clients -> Seq(Units)]
    BY <1>4 DEF Reset, Types
  <2> QED
    BY <1>4, <2>1, <2>2 DEF Reset, Types, TypeOK
<1> QED
  BY <1>1, <1>2, <1>3, <1>4

\* nready when select or poll returns: the marked slots and the listening socket.
LEMMA SelectCounts ==
  ASSUME IInv, Select
  PROVE  /\ nready' = Cardinality(Marked({})') + (IF server' = "accept" THEN 1 ELSE 0)
         /\ Cardinality(Marked({})') \in 0 .. OpenMax /\ nready' > 0
<1> DEFINE M == Marked({})'
           R == rset' \ {listenfd}
           h == [s \in M |-> client[s]]
<1>1. /\ client' = client /\ conn' = conn /\ i' = 0 /\ version' = version /\ ~Poll
      /\ rset' = {f \in allset : f <= maxfd /\ Readable(f)}
      /\ nready' = Cardinality(rset')
      /\ server' = IF listenfd \in rset' THEN "accept" ELSE "scan"
  BY DEF Select, table, net
<1>2. M = {s \in Slots : client[s] >= 0 /\ client[s] \in rset'}
  BY <1>1 DEF Marked, IsSet, Poll, Slots
<1>3. \A s \in Slots : client[s] >= 0 => client[s] \in Open /\ client[s] # listenfd
  BY DEF IInv, TableInv, TableConsistent, Open, Fds, listenfd
<1>4. h \in [M -> R]
  BY <1>2, <1>3
<1>5. \A f \in R : \E s \in M : h[s] = f
  <2> TAKE f \in R
  <2>1. f \in Open
    BY <1>1 DEF IInv, TableInv, TableConsistent
  <2> PICK s \in Slots : client[s] = f
    BY <2>1 DEF IInv, TableInv, TableConsistent
  <2>2. client[s] >= 0
    BY <2>1 DEF Open, Fds
  <2> QED
    BY <2>2, <1>2
<1>6. \A s, t \in M : h[s] = h[t] => s = t
  BY <1>2 DEF IInv, TableInv, TableConsistent
<1>7. M \in SUBSET Slots /\ \A s \in M : client[s] >= 0
  BY <1>2
<1>8. IsFiniteSet(M) /\ Cardinality(M) \in 0 .. OpenMax
  BY <1>7, SlotsPerFd
<1>9. h \in Bijection(M, R)
  BY <1>4, <1>5, <1>6 DEF Bijection, Injection, Surjection, IsInjective
<1> HIDE DEF M, R, h
<1>10. IsFiniteSet(R) /\ Cardinality(R) = Cardinality(M)
  BY <1>8, <1>9, FS_Bijection DEF ExistsBijection
<1>11. CASE listenfd \in rset'
  <2>1. rset' = R \union {listenfd} /\ listenfd \notin R
    BY <1>11 DEF R
  <2>2. nready' = Cardinality(R) + 1 /\ server' = "accept"
    BY <2>1, <1>1, <1>10, <1>11, FS_AddElement
  <2> QED
    BY <2>2, <1>8, <1>10, SizeAssumption DEF M
<1>12. CASE listenfd \notin rset'
  <2>1. rset' = R /\ rset' # {}
    BY <1>12 DEF R, Select
  <2>2. Cardinality(R) # 0
    BY <2>1, <1>10, FS_EmptySet
  <2> QED
    BY <2>1, <2>2, <1>1, <1>8, <1>10, <1>12 DEF M
<1> QED
  BY <1>11, <1>12

LEMMA PollCounts ==
  ASSUME IInv, PollFds
  PROVE  /\ nready' = Cardinality(Marked({})') + (IF server' = "accept" THEN 1 ELSE 0)
         /\ Cardinality(Marked({})') \in 0 .. OpenMax
<1> DEFINE ready == {s \in Slots : s <= maxi /\ client[s] >= 0 /\ Readable(client[s])}
<1>1. /\ client' = client /\ i' = 0 /\ version' = version /\ Poll
      /\ revents' = ready \union {s \in revents : s > maxi}
      /\ nready' = Cardinality(ready) + (IF Readable(listenfd) THEN 1 ELSE 0)
      /\ server' = IF Readable(listenfd) THEN "accept" ELSE "scan"
  BY DEF PollFds, table, net
<1>2. Marked({})' = ready
  BY <1>1 DEF Marked, IsSet, Poll, Slots, IInv, TableInv, SlotInv, Types, TypeOK
<1>3. Cardinality(ready) \in 0 .. OpenMax
  BY SlotsPerFd
<1> HIDE DEF ready
<1> QED
  BY <1>1, <1>2, <1>3

\* nready is positive while a slot or the listening socket is to be served.
LEMMA NreadyPositive ==
  ASSUME IInv, server \in {"accept", "scan", "read", "write"}
  PROVE  nready \in 1 .. OpenMax + 1
<1>1. nready \in 0 .. OpenMax + 1
  BY DEF IInv, Types, TypeOK
<1>2. CASE server = "accept"
  <2>1. Cardinality(Marked({})) \in Nat
    BY SlotsFinite DEF Marked
  <2> QED
    BY <1>1, <1>2, <2>1, SizeAssumption DEF IInv, AcceptInv
<1>3. CASE server # "accept"
  BY <1>1, <1>3, SizeAssumption DEF IInv, LoopInv
<1> QED
  BY <1>2, <1>3

\* So is it after --nready, and the loop goes on only if more is left.
LEMMA NextSlotType ==
  ASSUME IInv, server \in {"accept", "scan", "read", "write"}, NEW n, NextSlot(n)
  PROVE  /\ nready' = nready - 1 /\ nready' \in 0 .. OpenMax + 1 /\ i' = n
         /\ server' \in {"select", "scan"}
         /\ server' = "scan" <=> nready' > 0
BY NreadyPositive, SizeAssumption DEF NextSlot

\* What the server does keeps every variable's type.
LEMMA TypesServer == IInv /\ ServerStep => Types'
<1> SUFFICES ASSUME IInv, ServerStep PROVE Types'
  OBVIOUS
<1> USE DEF table, loop, data, net
<1>t. Types
  BY DEF IInv
<1>1. CASE Select
  <2>1. nready' \in 0 .. OpenMax + 1
    BY <1>1, SelectCounts, SizeAssumption
  <2>2. rset' \subseteq Fds \union {listenfd} /\ i' \in 0 .. FD_SETSIZE
    BY <1>1, <1>t, SizeAssumption DEF Select, Types, TypeOK
  <2> QED
    BY <1>1, <1>t, <2>1, <2>2 DEF Select, Types, TypeOK
<1>2. CASE PollFds
  <2>1. nready' \in 0 .. OpenMax + 1
    BY <1>2, PollCounts, SizeAssumption
  <2>2. revents' \in SUBSET Slots /\ i' \in 0 .. FD_SETSIZE
    BY <1>2, <1>t, SizeAssumption DEF PollFds, Types
  <2> QED
    BY <1>2, <1>t, <2>1, <2>2 DEF PollFds, Types, TypeOK
<1>3. CASE AcceptClient
  <2> PICK connfd \in Fds, s \in Slots :
        /\ conn' = [conn EXCEPT ![connfd] = Head(backlog)]
        /\ client' = [client EXCEPT ![s] = connfd]
        /\ IF Poll THEN UNCHANGED <<allset, maxfd>>
           ELSE allset' = allset \union {connfd} /\ maxfd' = MaxFd(connfd)
        /\ maxi' = MaxI(s)
    BY <1>3 DEF AcceptClient
  <2>1. Head(backlog) \in Clients /\ Tail(backlog) \in Seq(Clients)
    BY <1>3, <1>t DEF AcceptClient, Types
  <2>2. nready' \in 0 .. OpenMax + 1 /\ i' = 0 /\ server' \in {"select", "scan"}
    BY <1>3, NextSlotType DEF AcceptClient
  <2>3. maxi' \in -1 .. FD_SETSIZE - 1 /\ maxfd' \in 0 .. OpenMax
    BY <1>t, SizeAssumption DEF MaxI, MaxFd, Types, TypeOK, Slots, Fds
  <2>4. allset' \subseteq Fds \union {listenfd}
    BY <1>t DEF Types, TypeOK
  <2>5. state' \in [Clients -> {"none", "queued", "accepted", "closed"}]
    BY <1>3, <1>t DEF AcceptClient, Types, TypeOK
  <2>6. UNCHANGED <<version, rset, revents, data, peer, received, nsent, echoed>>
    BY <1>3 DEF AcceptClient
  <2>7. conn' \in [Fds -> Clients \union {None}] /\ client' \in [Slots -> Fds \union {-1}]
    BY <1>t, <2>1 DEF Types, TypeOK
  <2>8. backlog' \in Seq(Clients) /\ 0 \in 0 .. FD_SETSIZE
    BY <1>3, <2>1, SizeAssumption DEF AcceptClient
  <2> QED
    BY <1>t, <2>2, <2>3, <2>4, <2>5, <2>6, <2>7, <2>8 DEF Types, TypeOK
<1>4. CASE AcceptFails \/ ResetByClient
  BY <1>4, <1>t DEF AcceptFails, ResetByClient, Exit, Types, TypeOK
<1>5. CASE Scan
  <2>1. i' \in 0 .. FD_SETSIZE
    BY <1>5, SizeAssumption DEF Scan, Slots
  <2> QED
    BY <1>5, <1>t, <2>1 DEF Scan, Types, TypeOK
<1>6. CASE ReadData
  <2>1. cli \in Clients
    BY <1>6, AtClient DEF ReadData
  <2>2. line' \in Seq(Units) /\ received' \in [Clients -> Seq(Units)]
    BY <1>6, <1>t, <2>1 DEF ReadData, Types
  <2> QED
    BY <1>6, <1>t, <2>2 DEF ReadData, Types, TypeOK
<1>7. CASE FillBuffer
  <2>1. cli \in Clients
    BY <1>7, AtClient DEF FillBuffer
  <2>2. read_buf' \in Seq(Units) /\ received' \in [Clients -> Seq(Units)]
    BY <1>7, <1>t, <2>1 DEF FillBuffer, Types
  <2> QED
    BY <1>7, <1>t, <2>2 DEF FillBuffer, Types, TypeOK
<1>8. CASE TakeUnit
  <2>1. line' \in Seq(Units) /\ read_buf' \in Seq(Units)
    BY <1>8, <1>t DEF TakeUnit, Types, TypeOK
  <2> QED
    BY <1>8, <1>t, <2>1 DEF TakeUnit, Types, TypeOK
<1>9. CASE PartialLine
  BY <1>9, <1>t DEF PartialLine, Types, TypeOK
<1>10. CASE CloseClient
  <2>1. i \in Slots
    BY <1>10, AtClient DEF CloseClient
  <2>2. nready' \in 0 .. OpenMax + 1 /\ i' = i + 1 /\ server' \in {"select", "scan"}
    BY <1>10, NextSlotType DEF CloseClient
  <2>3. conn' \in [Fds -> Clients \union {None}] /\ client' \in [Slots -> Fds \union {-1}]
    BY <1>10, <1>t DEF CloseClient, Types, TypeOK
  <2>4. allset' \subseteq Fds \union {listenfd}
    BY <1>10, <1>t DEF CloseClient, ClearSlot, Types, TypeOK
  <2>5. state' \in [Clients -> {"none", "queued", "accepted", "closed"}]
    BY <1>10, <1>t DEF CloseClient, Types, TypeOK
  <2>6. UNCHANGED <<rset, revents, maxi, maxfd, data, version, backlog, peer, received,
                    nsent, echoed>>
    BY <1>10 DEF CloseClient
  <2>7. i' \in 0 .. FD_SETSIZE
    BY <2>1, <2>2, SizeAssumption DEF Slots
  <2> QED
    BY <1>t, <2>2, <2>3, <2>4, <2>5, <2>6, <2>7 DEF Types, TypeOK
<1>11. CASE Write
  <2>1. i \in Slots /\ cli \in Clients
    BY <1>11, AtClient DEF Write
  <2>2. nready' \in 0 .. OpenMax + 1 /\ i' = i + 1 /\ server' \in {"select", "scan"}
    BY <1>11, NextSlotType DEF Write
  <2>3. echoed' \in [Clients -> Seq(Units)]
    BY <1>11, <1>t, <2>1 DEF Write, Echo, Types, TypeOK
  <2>4. line' = <<>> /\ UNCHANGED <<read_buf, table, rset, revents, net, received>>
    BY <1>11 DEF Write, Written
  <2>5. i' \in 0 .. FD_SETSIZE
    BY <2>1, <2>2, SizeAssumption DEF Slots
  <2> QED
    BY <1>t, <2>2, <2>3, <2>4, <2>5 DEF Types, TypeOK
<1> QED
  BY <1>1, <1>2, <1>3, <1>4, <1>5, <1>6, <1>7, <1>8, <1>9, <1>10, <1>11 DEF ServerStep

-----------------------------------------------------------------------------
(* The table                                                                 *)

\* What a sequence is without its n-th element.
LEMMA RemoveAtProperties ==
  ASSUME NEW S, NEW s \in Seq(S), NEW n \in 1 .. Len(s)
  PROVE  /\ Len(RemoveAt(s, n)) = Len(s) - 1
         /\ \A m \in 1 .. Len(s) - 1 :
              RemoveAt(s, n)[m] = IF m < n THEN s[m] ELSE s[m + 1]
<1> DEFINE a == SubSeq(s, 1, n - 1)
           b == SubSeq(s, n + 1, Len(s))
<1>1. a \in Seq(S) /\ Len(a) = n - 1 /\ \A m \in 1 .. n - 1 : a[m] = s[m]
  OBVIOUS
<1>2. b \in Seq(S) /\ Len(b) = Len(s) - n /\ \A m \in 1 .. Len(s) - n : b[m] = s[m + n]
  OBVIOUS
<1> HIDE DEF a, b
<1>3. /\ Len(a \o b) = Len(s) - 1
      /\ \A m \in 1 .. Len(s) - 1 : (a \o b)[m] = IF m < n THEN s[m] ELSE s[m + 1]
  <2>1. /\ Len(a \o b) = Len(a) + Len(b)
        /\ \A m \in 1 .. Len(a) + Len(b) :
             (a \o b)[m] = IF m <= Len(a) THEN a[m] ELSE b[m - Len(a)]
    BY <1>1, <1>2, ConcatProperties
  <2>2. Len(s) \in Nat
    OBVIOUS
  <2>3. ASSUME NEW m \in 1 .. Len(s) - 1
        PROVE  (a \o b)[m] = IF m < n THEN s[m] ELSE s[m + 1]
    <3>1. CASE m < n
      BY <1>1, <1>2, <2>1, <2>2, <3>1
    <3>2. CASE m >= n
      <4>1. (a \o b)[m] = b[m - (n - 1)] /\ m - (n - 1) \in 1 .. Len(s) - n
        BY <1>1, <1>2, <2>1, <2>2, <3>2
      <4>2. b[m - (n - 1)] = s[m - (n - 1) + n]
        BY <1>2, <4>1
      <4>3. m - (n - 1) + n = m + 1
        BY <2>2
      <4> QED
        BY <3>2, <4>1, <4>2, <4>3
    <3>3. m < n \/ m >= n
      BY <2>2
    <3> QED
      BY <3>1, <3>2, <3>3
  <2> QED
    BY <1>1, <1>2, <2>1, <2>2, <2>3
<1> QED
  BY <1>3 DEF RemoveAt, a, b

\* Clients and the network keep the table: a reset connection leaves the backlog.
LEMMA TableClient ==
  ASSUME IInv, NEW c \in Clients, Connect(c) \/ Send(c) \/ Finish(c) \/ Reset(c)
  PROVE  TableInv'
<1> USE DEF table, loop, data, net
<1>t. TableConsistent /\ SlotInv /\ ConnInv /\ Types
  BY DEF IInv, TableInv
<1>1. UNCHANGED <<table, version>>
  BY DEF Connect, Send, Finish, Reset
<1>2. TableConsistent' /\ SlotInv'
  BY <1>1, <1>t DEF TableConsistent, SlotInv, Poll, Open
<1>3. Open' = Open /\ conn' = conn
  BY <1>1 DEF Open
<1>4. CASE Connect(c)
  <2>1. /\ Len(backlog') = Len(backlog) + 1 /\ backlog'[Len(backlog) + 1] = c
        /\ \A n \in 1 .. Len(backlog) : backlog'[n] = backlog[n] /\ backlog[n] # c
    BY <1>4, <1>t DEF Connect, Types, ConnInv
  <2>2. state' = [state EXCEPT ![c] = "queued"] /\ state[c] = "none"
    BY <1>4 DEF Connect
  <2>3. \A d \in Clients : d # c => state'[d] = state[d]
    BY <2>2, <1>t DEF Types, TypeOK
  <2>4. \A f \in Open : conn[f] \in Clients
    BY <1>t DEF Open, Types, TypeOK
  <2>5. state'[c] = "queued"
    BY <2>2, <1>t DEF Types, TypeOK
  <2>6. \A n \in 1 .. Len(backlog) : backlog[n] \in Clients
    BY <1>t DEF Types
  <2>7. Len(backlog) \in Nat
    BY <1>t DEF Types
  <2>8. \A f \in Open : state'[conn[f]] = "accepted"
    BY <1>t, <2>2, <2>3, <2>4 DEF ConnInv
  <2>9. \A n \in 1 .. Len(backlog') : state'[backlog'[n]] = "queued"
    BY <1>t, <2>1, <2>3, <2>5, <2>6, <2>7 DEF ConnInv
  <2>10. \A m, n \in 1 .. Len(backlog') : backlog'[m] = backlog'[n] => m = n
    BY <1>t, <2>1, <2>7 DEF ConnInv
  <2> QED
    BY <1>t, <1>2, <1>3, <2>8, <2>9, <2>10 DEF TableInv, ConnInv
<1>5. CASE UNCHANGED <<backlog, state>>
  BY <1>5, <1>2, <1>3, <1>t DEF TableInv, ConnInv
<1>6. CASE Reset(c) /\ state[c] = "queued"
  <2> PICK n \in 1 .. Len(backlog) : backlog[n] = c /\ backlog' = RemoveAt(backlog, n)
    BY <1>6 DEF Reset
  <2>1. /\ Len(backlog') = Len(backlog) - 1
        /\ \A m \in 1 .. Len(backlog) - 1 :
             backlog'[m] = IF m < n THEN backlog[m] ELSE backlog[m + 1]
    BY <1>t, RemoveAtProperties DEF Types
  <2>2. state' = [state EXCEPT ![c] = "closed"]
    BY <1>6 DEF Reset
  <2>3. \A d \in Clients : d # c => state'[d] = state[d]
    BY <2>2, <1>t DEF Types, TypeOK
  <2>4. \A f \in Open : conn[f] \in Clients
    BY <1>t DEF Open, Types, TypeOK
  <2>5. Len(backlog) \in Nat /\ \A m \in 1 .. Len(backlog) : backlog[m] \in Clients
    BY <1>t DEF Types
  <2>6. \A m \in 1 .. Len(backlog') :
          backlog'[m] # c /\ state'[backlog'[m]] = "queued"
    BY <1>t, <2>1, <2>3, <2>5 DEF ConnInv
  <2>7. \A m, l \in 1 .. Len(backlog') : backlog'[m] = backlog'[l] => m = l
    BY <1>t, <2>1, <2>5 DEF ConnInv
  <2>8. \A f \in Open : state'[conn[f]] = "accepted"
    BY <1>6, <1>t, <2>3, <2>4 DEF ConnInv
  <2> QED
    BY <1>t, <1>2, <1>3, <2>6, <2>7, <2>8 DEF TableInv, ConnInv
<1> QED
  BY <1>4, <1>5, <1>6 DEF Send, Finish, Reset

\* accept: the new descriptor was free, and so was the slot.
LEMMA TableAccept ==
  ASSUME IInv, AcceptClient
  PROVE  TableInv'
<1> USE DEF table, loop, data, net
<1>t. TableConsistent /\ SlotInv /\ ConnInv /\ Types
  BY DEF IInv, TableInv
<1> PICK connfd \in Fds, s \in Slots :
      /\ connfd \in FreeFds /\ s \in FreeSlots
      /\ conn' = [conn EXCEPT ![connfd] = Head(backlog)]
      /\ client' = [client EXCEPT ![s] = connfd]
      /\ IF Poll THEN UNCHANGED <<allset, maxfd>>
         ELSE allset' = allset \union {connfd} /\ maxfd' = MaxFd(connfd)
      /\ maxi' = MaxI(s)
  BY DEF AcceptClient, Least
<1>1. /\ backlog # <<>> /\ state' = [state EXCEPT ![Head(backlog)] = "accepted"]
      /\ backlog' = Tail(backlog) /\ version' = version
  BY DEF AcceptClient
<1> DEFINE new == Head(backlog)
<1>2. /\ new \in Clients /\ new = backlog[1] /\ state[new] = "queued" /\ new # None
      /\ Len(backlog) \in Nat \ {0}
  BY <1>1, <1>t, NoneAssumption DEF Types, ConnInv
<1>3. /\ Len(backlog') = Len(backlog) - 1
      /\ \A n \in 1 .. Len(backlog) - 1 : backlog'[n] = backlog[n + 1]
  BY <1>1, <1>t DEF Types
<1>4. /\ conn'[connfd] = new /\ conn[connfd] = None
      /\ \A f \in Fds : f # connfd => conn'[f] = conn[f]
  BY <1>t DEF Types, TypeOK, FreeFds
<1>5. /\ client'[s] = connfd /\ client[s] = -1
      /\ \A t \in Slots : t # s => client'[t] = client[t]
  BY <1>t DEF Types, TypeOK, FreeSlots, Fds
<1>6. Open' = Open \union {connfd} /\ connfd \notin Open
  BY <1>2, <1>4 DEF Open
<1>7. maxi' >= maxi /\ maxi' >= s /\ maxi \in Int /\ maxi' \in Int /\ s \in Int
  BY <1>t DEF MaxI, Types, TypeOK, Slots
<1>8. \A t \in Slots : client[t] # connfd
  BY <1>6, <1>t DEF TableConsistent, Fds
<1>9. TableConsistent'
  <2>1. \A f \in Open' : \E t \in Slots : client'[t] = f /\ t <= maxi'
    <3> TAKE f \in Open'
    <3>1. CASE f = connfd
      BY <3>1, <1>5, <1>7
    <3>2. CASE f \in Open
      <4> PICK t \in Slots : client[t] = f /\ t <= maxi
        BY <3>2, <1>t DEF TableConsistent
      <4>1. client'[t] = f
        BY <3>2, <1>5, <1>6 DEF Open, Fds
      <4> QED
        BY <4>1, <1>7 DEF Slots
    <3> QED
      BY <3>1, <3>2, <1>6
  <2>2. \A t \in Slots : client'[t] >= 0 => client'[t] \in Open'
    BY <1>5, <1>6, <1>t DEF TableConsistent
  <2>3. \A t, u \in Slots : client'[t] = client'[u] /\ client'[t] >= 0 => t = u
    BY <1>5, <1>8, <1>t DEF TableConsistent
  <2>4. ~Poll => allset' = Open' \union {listenfd} /\ \A f \in Open' : f <= maxfd'
    <3> SUFFICES ASSUME ~Poll
                 PROVE  allset' = Open' \union {listenfd} /\ \A f \in Open' : f <= maxfd'
      OBVIOUS
    <3>1. allset' = Open' \union {listenfd}
      BY <1>6, <1>t DEF TableConsistent
    <3>2. \A f \in Open : f <= maxfd
      BY <1>t DEF TableConsistent
    <3> QED
      BY <3>1, <3>2, <1>6, <1>t DEF MaxFd, Types, TypeOK, Open, Fds
  <2> QED
    BY <1>1, <2>1, <2>2, <2>3, <2>4 DEF TableConsistent, Poll
<1>10. SlotInv'
  BY <1>5, <1>7, <1>t DEF SlotInv, Slots
<1>11. ConnInv'
  <2>1. \A f \in Open : conn[f] \in Clients /\ conn[f] # new /\ conn'[f] = conn[f]
    BY <1>2, <1>4, <1>6, <1>t DEF Open, Types, TypeOK, ConnInv
  <2>2. \A d \in Clients : state'[d] = IF d = new THEN "accepted" ELSE state[d]
    BY <1>1, <1>t DEF Types, TypeOK
  <2>3. \A n \in 1 .. Len(backlog) : backlog[n] \in Clients
    BY <1>t DEF Types
  <2>4. \A n \in 1 .. Len(backlog') : state'[backlog'[n]] = "queued"
    BY <1>2, <1>3, <1>t, <2>2, <2>3 DEF ConnInv
  <2>5. \A m, n \in 1 .. Len(backlog') : backlog'[m] = backlog'[n] => m = n
    BY <1>2, <1>3, <1>t DEF ConnInv
  <2>6. \A f \in Open' : state'[conn'[f]] = "accepted"
    BY <1>2, <1>4, <1>6, <1>t, <2>1, <2>2 DEF ConnInv
  <2>7. \A f, g \in Open' : conn'[f] = conn'[g] => f = g
    BY <1>4, <1>6, <1>t, <2>1 DEF ConnInv
  <2> QED
    BY <2>4, <2>5, <2>6, <2>7 DEF ConnInv
<1> QED
  BY <1>9, <1>10, <1>11 DEF TableInv

\* close: the descriptor leaves the table, the set and the open ones together.
LEMMA TableClose ==
  ASSUME IInv, CloseClient
  PROVE  TableInv'
<1> USE DEF table, loop, data, net
<1>t. TableConsistent /\ SlotInv /\ ConnInv /\ Types
  BY DEF IInv, TableInv
<1> DEFINE fd == client[i]
<1>1. i \in Slots /\ fd \in Fds /\ fd \in Open /\ cli \in Clients /\ cli = conn[fd]
      /\ state[cli] = "accepted"
  BY AtClient DEF CloseClient, cli, sockfd
<1>2. /\ conn' = [conn EXCEPT ![fd] = None] /\ client' = [client EXCEPT ![i] = -1]
      /\ state' = [state EXCEPT ![cli] = "closed"]
      /\ IF Poll THEN UNCHANGED allset ELSE allset' = allset \ {fd}
      /\ UNCHANGED <<maxi, maxfd, version, backlog>>
  BY DEF CloseClient, ClearSlot, sockfd
<1>3. conn'[fd] = None /\ \A f \in Fds : f # fd => conn'[f] = conn[f]
  BY <1>1, <1>2, <1>t DEF Types, TypeOK
<1>4. client'[i] = -1 /\ \A t \in Slots : t # i => client'[t] = client[t]
  BY <1>1, <1>2, <1>t DEF Types, TypeOK
<1>5. Open' = Open \ {fd}
  BY <1>1, <1>3 DEF Open
<1>6. \A t \in Slots : client[t] = fd => t = i
  BY <1>1, <1>t DEF TableConsistent, Fds
<1>7. TableConsistent'
  <2>1. \A f \in Open' : \E t \in Slots : client'[t] = f /\ t <= maxi'
    BY <1>2, <1>4, <1>5, <1>6, <1>t DEF TableConsistent
  <2>2. \A t \in Slots : client'[t] >= 0 => client'[t] \in Open'
    BY <1>4, <1>5, <1>6, <1>t DEF TableConsistent
  <2>3. \A t, u \in Slots : client'[t] = client'[u] /\ client'[t] >= 0 => t = u
    BY <1>4, <1>t DEF TableConsistent
  <2>4. ~Poll => allset' = Open' \union {listenfd} /\ \A f \in Open' : f <= maxfd'
    BY <1>1, <1>2, <1>5, <1>t DEF TableConsistent, listenfd, Fds
  <2> QED
    BY <1>2, <2>1, <2>2, <2>3, <2>4 DEF TableConsistent, Poll
<1>8. SlotInv'
  BY <1>2, <1>4, <1>t DEF SlotInv
<1>9. ConnInv'
  <2>1. \A f \in Open' : conn'[f] = conn[f] /\ conn[f] # cli /\ conn[f] \in Clients
    BY <1>1, <1>3, <1>5, <1>t DEF ConnInv, Open, Types, TypeOK
  <2>2. \A d \in Clients : d # cli => state'[d] = state[d]
    BY <1>2, <1>t DEF Types, TypeOK
  <2>3. \A n \in 1 .. Len(backlog) : backlog[n] \in Clients /\ backlog[n] # cli
    BY <1>1, <1>t DEF Types, ConnInv
  <2> QED
    BY <1>2, <1>5, <1>t, <2>1, <2>2, <2>3 DEF ConnInv
<1> QED
  BY <1>7, <1>8, <1>9 DEF TableInv

\* No other step of the server touches the table or the backlog.
LEMMA TableServer ==
  ASSUME IInv, ServerStep
  PROVE  TableInv'
<1> USE DEF table, loop, data, net
<1>1. CASE UNCHANGED <<table, version, backlog, state>>
  BY <1>1 DEF IInv, TableInv, TableConsistent, SlotInv, ConnInv, Poll, Open
<1>2. AcceptClient \/ CloseClient \/ UNCHANGED <<table, version, backlog, state>>
  BY DEF ServerStep, Select, PollFds, AcceptFails, Scan, ReadData, FillBuffer, TakeUnit,
         PartialLine, Write, ResetByClient, Exit
<1> QED
  BY <1>1, <1>2, TableAccept, TableClose

-----------------------------------------------------------------------------
(* The loop                                                                  *)

\* Clients and the network never make a readable descriptor block.
LEMMA LoopClient ==
  ASSUME IInv, NEW c \in Clients, Connect(c) \/ Send(c) \/ Finish(c) \/ Reset(c)
  PROVE  AcceptInv' /\ LoopInv'
<1> USE DEF table, loop, data, net
<1>t. Types
  BY DEF IInv
<1>1. UNCHANGED <<server, table, loop, version>>
  BY DEF Connect, Send, Finish, Reset
<1>2. ASSUME NEW t \in Slots, client[t] >= 0, Readable(client[t])
      PROVE  Readable(client[t])'
  <2> DEFINE d == conn[client[t]]
  <2>1. client[t] # listenfd /\ d # None /\ (received[d] # <<>> \/ peer[d] # "open")
    BY <1>2, <1>t DEF Readable, listenfd, Types, TypeOK, Fds
  <2>2. d \in Clients /\ conn' = conn /\ client' = client
    BY <1>1, <1>2, <2>1, <1>t DEF Types, TypeOK, Fds
  <2>3. received'[d] # <<>> \/ peer'[d] # "open"
    <3>1. CASE Connect(c)
      BY <2>1, <3>1 DEF Connect
    <3>2. CASE Send(c)
      <4> DEFINE u == [from |-> c, k |-> nsent'[c]]
      <4>1. received[c] \in Seq(Units) /\ received' = [received EXCEPT ![c] = Append(@, u)]
        BY <3>2, <1>t DEF Send, Types
      <4>2. Append(received[c], u) # <<>>
        BY <4>1
      <4>3. peer' = peer
        BY <3>2 DEF Send
      <4> QED
        BY <2>1, <2>2, <4>1, <4>2, <4>3, <1>t DEF Types
    <3>3. CASE Finish(c)
      BY <2>1, <2>2, <3>3, <1>t DEF Finish, Types, TypeOK
    <3>4. CASE Reset(c)
      BY <2>1, <2>2, <3>4, <1>t DEF Reset, Types, TypeOK
    <3> QED
      BY <3>1, <3>2, <3>3, <3>4
  <2> QED
    BY <2>1, <2>2, <2>3 DEF Readable
<1>3. \A G : Marked(G)' = Marked(G)
  BY <1>1 DEF Marked, IsSet, Poll
<1>4. \A G : \A t \in Marked(G) : Readable(client[t]) => Readable(client[t])'
  BY <1>2 DEF Marked
<1>5. AcceptInv'
  BY <1>1, <1>3, <1>4 DEF IInv, AcceptInv, Poll
<1>6. LoopInv'
  BY <1>1, <1>3, <1>4 DEF IInv, LoopInv, Poll, Untouched
<1> QED
  BY <1>5, <1>6

\* What select and poll find is readable when they return.
LEMMA LoopSelect ==
  ASSUME IInv, Select \/ PollFds
  PROVE  AcceptInv' /\ LoopInv'
<1> USE DEF table, loop, data, net
<1>1. /\ UNCHANGED <<client, conn, backlog, received, peer, maxi, version>> /\ i' = 0
      /\ server' \in {"accept", "scan"}
  BY DEF Select, PollFds
<1>2. \A f : Readable(f)' <=> Readable(f)
  BY <1>1 DEF Readable
<1>3. /\ nready' = Cardinality(Marked({})') + (IF server' = "accept" THEN 1 ELSE 0)
      /\ nready' > 0 /\ Cardinality(Marked({})') \in Nat
  <2>1. CASE Select
    BY <2>1, SelectCounts
  <2>2. CASE PollFds
    BY <2>2, PollCounts DEF PollFds
  <2> QED
    BY <2>1, <2>2
<1>4. /\ \A t \in Marked({})' : Readable(client[t])
      /\ ~Poll => rset' \subseteq allset'
      /\ Poll => \A t \in revents' : t <= maxi => client[t] >= 0
  <2>1. CASE Select
    <3>1. ~Poll /\ rset' \subseteq allset /\ allset' = allset
          /\ \A f \in rset' : Readable(f)
      BY <2>1 DEF Select
    <3> QED
      BY <1>1, <3>1 DEF Marked, IsSet, Poll
  <2>2. CASE PollFds
    <3> DEFINE ready == {s \in Slots : s <= maxi /\ client[s] >= 0 /\ Readable(client[s])}
    <3>1. Poll /\ revents' = ready \union {s \in revents : s > maxi}
      BY <2>2 DEF PollFds
    <3>2. \A t \in revents' : t <= maxi => t \in ready
      BY <3>1 DEF IInv, Types, TypeOK, Slots
    <3>3. \A t \in Marked({})' : t \in revents' /\ t <= maxi
      BY <1>1, <3>1 DEF Marked, IsSet, Poll, IInv, TableInv, SlotInv
    <3> QED
      BY <3>1, <3>2, <3>3
  <2> QED
    BY <2>1, <2>2
<1>5. /\ \A t \in Marked({})' : Readable(client[t])'
      /\ Poll' <=> Poll
  BY <1>1, <1>2, <1>4 DEF Poll
<1>6. AcceptInv'
  BY <1>1, <1>3, <1>4, <1>5 DEF AcceptInv
<1>7. LoopInv'
  <2>1. {} \in SUBSET {maxi'}
    OBVIOUS
  <2> QED
    BY <1>1, <1>3, <1>5, <2>1 DEF LoopInv
<1> QED
  BY <1>6, <1>7

\* accept: the slot taken is not marked, or it is a poll server's new maxi.
LEMMA LoopAccept ==
  ASSUME IInv, AcceptClient
  PROVE  AcceptInv' /\ LoopInv'
<1> USE DEF table, loop, data, net
<1>t. TableConsistent /\ SlotInv /\ Types /\ AcceptInv /\ server = "accept"
  BY DEF IInv, TableInv, AcceptClient
<1> PICK connfd \in Fds, s \in Slots :
      /\ connfd \in FreeFds /\ s \in FreeSlots
      /\ conn' = [conn EXCEPT ![connfd] = Head(backlog)]
      /\ client' = [client EXCEPT ![s] = connfd]
      /\ maxi' = MaxI(s)
  BY DEF AcceptClient, Least
<1>1. /\ NextSlot(0)
      /\ UNCHANGED <<version, rset, revents, peer, received>>
  BY DEF AcceptClient
<1>2. /\ nready' = nready - 1 /\ i' = 0 /\ server' \in {"select", "scan"}
      /\ server' = "scan" => nready' > 0
  BY <1>1, <1>t, NextSlotType
<1> SUFFICES ASSUME server' = "scan" PROVE LoopInv'
  BY <1>2 DEF AcceptInv, LoopInv
<1>3. connfd \notin Open /\ client[s] = -1 /\ client'[s] = connfd
      /\ \A t \in Slots : t # s => client'[t] = client[t]
  BY <1>t DEF FreeFds, FreeSlots, Open, Types, TypeOK, Fds
<1>4. Poll /\ s \in revents => s > maxi /\ maxi' = s
  <2> SUFFICES ASSUME Poll, s \in revents PROVE s > maxi /\ maxi' = s
    OBVIOUS
  <2>1. ~(s <= maxi)
    BY <1>3, <1>t DEF AcceptInv, Slots
  <2> QED
    BY <2>1, <1>t DEF MaxI, Slots, Types, TypeOK
<1> PICK G : G = IF Poll /\ s \in revents THEN {s} ELSE {}
  OBVIOUS
<1>5. Marked(G)' = Marked({})
  <2>1. ~Poll => connfd \notin rset
    BY <1>3, <1>t DEF TableConsistent, AcceptInv, listenfd, Fds
  <2>2. Poll' = Poll
    BY <1>1 DEF Poll
  <2>3. s \notin Marked({}) /\ s \notin Marked(G)'
    BY <1>1, <1>3, <2>1, <2>2 DEF Marked, IsSet
  <2>4. ASSUME NEW t \in Slots, t # s PROVE t \in Marked(G)' <=> t \in Marked({})
    BY <1>1, <1>2, <1>3, <1>t, <2>2, <2>4 DEF Marked, IsSet, AcceptInv
  <2> QED
    BY <2>3, <2>4 DEF Marked
<1>6. nready' = Cardinality(Marked(G)')
  <2>1. Cardinality(Marked({})) \in Nat
    BY SlotsFinite DEF Marked
  <2> QED
    BY <1>2, <1>5, <1>t, <2>1 DEF AcceptInv
<1>7. \A t \in Marked(G)' : Readable(client[t])'
  <2> TAKE t \in Marked(G)'
  <2>1. t \in Slots /\ t # s /\ client[t] >= 0 /\ Readable(client[t])
    BY <1>3, <1>5, <1>t DEF Marked, AcceptInv
  <2>2. client'[t] = client[t] /\ client[t] # connfd /\ client[t] \in Fds
    BY <1>3, <1>t, <2>1 DEF TableConsistent, Open
  <2>3. conn'[client[t]] = conn[client[t]] /\ client[t] # listenfd
    BY <1>t, <2>2 DEF Types, TypeOK, Fds, listenfd
  <2> QED
    BY <1>1, <2>1, <2>2, <2>3 DEF Readable
<1>8. (~Poll => G = {}) /\ G \in SUBSET {maxi'} /\ Poll' = Poll
  BY <1>1, <1>4 DEF Poll
<1> QED
  BY <1>2, <1>6, <1>7, <1>8 DEF LoopInv

\* The next slot that is read is the lowest one marked.
LEMMA LoopScan ==
  ASSUME IInv, Scan
  PROVE  AcceptInv' /\ LoopInv'
<1> USE DEF table, loop, data, net
<1>t. TableConsistent /\ SlotInv /\ Types /\ server = "scan"
  BY DEF IInv, TableInv, Scan
<1>1. UNCHANGED <<client, conn, maxi, version, rset, revents, nready, received, peer, backlog>>
  BY DEF Scan
<1> DEFINE ready == {s \in i .. LastSlot : client[s] >= 0 /\ IsSet(s)}
<1>2. \/ server' = "select"
      \/ server' = "read" /\ i' \in Slots /\ i' \in ready /\ \A m \in ready : i' <= m
  BY DEF Scan, Least
<1> SUFFICES ASSUME server' = "read" PROVE LoopInv'
  BY <1>2 DEF AcceptInv, LoopInv
<1> PICK G \in SUBSET {maxi} :
      /\ ~Poll => G = {}
      /\ nready = Cardinality(Marked(G)) /\ nready > 0
      /\ \A t \in Marked(G) : Readable(client[t])
  BY <1>t DEF IInv, LoopInv, Untouched
<1>3. \A t \in Marked(G) : t \in Slots /\ i <= t /\ t <= maxi /\ client[t] >= 0 /\ IsSet(t)
  BY <1>t DEF Marked, SlotInv
<1>4. maxi \in Int /\ i \in Int /\ (LastSlot = maxi \/ LastSlot = maxi - 1)
  BY <1>t DEF LastSlot, Types, TypeOK
<1>5. i' \in Slots /\ i <= i' /\ i' <= LastSlot /\ client[i'] >= 0 /\ IsSet(i')
  BY <1>2, <1>4
<1>6. i' \notin G
  <2> SUFFICES ASSUME i' \in G PROVE FALSE
    OBVIOUS
  <2>1. i' = maxi /\ G = {maxi}
    OBVIOUS
  <2>2. ASSUME NEW t \in Marked(G) PROVE FALSE
    <3>1. t # maxi /\ t \in i .. LastSlot
      BY <1>3, <1>4, <2>1 DEF Marked, Slots
    <3>2. i' <= t
      BY <1>2, <1>3, <3>1
    <3> QED
      BY <1>3, <1>4, <2>1, <3>1, <3>2 DEF Slots
  <2>3. Marked(G) = {}
    BY <2>2
  <2> QED
    BY <2>3, FS_EmptySet
<1>7. \A t \in Marked(G) : i' <= t
  <2> TAKE t \in Marked(G)
  <2>1. CASE t <= LastSlot
    BY <1>2, <1>3, <1>4, <2>1 DEF Slots
  <2>2. CASE LastSlot < t
    BY <1>3, <1>4, <1>5, <2>2 DEF Slots
  <2> QED
    BY <1>3, <1>4, <2>1, <2>2 DEF Slots
<1>8. Poll' = Poll /\ \A t : IsSet(t)' <=> IsSet(t)
  BY <1>1 DEF IsSet, Poll
<1>9. Marked(G)' = Marked(G)
  <2>1. \A t \in Slots : t \in Marked(G)' <=> t \in Marked(G)
    BY <1>1, <1>4, <1>5, <1>7, <1>8 DEF Marked, Slots
  <2> QED
    BY <2>1 DEF Marked
<1>10. i' \in Marked(G)'
  BY <1>1, <1>5, <1>6, <1>8 DEF Marked, Slots
<1>11. \A t \in Marked(G)' : Readable(client[t])'
  BY <1>1, <1>9 DEF Readable
<1> QED
  BY <1>1, <1>8, <1>9, <1>10, <1>11 DEF LoopInv

\* While a slot is read and written, the descriptors of the others stay readable.
LEMMA LoopStay ==
  ASSUME IInv, server \in {"read", "write"}, server' \in {"read", "write"},
         UNCHANGED <<table, loop, version>>,
         \A t \in Slots : Untouched(t)' => Untouched(t),
         \A t \in Slots : Untouched(t)' /\ client[t] >= 0 /\ Readable(client[t]) =>
                            Readable(client[t])'
  PROVE  AcceptInv' /\ LoopInv'
<1> USE DEF table, loop
<1> PICK G \in SUBSET {maxi} :
      /\ ~Poll => G = {}
      /\ nready = Cardinality(Marked(G)) /\ nready > 0 /\ i \in Marked(G)
      /\ \A t \in Marked(G) : Untouched(t) => Readable(client[t])
  BY DEF IInv, LoopInv
<1>1. Marked(G)' = Marked(G) /\ Poll' = Poll
  BY DEF Marked, IsSet, Poll
<1>2. \A t \in Marked(G) : Untouched(t)' => Readable(client[t])'
  BY DEF Marked
<1> QED
  BY <1>1, <1>2 DEF AcceptInv, LoopInv

\* The slot that was read is no longer among the marked ones.
LEMMA LoopAdvance ==
  ASSUME IInv, server \in {"read", "write"}, NextSlot(i + 1),
         UNCHANGED <<maxi, version, rset, revents>>,
         \A t \in Slots : t > i /\ client[t] >= 0 =>
           client'[t] = client[t] /\ (Readable(client[t]) => Readable(client[t])'),
         \A t \in Slots : t > i /\ client'[t] >= 0 => client'[t] = client[t]
  PROVE  AcceptInv' /\ LoopInv'
<1>1. /\ nready' = nready - 1 /\ i' = i + 1 /\ server' \in {"select", "scan"}
      /\ server' = "scan" => nready' > 0
  BY NextSlotType
<1> SUFFICES ASSUME server' = "scan" PROVE LoopInv'
  BY <1>1 DEF AcceptInv, LoopInv
<1> PICK G \in SUBSET {maxi} :
      /\ ~Poll => G = {}
      /\ nready = Cardinality(Marked(G)) /\ i \in Marked(G)
      /\ \A t \in Marked(G) : Untouched(t) => Readable(client[t])
  BY DEF IInv, LoopInv
<1>2. i \in Slots /\ i \in Int /\ Poll' = Poll
  BY DEF Marked, Slots, Poll
<1>3. Marked(G)' = Marked(G) \ {i}
  <2>1. ASSUME NEW t \in Slots PROVE t \in Marked(G)' <=> t \in Marked(G) /\ t # i
    <3>1. i' <= t <=> i <= t /\ t # i
      BY <1>1, <1>2 DEF Slots
    <3>2. i <= t /\ t # i => t > i
      BY <1>2 DEF Slots
    <3> QED
      BY <1>2, <3>1, <3>2 DEF Marked, IsSet
  <2> QED
    BY <2>1 DEF Marked
<1>4. nready' = Cardinality(Marked(G)')
  <2>1. IsFiniteSet(Marked(G))
    BY SlotsFinite DEF Marked
  <2> QED
    BY <1>1, <1>3, <2>1, FS_RemoveElement
<1>5. \A t \in Marked(G)' : Readable(client[t])'
  <2> TAKE t \in Marked(G)'
  <2>1. t \in Slots /\ t \in Marked(G) /\ t > i /\ client[t] >= 0
    BY <1>2, <1>3 DEF Marked, Slots
  <2>2. client'[t] = client[t] /\ Readable(client[t])
    BY <2>1 DEF Untouched
  <2> QED
    BY <2>1, <2>2
<1> QED
  BY <1>1, <1>2, <1>4, <1>5 DEF LoopInv

\* Different slots in use have different connections.
LEMMA OtherConnection ==
  ASSUME IInv, server \in {"read", "write"}, NEW t \in Slots, t # i, client[t] >= 0
  PROVE  /\ client[t] \in Fds /\ client[t] # client[i] /\ client[t] # listenfd
         /\ conn[client[t]] \in Clients /\ conn[client[t]] # cli
<1>1. i \in Slots /\ client[i] \in Open /\ client[i] \in Fds
  BY AtClient
<1>2. client[t] \in Open /\ client[t] # client[i]
  BY <1>1 DEF IInv, TableInv, TableConsistent, Open, Fds
<1> QED
  BY <1>1, <1>2 DEF IInv, TableInv, ConnInv, Types, TypeOK, cli, sockfd, Open, Fds, listenfd

\* Every step of the server keeps what is said of the loop.
LEMMA LoopServer ==
  ASSUME IInv, ServerStep
  PROVE  AcceptInv' /\ LoopInv'
<1> USE DEF table, loop, data, net
<1>t. Types
  BY DEF IInv
<1>1. CASE Select \/ PollFds
  BY <1>1, LoopSelect
<1>2. CASE AcceptClient
  BY <1>2, LoopAccept
<1>3. CASE AcceptFails \/ ResetByClient
  BY <1>3 DEF AcceptFails, ResetByClient, Exit, AcceptInv, LoopInv
<1>4. CASE Scan
  BY <1>4, LoopScan
<1>5. CASE ReadData \/ FillBuffer
  <2>1. /\ server = "read" /\ server' \in {"read", "write"}
        /\ UNCHANGED <<table, loop, version, peer, backlog>>
        /\ received' = [received EXCEPT ![cli] = <<>>]
        /\ ~Untouched(i)'
    BY <1>5, <1>t DEF ReadData, FillBuffer, Untouched, Types, TypeOK
  <2>2. ASSUME NEW t \in Slots, t # i, client[t] >= 0, Readable(client[t])
        PROVE  Readable(client[t])'
    <3>1. /\ conn[client[t]] \in Clients /\ conn[client[t]] # cli
          /\ client[t] # listenfd
      BY <2>1, <2>2, OtherConnection
    <3>2. received'[conn[client[t]]] = received[conn[client[t]]]
      BY <2>1, <3>1, <1>t DEF Types
    <3> QED
      BY <2>1, <2>2, <3>1, <3>2 DEF Readable
  <2>3. \A t \in Slots : Untouched(t)' => Untouched(t) /\ t # i
    BY <2>1 DEF Untouched
  <2> QED
    BY <2>1, <2>2, <2>3, LoopStay
<1>6. CASE TakeUnit \/ PartialLine
  <2>1. /\ server = "read" /\ server' \in {"read", "write"}
        /\ UNCHANGED <<table, loop, version, peer, backlog, received>>
    BY <1>6 DEF TakeUnit, PartialLine
  <2>2. \A f : Readable(f)' <=> Readable(f)
    BY <2>1 DEF Readable
  <2>3. \A t \in Slots : Untouched(t)' => Untouched(t)
    BY <2>1 DEF Untouched
  <2> QED
    BY <2>1, <2>2, <2>3, LoopStay
<1>7. CASE CloseClient
  <2>1. /\ server = "read" /\ NextSlot(i + 1)
        /\ UNCHANGED <<maxi, version, rset, revents, peer, backlog, received>>
        /\ conn' = [conn EXCEPT ![client[i]] = None]
        /\ client' = [client EXCEPT ![i] = -1]
    BY <1>7 DEF CloseClient, sockfd
  <2>2. \A t \in Slots : t # i => client'[t] = client[t]
    BY <2>1, <1>t DEF Types, TypeOK
  <2>3. ASSUME NEW t \in Slots, t # i, client[t] >= 0, Readable(client[t])
        PROVE  Readable(client[t])'
    <3>1. client[t] \in Fds /\ client[t] # client[i]
      BY <2>1, <2>3, OtherConnection
    <3>2. conn'[client[t]] = conn[client[t]]
      BY <2>1, <3>1, <1>t DEF Types, TypeOK
    <3> QED
      BY <2>1, <2>2, <2>3, <3>2 DEF Readable
  <2>4. \A t \in Slots : t > i => t # i
    BY <1>t DEF Types, TypeOK, Slots
  <2> QED
    BY <2>1, <2>2, <2>3, <2>4, LoopAdvance
<1>8. CASE Write
  <2>1. /\ server = "write" /\ NextSlot(i + 1)
        /\ UNCHANGED <<table, version, rset, revents, peer, backlog, received>>
    BY <1>8 DEF Write
  <2>2. \A f : Readable(f)' <=> Readable(f)
    BY <2>1 DEF Readable
  <2> QED
    BY <2>1, <2>2, LoopAdvance
<1> QED
  BY <1>1, <1>2, <1>3, <1>4, <1>5, <1>6, <1>7, <1>8 DEF ServerStep

-----------------------------------------------------------------------------
(* The invariant                                                             *)

\* Every step of the server, the clients and the network keeps the invariant.
LEMMA StepInv == IInv /\ [Next]_vars => IInv'
<1> SUFFICES ASSUME IInv, [Next]_vars PROVE IInv'
  OBVIOUS
<1>1. CASE ServerStep
  BY <1>1, TypesServer, TableServer, LoopServer DEF IInv
<1>2. CASE \E c \in Clients : Connect(c) \/ Send(c) \/ Finish(c) \/ Reset(c)
  BY <1>2, TypesClient, TableClient, LoopClient DEF IInv
<1>3. CASE UNCHANGED vars
  <2> USE <1>3 DEF vars, table, loop, data, net
  <2>1. Types'
    BY DEF IInv, Types, TypeOK
  <2>2. TableInv'
    BY DEF IInv, TableInv, TableConsistent, SlotInv, ConnInv, Open, Poll
  <2>3. /\ \A G : Marked(G)' = Marked(G)
        /\ \A f : Readable(f)' <=> Readable(f)
        /\ \A t : Untouched(t)' <=> Untouched(t)
        /\ Poll' <=> Poll
    BY DEF Marked, IsSet, Poll, Readable, Untouched
  <2>4. AcceptInv'
    BY <2>3 DEF IInv, AcceptInv
  <2>5. LoopInv'
    BY <2>3 DEF IInv, LoopInv
  <2> QED
    BY <2>1, <2>2, <2>4, <2>5 DEF IInv
<1> QED
  BY <1>1, <1>2, <1>3 DEF Next

\* The invariant says that a client is read only when there is something to read.
LEMMA InvReads == IInv => ReadDoesNotBlock
<1> SUFFICES ASSUME IInv, server = "read", version # "select03" PROVE Readable(sockfd)
  BY DEF ReadDoesNotBlock
<1> QED
  BY DEF IInv, LoopInv, Untouched, sockfd

\* And that nready is exact in the select servers.
LEMMA InvCounts == IInv => CountsReadySlots
<1> SUFFICES ASSUME IInv, ~Poll, server \in {"scan", "read", "write"}
             PROVE  nready = Cardinality({s \in i .. FD_SETSIZE - 1 : client[s] \in rset})
  BY DEF CountsReadySlots
<1>1. nready = Cardinality(Marked({}))
  BY DEF IInv, LoopInv
<1>2. Marked({}) = {s \in i .. FD_SETSIZE - 1 : client[s] \in rset}
  <2>1. /\ i \in Nat /\ rset \subseteq Fds \union {listenfd}
        /\ client \in [Slots -> Fds \union {-1}]
    BY DEF IInv, Types, TypeOK
  <2>2. ASSUME NEW s PROVE s \in i .. FD_SETSIZE - 1 <=> s \in Slots /\ i <= s
    BY <2>1, SizeAssumption DEF Slots
  <2>3. ASSUME NEW s \in Slots, client[s] \in rset PROVE client[s] >= 0
    BY <2>1, <2>3 DEF Fds, listenfd
  <2> QED
    BY <2>2, <2>3 DEF Marked, IsSet
<1> QED
  BY <1>1, <1>2

\* The records of the connected clients agree wherever the server is, the counter
\* nready counts what is left to read, and no read blocks although rset and revents
\* are older than the table (tcpservselect01.c:39-80, tcpservpoll01.c:34-90).
THEOREM MuxConsistent == Spec => []Consistent
<1>1. IInv => Consistent
  BY InvReads, InvCounts DEF IInv, Types, TableInv, Consistent
<1> QED
  BY <1>1, InitInv, StepInv, PTL DEF Spec

-----------------------------------------------------------------------------
(* What is echoed                                                            *)

\* Only select03 keeps data between two reads, and no line outlives its echo.
BufInv ==
  /\ version # "select03" => read_buf = <<>>
  /\ version # "select03" /\ server = "read" => line = <<>>
  /\ server \in {"select", "accept", "scan"} => line = <<>>

EchoInv == IInv /\ BufInv /\ EchoesInOrder

Sent(c)   == [n \in 1 .. nsent[c] |-> [from |-> c, k |-> n]]
InHand(c) == IF server = "write" /\ cli = c THEN line ELSE <<>>

\* The buffers are empty where they should be.
LEMMA BufStep == IInv /\ BufInv /\ [Next]_vars => BufInv'
<1> SUFFICES ASSUME IInv, BufInv, [Next]_vars PROVE BufInv'
  OBVIOUS
<1> USE DEF table, loop, data, net, BufInv
<1>1. CASE Select \/ PollFds \/ AcceptClient
  BY <1>1, NextSlotType DEF Select, PollFds, AcceptClient
<1>2. CASE AcceptFails \/ ResetByClient
  BY <1>2 DEF AcceptFails, ResetByClient, Exit
<1>3. CASE Scan
  BY <1>3 DEF Scan
<1>4. CASE ReadData \/ FillBuffer \/ TakeUnit \/ PartialLine
  BY <1>4 DEF ReadData, FillBuffer, TakeUnit, PartialLine
<1>5. CASE CloseClient
  BY <1>5, NextSlotType DEF CloseClient
<1>6. CASE Write
  BY <1>6, NextSlotType DEF Write, Written
<1>7. CASE \E c \in Clients : Connect(c) \/ Send(c) \/ Finish(c) \/ Reset(c)
  BY <1>7 DEF Connect, Send, Finish, Reset
<1>8. CASE UNCHANGED vars
  BY <1>8 DEF vars
<1> QED
  BY <1>1, <1>2, <1>3, <1>4, <1>5, <1>6, <1>7, <1>8 DEF Next, ServerStep

\* Echoes as a statement about each client.
LEMMA EchoesDef ==
  Echoes <=> (version # "select03" => \A c \in Clients :
                peer[c] # "rst" => echoed[c] \o InHand(c) \o received[c] = Sent(c))
BY DEF Echoes, InHand, Sent

\* Sending one more unit.
LEMMA SendsNext ==
  ASSUME Types, NEW c \in Clients, Send(c)
  PROVE  /\ [from |-> c, k |-> nsent[c] + 1] \in Units
         /\ nsent' = [nsent EXCEPT ![c] = nsent[c] + 1] /\ nsent[c] \in Nat
         /\ received' = [received EXCEPT
                           ![c] = Append(received[c], [from |-> c, k |-> nsent[c] + 1])]
         /\ Sent(c)' = Append(Sent(c), [from |-> c, k |-> nsent[c] + 1])
<1>1. nsent[c] \in Nat /\ nsent' = [nsent EXCEPT ![c] = nsent[c] + 1]
      /\ nsent'[c] = nsent[c] + 1
  BY DEF Send, Types, TypeOK
<1>2. received' = [received EXCEPT
                     ![c] = Append(received[c], [from |-> c, k |-> nsent[c] + 1])]
  BY <1>1 DEF Send
<1>3. Sent(c)' = Append(Sent(c), [from |-> c, k |-> nsent[c] + 1])
  BY <1>1 DEF Sent
<1> QED
  BY <1>1, <1>2, <1>3 DEF Units

\* Appending to the second of two sequences appends to both.
LEMMA ConcatAppend ==
  ASSUME NEW S, NEW s \in Seq(S), NEW t \in Seq(S), NEW x \in S
  PROVE  s \o Append(t, x) = Append(s \o t, x)
<1>1. <<x>> \in Seq(S) /\ s \o t \in Seq(S)
  BY ConcatProperties
<1>2. Append(t, x) = t \o <<x>> /\ Append(s \o t, x) = (s \o t) \o <<x>>
  BY <1>1, AppendIsConcat
<1>3. (s \o t) \o <<x>> = s \o (t \o <<x>>)
  BY <1>1, ConcatAssociative
<1> QED
  BY ONLY <1>2, <1>3

\* Every step keeps the echoes of the servers that read with Read in order.
LEMMA EchoesStep == IInv /\ BufInv /\ Echoes /\ [Next]_vars => Echoes'
<1> SUFFICES ASSUME IInv, BufInv, Echoes, [Next]_vars, version' # "select03",
                    NEW c \in Clients, peer'[c] # "rst"
             PROVE  echoed'[c] \o InHand(c)' \o received'[c] = Sent(c)'
  BY DEF Echoes, InHand, Sent
<1> USE DEF table, loop, data, net
<1>t. /\ Types /\ echoed[c] \in Seq(Units) /\ received[c] \in Seq(Units)
      /\ line \in Seq(Units)
  BY DEF IInv, Types, TypeOK
<1>v. version' = version
  BY DEF Next, ServerStep, Connect, Send, Finish, Reset, Select, PollFds, AcceptClient,
         AcceptFails, ResetByClient, Exit, Scan, ReadData, FillBuffer, TakeUnit,
         PartialLine, CloseClient, Write, Written, vars
<1>e. peer[c] # "rst" => echoed[c] \o InHand(c) \o received[c] = Sent(c)
  BY <1>v DEF Echoes, InHand, Sent
<1>0. ASSUME UNCHANGED <<echoed, received, nsent, peer>>, InHand(c)' = InHand(c)
      PROVE  echoed'[c] \o InHand(c)' \o received'[c] = Sent(c)'
  BY <1>0, <1>e DEF Sent
<1>1. CASE Select \/ PollFds \/ AcceptClient \/ Scan \/ CloseClient
  <2>1. server # "write" /\ server' # "write"
    BY <1>1, NextSlotType DEF Select, PollFds, AcceptClient, Scan, CloseClient
  <2> QED
    BY <1>0, <1>1, <2>1 DEF InHand, Select, PollFds, AcceptClient, Scan, CloseClient
<1>2. CASE AcceptFails \/ ResetByClient
  <2>1. UNCHANGED <<echoed, received, nsent, peer>> /\ server' # "write"
    BY <1>2 DEF AcceptFails, ResetByClient, Exit
  <2>2. InHand(c) = <<>>
    BY <1>2, <2>1 DEF AcceptFails, ResetByClient, InHand
  <2> QED
    BY <1>0, <2>1, <2>2 DEF InHand
<1>3. CASE ReadData
  <2>1. /\ server = "read" /\ server' = "write" /\ cli' = cli /\ line' = received[cli]
        /\ received' = [received EXCEPT ![cli] = <<>>]
        /\ UNCHANGED <<echoed, nsent, peer>>
    BY <1>3 DEF ReadData, cli, sockfd
  <2>2. CASE c = cli
    <3>1. InHand(c) = <<>> /\ InHand(c)' = received[c] /\ received'[c] = <<>>
      BY <2>1, <2>2, <1>t DEF InHand, Types
    <3>2. (echoed[c] \o <<>>) \o received[c] = (echoed[c] \o received[c]) \o <<>>
      BY <1>t, ConcatEmptySeq, ConcatProperties
    <3> QED
      BY <1>e, <2>1, <3>1, <3>2 DEF Sent
  <2>3. CASE c # cli
    <3>1. InHand(c) = <<>> /\ InHand(c)' = <<>> /\ received'[c] = received[c]
      BY <2>1, <2>3, <1>t DEF InHand, Types
    <3> QED
      BY <1>e, <2>1, <3>1 DEF Sent
  <2> QED
    BY <2>2, <2>3
<1>4. CASE FillBuffer \/ TakeUnit \/ PartialLine
  BY <1>4, <1>v DEF FillBuffer, TakeUnit, PartialLine, BufInv
<1>5. CASE Write
  <2>1. /\ server = "write" /\ server' # "write" /\ cli \in Clients
        /\ echoed' = [echoed EXCEPT ![cli] = @ \o line]
        /\ UNCHANGED <<received, nsent, peer>>
    BY <1>5, NextSlotType, AtClient DEF Write, Echo
  <2>2. InHand(c)' = <<>>
    BY <2>1 DEF InHand
  <2>3. CASE c = cli
    <3>1. InHand(c) = line /\ echoed'[c] = echoed[c] \o line
      BY <2>1, <2>3, <1>t DEF InHand, Types
    <3>2. (echoed[c] \o line) \o <<>> = echoed[c] \o line
      BY <1>t, ConcatEmptySeq, ConcatProperties
    <3> QED
      BY <1>e, <2>1, <2>2, <3>1, <3>2 DEF Sent
  <2>4. CASE c # cli
    <3>1. InHand(c) = <<>> /\ echoed'[c] = echoed[c]
      BY <2>1, <2>4, <1>t DEF InHand, Types
    <3> QED
      BY <1>e, <2>1, <2>2, <3>1 DEF Sent
  <2> QED
    BY <2>3, <2>4
<1>6. ASSUME NEW d \in Clients, Connect(d) PROVE echoed'[c] \o InHand(c)' \o received'[c] = Sent(c)'
  BY <1>0, <1>6 DEF Connect, InHand, cli, sockfd
<1>7. ASSUME NEW d \in Clients, Finish(d) PROVE echoed'[c] \o InHand(c)' \o received'[c] = Sent(c)'
  <2>1. UNCHANGED <<echoed, received, nsent, server, line>> /\ InHand(c)' = InHand(c)
        /\ peer[c] # "rst"
    BY <1>7, <1>t DEF Finish, InHand, cli, sockfd, Types, TypeOK
  <2> QED
    BY <1>e, <2>1 DEF Sent
<1>8. ASSUME NEW d \in Clients, Reset(d) PROVE echoed'[c] \o InHand(c)' \o received'[c] = Sent(c)'
  <2>1. UNCHANGED <<echoed, nsent, server, line>> /\ InHand(c)' = InHand(c)
        /\ peer[c] # "rst" /\ received'[c] = received[c]
    BY <1>8, <1>t DEF Reset, InHand, cli, sockfd, Types, TypeOK
  <2> QED
    BY <1>e, <2>1 DEF Sent
<1>9. ASSUME NEW d \in Clients, Send(d) PROVE echoed'[c] \o InHand(c)' \o received'[c] = Sent(c)'
  <2>1. UNCHANGED <<echoed, server, line, peer>> /\ InHand(c)' = InHand(c)
    BY <1>9 DEF Send, InHand, cli, sockfd
  <2>2. CASE c # d
    <3>1. received'[c] = received[c] /\ nsent'[c] = nsent[c]
      BY <1>9, <1>t, <2>2 DEF Send, Types, TypeOK
    <3> QED
      BY <1>e, <2>1, <3>1 DEF Sent
  <2>3. CASE c = d
    <3> DEFINE u == [from |-> c, k |-> nsent[c] + 1]
               e == echoed[c] \o InHand(c)
    <3>1. u \in Units /\ received'[c] = Append(received[c], u) /\ Sent(c)' = Append(Sent(c), u)
      BY <1>9, <1>t, <2>3, SendsNext DEF Types
    <3>2. e \in Seq(Units)
      BY <1>t, EmptySeq, ConcatProperties DEF InHand
    <3> HIDE DEF u, e
    <3>3. e \o Append(received[c], u) = Append(e \o received[c], u)
      BY <1>t, <3>1, <3>2, ConcatAppend
    <3> QED
      BY <1>e, <2>1, <3>1, <3>3 DEF e
  <2> QED
    BY <2>2, <2>3
<1>10. CASE UNCHANGED vars
  BY <1>0, <1>10 DEF vars, InHand, cli, sockfd
<1> QED
  BY <1>1, <1>2, <1>3, <1>4, <1>5, <1>6, <1>7, <1>8, <1>9, <1>10 DEF Next, ServerStep

-----------------------------------------------------------------------------
(* Every unit has one place                                                  *)

\* The places and what is in them.
LEMMA PlacesAre ==
  /\ \A p \in Places : \/ \E c \in Clients : p = <<"received", c>> \/ p = <<"echoed", c>>
                       \/ p = <<"line", None>> \/ p = <<"read_buf", None>>
  /\ \A c \in Clients : <<"received", c>> \in Places /\ <<"echoed", c>> \in Places
  /\ <<"line", None>> \in Places /\ <<"read_buf", None>> \in Places
  /\ \A c \in Clients : /\ Contents(<<"received", c>>) = received[c]
                        /\ Contents(<<"echoed", c>>) = echoed[c]
  /\ Contents(<<"line", None>>) = line /\ Contents(<<"read_buf", None>>) = read_buf
BY DEF Places, Contents

\* What a place holds is held.
LEMMA HeldIs ==
  /\ \A p \in Places : \A m \in 1 .. Len(Contents(p)) :
       <<p, m>> \in Held /\ Unit(<<p, m>>) = Contents(p)[m]
  /\ \A x \in Held : \E p \in Places : \E m \in 1 .. Len(Contents(p)) :
       x = <<p, m>> /\ Unit(x) = Contents(p)[m]
BY DEF Held, Unit

\* When every unit held comes from a place, and no two from the same, nothing is
\* repeated.
LEMMA MovedOnce ==
  ASSUME NothingRepeated, UNCHANGED nsent, NEW old,
         \A x \in Held' : old[x] \in Held /\ Unit(x)' = Unit(old[x]),
         \A x, y \in Held' : old[x] = old[y] => x = y
  PROVE  NothingRepeated'
BY DEF NothingRepeated

\* When no unit is left behind, nothing is lost.
LEMMA MovedAll ==
  ASSUME NothingLost, UNCHANGED nsent, NEW old,
         \A c \in Clients : peer'[c] # "rst" => peer[c] # "rst",
         \A x \in Held' : old[x] \in Held /\ Unit(x)' = Unit(old[x]),
         \A y \in Held : \E x \in Held' : old[x] = y
  PROVE  NothingLost'
<1> SUFFICES ASSUME \A c \in Clients : peer'[c] # "rst",
                    NEW c \in Clients, NEW n \in 1 .. nsent'[c]
             PROVE  \E x \in Held' : Unit(x)' = [from |-> c, k |-> n]
  BY DEF NothingLost
<1> PICK y \in Held : Unit(y) = [from |-> c, k |-> n]
  BY DEF NothingLost
<1> PICK x \in Held' : old[x] = y
  OBVIOUS
<1> QED
  OBVIOUS

\* What a place holds stays there, but for its first units, which go to the end of
\* another: the reads, and the echo of a line.
LEMMA MovesTo ==
  ASSUME Types, NothingRepeated, NothingLost, UNCHANGED <<nsent, peer>>,
         NEW p \in Places, NEW q \in Places, p # q,
         NEW a \in Seq(Units), NEW rest \in Seq(Units),
         Contents(p) = a \o rest, Contents(p)' = rest,
         Contents(q)' = Contents(q) \o a,
         \A r \in Places \ {p, q} : Contents(r)' = Contents(r)
  PROVE  NothingRepeated' /\ NothingLost'
<1> DEFINE b == Contents(q)
           old == [x \in Held' |->
                     IF x[1] = q /\ x[2] > Len(b) THEN <<p, x[2] - Len(b)>>
                     ELSE IF x[1] = p THEN <<p, x[2] + Len(a)>> ELSE x]
<1>1. b \in Seq(Units)
  <2>1. line \in Seq(Units) /\ read_buf \in Seq(Units)
    BY DEF Types, TypeOK
  <2>2. \A c \in Clients : received[c] \in Seq(Units) /\ echoed[c] \in Seq(Units)
    BY DEF Types
  <2> QED
    BY <2>1, <2>2, PlacesAre
<1>2. /\ Len(a) \in Nat /\ Len(b) \in Nat /\ Len(rest) \in Nat
      /\ Len(b \o a) = Len(b) + Len(a) /\ Len(a \o rest) = Len(a) + Len(rest)
  BY <1>1, ConcatProperties, LenProperties
<1>3. /\ \A m \in 1 .. Len(b) + Len(a) : (b \o a)[m] = IF m <= Len(b) THEN b[m] ELSE a[m - Len(b)]
      /\ \A m \in 1 .. Len(a) + Len(rest) : (a \o rest)[m] = IF m <= Len(a) THEN a[m] ELSE rest[m - Len(a)]
  BY <1>1, ConcatProperties
<1>4. \A x \in Held' :
        \/ x[1] \in Places \ {p, q} /\ x \in Held /\ Unit(x)' = Unit(x)
        \/ \E m \in 1 .. Len(rest) : /\ x = <<p, m>> /\ <<p, m + Len(a)>> \in Held
                                     /\ Unit(x)' = Unit(<<p, m + Len(a)>>)
        \/ \E m \in 1 .. Len(b) : x = <<q, m>> /\ x \in Held /\ Unit(x)' = Unit(x)
        \/ \E m \in 1 .. Len(a) : /\ x = <<q, m + Len(b)>> /\ <<p, m>> \in Held
                                  /\ Unit(x)' = Unit(<<p, m>>)
  <2> TAKE x \in Held'
  <2> PICK r \in Places : \E m \in 1 .. Len(Contents(r)') :
        x = <<r, m>> /\ Unit(x)' = Contents(r)'[m]
    BY DEF Held, Unit
  <2> PICK m \in 1 .. Len(Contents(r)') : x = <<r, m>> /\ Unit(x)' = Contents(r)'[m]
    OBVIOUS
  <2>1. CASE r \in Places \ {p, q}
    BY <2>1, HeldIs
  <2>2. CASE r = p
    <3>1. m \in 1 .. Len(rest) /\ Unit(x)' = rest[m]
      BY <2>2
    <3>2. /\ m + Len(a) \in 1 .. Len(Contents(p)) /\ ~(m + Len(a) <= Len(a))
          /\ (m + Len(a)) - Len(a) = m
      BY <1>2, <3>1
    <3>3. Contents(p)[m + Len(a)] = rest[m]
      BY <1>2, <1>3, <3>1, <3>2
    <3>4. <<p, m + Len(a)>> \in Held /\ Unit(<<p, m + Len(a)>>) = rest[m]
      BY <3>2, <3>3, HeldIs
    <3> QED
      BY <2>2, <3>1, <3>4
  <2>3. CASE r = q /\ m <= Len(b)
    <3>1. m \in 1 .. Len(b) /\ Unit(x)' = b[m]
      BY <1>2, <1>3, <2>3
    <3> QED
      BY <2>3, <3>1, HeldIs
  <2>4. CASE r = q /\ ~(m <= Len(b))
    <3>1. m - Len(b) \in 1 .. Len(a) /\ Unit(x)' = a[m - Len(b)] /\ m = (m - Len(b)) + Len(b)
      BY <1>2, <1>3, <2>4
    <3>2. m - Len(b) \in 1 .. Len(Contents(p)) /\ Contents(p)[m - Len(b)] = a[m - Len(b)]
      BY <1>2, <1>3, <3>1
    <3> DEFINE l == m - Len(b)
    <3>3. <<p, l>> \in Held /\ Unit(<<p, l>>) = a[l]
      BY <3>2, HeldIs
    <3>4. x = <<q, l + Len(b)>> /\ l \in 1 .. Len(a) /\ Unit(x)' = Unit(<<p, l>>)
      BY <2>4, <3>1, <3>3
    <3> HIDE DEF l
    <3> QED
      BY <3>3, <3>4
  <2> QED
    BY <2>1, <2>2, <2>3, <2>4
<1> HIDE DEF b
<1>5. \A x \in Held' :
        \/ x[1] # q /\ x[1] # p /\ x \in Held /\ Unit(x)' = Unit(x) /\ old[x] = x
        \/ \E m \in 1 .. Len(rest) :
             /\ x = <<p, m>> /\ <<p, m + Len(a)>> \in Held
             /\ Unit(x)' = Unit(<<p, m + Len(a)>>) /\ old[x] = <<p, m + Len(a)>>
        \/ x[1] = q /\ x \in Held /\ Unit(x)' = Unit(x) /\ old[x] = x
        \/ \E m \in 1 .. Len(a) : /\ x = <<q, m + Len(b)>> /\ <<p, m>> \in Held
                                  /\ Unit(x)' = Unit(<<p, m>>) /\ old[x] = <<p, m>>
  <2> TAKE x \in Held'
  <2>1. CASE x[1] \in Places \ {p, q} /\ x \in Held /\ Unit(x)' = Unit(x)
    BY <2>1
  <2>2. ASSUME NEW m \in 1 .. Len(b), x = <<q, m>>, x \in Held, Unit(x)' = Unit(x)
        PROVE  x[1] = q /\ x \in Held /\ Unit(x)' = Unit(x) /\ old[x] = x
    <3>1. ~(m > Len(b))
      BY <1>2
    <3> QED
      BY <2>2, <3>1
  <2>3. ASSUME NEW m \in 1 .. Len(a), x = <<q, m + Len(b)>>, <<p, m>> \in Held,
               Unit(x)' = Unit(<<p, m>>)
        PROVE  old[x] = <<p, m>>
    <3>1. m + Len(b) > Len(b) /\ (m + Len(b)) - Len(b) = m
      BY <1>2
    <3> QED
      BY <2>3, <3>1
  <2>4. ASSUME NEW m \in 1 .. Len(rest), x = <<p, m>>
        PROVE  old[x] = <<p, m + Len(a)>>
    BY <2>4
  <2> QED
    BY <1>4, <2>1, <2>2, <2>3, <2>4
<1> HIDE DEF old
<1>6. /\ \A x \in Held' : old[x] \in Held /\ Unit(x)' = Unit(old[x])
      /\ \A x, y \in Held' : old[x] = old[y] => x = y
  <2>1. ASSUME NEW x \in Held'
        PROVE  old[x] \in Held /\ Unit(x)' = Unit(old[x])
    BY <1>5
  <2>2. ASSUME NEW x \in Held', NEW y \in Held', old[x] = old[y]
        PROVE  x = y
    <3>1. \/ old[x] = x /\ x[1] # p
          \/ \E m \in 1 .. Len(rest) : x = <<p, m>> /\ old[x] = <<p, m + Len(a)>>
          \/ \E m \in 1 .. Len(a) : x = <<q, m + Len(b)>> /\ old[x] = <<p, m>>
      BY <1>5
    <3>2. \/ old[y] = y /\ y[1] # p
          \/ \E m \in 1 .. Len(rest) : y = <<p, m>> /\ old[y] = <<p, m + Len(a)>>
          \/ \E m \in 1 .. Len(a) : y = <<q, m + Len(b)>> /\ old[y] = <<p, m>>
      BY <1>5
    <3>3. \A m, l \in 1 .. Len(rest) : m + Len(a) = l + Len(a) => m = l
      BY <1>2
    <3>4. \A m \in 1 .. Len(rest) : \A l \in 1 .. Len(a) : m + Len(a) # l
      BY <1>2
    <3>5. CASE old[x] = x /\ x[1] # p
      BY <2>2, <3>2, <3>5
    <3>6. ASSUME NEW m \in 1 .. Len(rest), x = <<p, m>>, old[x] = <<p, m + Len(a)>>
          PROVE  x = y
      <4>1. y[1] # p /\ old[y] = y => FALSE
        <5>1. old[y] = y => y = <<p, m + Len(a)>>
          BY <2>2, <3>6
        <5> QED
          BY <5>1
      <4>2. ASSUME NEW l \in 1 .. Len(rest), y = <<p, l>>, old[y] = <<p, l + Len(a)>>
            PROVE  x = y
        <5>1. m + Len(a) = l + Len(a)
          BY <2>2, <3>6, <4>2
        <5> QED
          BY <3>3, <3>6, <4>2, <5>1
      <4>3. ASSUME NEW l \in 1 .. Len(a), old[y] = <<p, l>> PROVE FALSE
        <5>1. m + Len(a) = l
          BY <2>2, <3>6, <4>3
        <5> QED
          BY <3>4, <5>1
      <4> QED
        BY <3>2, <4>1, <4>2, <4>3
    <3>7. ASSUME NEW m \in 1 .. Len(a), x = <<q, m + Len(b)>>, old[x] = <<p, m>>
          PROVE  x = y
      <4>1. y[1] # p /\ old[y] = y => FALSE
        <5>1. old[y] = y => y = <<p, m>>
          BY <2>2, <3>7
        <5> QED
          BY <5>1
      <4>2. ASSUME NEW l \in 1 .. Len(rest), old[y] = <<p, l + Len(a)>> PROVE FALSE
        <5>1. l + Len(a) = m
          BY <2>2, <3>7, <4>2
        <5> QED
          BY <3>4, <5>1
      <4>3. ASSUME NEW l \in 1 .. Len(a), y = <<q, l + Len(b)>>, old[y] = <<p, l>>
            PROVE  x = y
        <5>1. m = l
          BY <2>2, <3>7, <4>3
        <5> QED
          BY <3>7, <4>3, <5>1
      <4> QED
        BY <3>2, <4>1, <4>2, <4>3
    <3> QED
      BY <3>1, <3>5, <3>6, <3>7
  <2> QED
    BY <2>1, <2>2
<1>7. \A y \in Held : \E x \in Held' : old[x] = y
  <2> TAKE y \in Held
  <2> PICK r \in Places : \E m \in 1 .. Len(Contents(r)) : y = <<r, m>>
    BY HeldIs
  <2> PICK m \in 1 .. Len(Contents(r)) : y = <<r, m>>
    OBVIOUS
  <2>1. CASE r \in Places \ {p, q}
    <3>1. y \in Held'
      BY <2>1 DEF Held
    <3> QED
      BY <1>5, <2>1, <3>1
  <2>2. CASE r = q
    <3>1. m \in 1 .. Len(Contents(q)') /\ ~(m > Len(b)) /\ m \in Nat
      BY <1>2, <2>2 DEF b
    <3>2. y \in Held'
      BY <2>2, <3>1 DEF Held
    <3>3. ASSUME NEW l \in 1 .. Len(a), y = <<q, l + Len(b)>> PROVE FALSE
      BY <1>2, <2>2, <3>1, <3>3
    <3> QED
      BY <1>5, <2>2, <3>2, <3>3
  <2>3. CASE r = p /\ m <= Len(a)
    <3> DEFINE z == <<q, m + Len(b)>>
    <3>1. m + Len(b) \in 1 .. Len(Contents(q)') /\ m + Len(b) > Len(b)
          /\ (m + Len(b)) - Len(b) = m
      BY <1>2, <2>3 DEF b
    <3>2. z \in Held'
      BY <3>1 DEF Held
    <3>3. old[z] = <<p, m>>
      BY <3>1, <3>2 DEF old
    <3> QED
      BY <2>3, <3>2, <3>3
  <2>4. CASE r = p /\ ~(m <= Len(a))
    <3> DEFINE z == <<p, m - Len(a)>>
    <3>1. m - Len(a) \in 1 .. Len(Contents(p)') /\ (m - Len(a)) + Len(a) = m
      BY <1>2, <2>4
    <3>2. z \in Held'
      BY <3>1 DEF Held
    <3>3. old[z] = <<p, m>>
      BY <3>1, <3>2 DEF old
    <3> QED
      BY <2>4, <3>2, <3>3
  <2> QED
    BY <2>1, <2>2, <2>3, <2>4
<1>8. NothingRepeated'
  BY <1>6, MovedOnce
<1>9. NothingLost'
  BY <1>6, <1>7, MovedAll
<1> QED
  BY <1>8, <1>9

\* Steps that move nothing.
LEMMA NothingMoves ==
  ASSUME NothingRepeated, NothingLost, UNCHANGED <<nsent, received, echoed, data>>,
         \A c \in Clients : peer'[c] # "rst" => peer[c] # "rst"
  PROVE  NothingRepeated' /\ NothingLost'
<1>1. \A p \in Places : Contents(p)' = Contents(p)
  BY DEF Contents, data
<1>2. Held' = Held
  BY <1>1 DEF Held
<1>3. \A x \in Held : Unit(x)' = Unit(x)
  BY <1>1, HeldIs DEF Held, Unit
<1> QED
  BY <1>2, <1>3 DEF NothingRepeated, NothingLost

\* A unit that is sent is a new one, at the end of what the kernel holds.
LEMMA UnitsSend ==
  ASSUME Types, NothingRepeated, NothingLost, NEW c \in Clients, Send(c)
  PROVE  NothingRepeated' /\ NothingLost'
<1> DEFINE u == [from |-> c, k |-> nsent[c] + 1]
           p == <<"received", c>>
<1> PICK n : n = Len(received[c]) + 1
  OBVIOUS
<1>1. /\ nsent' = [nsent EXCEPT ![c] = nsent[c] + 1] /\ nsent[c] \in Nat /\ u \in Units
      /\ received' = [received EXCEPT ![c] = Append(received[c], u)]
      /\ UNCHANGED <<echoed, data, peer>>
  BY SendsNext DEF Send
<1>2. /\ received[c] \in Seq(Units) /\ received'[c] = Append(received[c], u)
      /\ \A d \in Clients : d # c => received'[d] = received[d]
  BY <1>1 DEF Types
<1>3. /\ Len(received'[c]) = n /\ n \in Nat /\ received'[c][n] = u
      /\ \A m \in 1 .. n - 1 : received'[c][m] = received[c][m]
  BY <1>2
<1> HIDE DEF u
<1>4. \A r \in Places : r # p => Contents(r)' = Contents(r)
  <2> TAKE r \in Places
  <2>1. CASE \E d \in Clients : r = <<"received", d>>
    BY <1>2, <2>1, PlacesAre DEF Contents
  <2>2. CASE \E d \in Clients : r = <<"echoed", d>>
    BY <1>1, <2>2 DEF Contents
  <2>3. CASE r = <<"line", None>> \/ r = <<"read_buf", None>>
    BY <1>1, <2>3 DEF Contents, data
  <2> QED
    BY <2>1, <2>2, <2>3, PlacesAre
<1>5. p \in Places /\ Contents(p) = received[c] /\ Contents(p)' = received'[c]
  BY PlacesAre DEF Contents
<1>6. \A x \in Held' : \/ x \in Held /\ Unit(x)' = Unit(x)
                       \/ x = <<p, n>> /\ Unit(x)' = u
  <2> TAKE x \in Held'
  <2> PICK r \in Places : \E m \in 1 .. Len(Contents(r)') :
        x = <<r, m>> /\ Unit(x)' = Contents(r)'[m]
    BY DEF Held, Unit
  <2> PICK m \in 1 .. Len(Contents(r)') : x = <<r, m>> /\ Unit(x)' = Contents(r)'[m]
    OBVIOUS
  <2>1. CASE r # p
    BY <1>4, <2>1, HeldIs
  <2>2. CASE r = p /\ m # n
    <3>1. m \in 1 .. n - 1 /\ m \in 1 .. Len(received[c])
      BY <1>3, <1>5, <2>2
    <3> QED
      BY <1>3, <1>5, <2>2, <3>1, HeldIs
  <2>3. CASE r = p /\ m = n
    BY <1>3, <1>5, <2>3
  <2> QED
    BY <2>1, <2>2, <2>3
<1>7. \A x \in Held : x \in Held' /\ Unit(x)' = Unit(x)
  <2> TAKE x \in Held
  <2> PICK r \in Places : \E m \in 1 .. Len(Contents(r)) :
        x = <<r, m>> /\ Unit(x) = Contents(r)[m]
    BY HeldIs
  <2> PICK m \in 1 .. Len(Contents(r)) : x = <<r, m>> /\ Unit(x) = Contents(r)[m]
    OBVIOUS
  <2>1. m \in 1 .. Len(Contents(r)') /\ Contents(r)'[m] = Contents(r)[m]
    <3>1. CASE r # p
      BY <1>4, <3>1
    <3>2. CASE r = p
      <4>1. m \in 1 .. n - 1 /\ m \in 1 .. n
        BY <1>3, <1>5, <3>2
      <4> QED
        BY <1>3, <1>5, <3>2, <4>1
    <3> QED
      BY <3>1, <3>2
  <2> QED
    BY <2>1 DEF Held, Unit
<1>8. <<p, n>> \in Held' /\ Unit(<<p, n>>)' = u
  <2>1. n \in 1 .. Len(Contents(p)') /\ Contents(p)'[n] = u
    BY <1>3, <1>5
  <2> QED
    BY <1>5, <2>1 DEF Held, Unit
<1>9. \A x \in Held : /\ Unit(x) \in Units /\ Unit(x) # u
                      /\ Unit(x).k <= nsent'[Unit(x).from]
  <2> TAKE x \in Held
  <2>1. Unit(x) \in Units
    <3>1. line \in Seq(Units) /\ read_buf \in Seq(Units)
      BY DEF Types, TypeOK
    <3>2. \A d \in Clients : received[d] \in Seq(Units) /\ echoed[d] \in Seq(Units)
      BY DEF Types
    <3>3. \A r \in Places : Contents(r) \in Seq(Units)
      BY <3>1, <3>2, PlacesAre
    <3> QED
      BY <3>3, HeldIs
  <2>2. Unit(x).k <= nsent[Unit(x).from] /\ Unit(x).from \in Clients /\ Unit(x).k \in Nat
    BY <2>1 DEF NothingRepeated, Units
  <2>3. nsent \in [Clients -> Nat]
    BY DEF Types, TypeOK
  <2> QED
    BY <1>1, <2>1, <2>2, <2>3 DEF u
<1>10. NothingRepeated'
  <2>1. u.k <= nsent'[u.from]
    BY <1>1 DEF u, Types, TypeOK
  <2>2. \A x \in Held' : Unit(x)'.k <= nsent'[Unit(x)'.from]
    BY <1>6, <1>9, <2>1
  <2>3. \A x, y \in Held' : Unit(x)' = Unit(y)' => x = y
    BY <1>6, <1>9 DEF NothingRepeated
  <2> QED
    BY <2>2, <2>3 DEF NothingRepeated
<1>11. NothingLost'
  <2> SUFFICES ASSUME \A d \in Clients : peer'[d] # "rst",
                      NEW d \in Clients, NEW l \in 1 .. nsent'[d]
               PROVE  \E x \in Held' : Unit(x)' = [from |-> d, k |-> l]
    BY DEF NothingLost
  <2>1. CASE l \in 1 .. nsent[d]
    <3> PICK x \in Held : Unit(x) = [from |-> d, k |-> l]
      BY <1>1, <2>1 DEF NothingLost
    <3> QED
      BY <1>7
  <2>2. CASE l \notin 1 .. nsent[d]
    <3>1. d = c /\ l = nsent[c] + 1
      BY <1>1, <2>2 DEF Types, TypeOK
    <3> QED
      BY <1>8, <3>1 DEF u
  <2> QED
    BY <2>1, <2>2
<1> QED
  BY <1>10, <1>11

\* A reset takes units away, from the client that was reset.
LEMMA UnitsReset ==
  ASSUME Types, NothingRepeated, NEW c \in Clients, Reset(c)
  PROVE  NothingRepeated' /\ NothingLost'
<1>1. /\ UNCHANGED <<echoed, data, nsent>> /\ peer'[c] = "rst"
      /\ received'[c] = <<>>
      /\ \A d \in Clients : d # c => received'[d] = received[d]
  BY DEF Reset, Types, TypeOK
<1>2. \A r \in Places : Contents(r)' = Contents(r) \/ Contents(r)' = <<>>
  <2> TAKE r \in Places
  <2>1. CASE \E d \in Clients : r = <<"received", d>>
    BY <1>1, <2>1 DEF Contents
  <2>2. CASE \E d \in Clients : r = <<"echoed", d>>
    BY <1>1, <2>2 DEF Contents
  <2>3. CASE r = <<"line", None>> \/ r = <<"read_buf", None>>
    BY <1>1, <2>3 DEF Contents, data
  <2> QED
    BY <2>1, <2>2, <2>3, PlacesAre
<1>3. \A x \in Held' : x \in Held /\ Unit(x)' = Unit(x)
  BY <1>2, HeldIs DEF Held, Unit
<1> QED
  BY <1>1, <1>3 DEF NothingRepeated, NothingLost

\* Every step keeps every unit in one place.
LEMMA UnitsStep ==
  IInv /\ BufInv /\ NothingLost /\ NothingRepeated /\ [Next]_vars =>
    NothingRepeated' /\ NothingLost'
<1> SUFFICES ASSUME IInv, BufInv, NothingLost, NothingRepeated, [Next]_vars
             PROVE  NothingRepeated' /\ NothingLost'
  OBVIOUS
<1> USE DEF table, loop, data, net
<1>t. /\ Types /\ line \in Seq(Units) /\ read_buf \in Seq(Units)
      /\ \A c \in Clients : received[c] \in Seq(Units) /\ echoed[c] \in Seq(Units)
      /\ received \in [Clients -> Seq(Units)] /\ echoed \in [Clients -> Seq(Units)]
      /\ <<>> \in Seq(Units)
  BY DEF IInv, Types, TypeOK
<1>1. CASE \/ Select \/ PollFds \/ AcceptClient \/ AcceptFails \/ Scan \/ PartialLine
           \/ CloseClient \/ ResetByClient \/ (\E c \in Clients : Connect(c)) \/ UNCHANGED vars
  BY <1>1, NothingMoves DEF Select, PollFds, AcceptClient, AcceptFails, Exit, Scan, PartialLine,
         CloseClient, ResetByClient, Connect, vars
<1>2. ASSUME NEW c \in Clients, Finish(c) PROVE NothingRepeated' /\ NothingLost'
  <2>1. UNCHANGED <<nsent, received, echoed, data>> /\ peer' = [peer EXCEPT ![c] = "fin"]
        /\ peer[c] = "open"
    BY <1>2 DEF Finish
  <2>2. \A d \in Clients : peer'[d] # "rst" => peer[d] # "rst"
    BY <2>1, <1>t DEF Types, TypeOK
  <2> QED
    BY <2>1, <2>2, NothingMoves
<1>3. CASE ReadData
  <2>1. /\ cli \in Clients /\ line = <<>> /\ line' = received[cli] /\ received'[cli] = <<>>
        /\ \A d \in Clients : d # cli => received'[d] = received[d]
        /\ UNCHANGED <<nsent, peer, echoed, read_buf>>
    BY <1>3, <1>t, AtClient DEF ReadData, BufInv
  <2> PICK c \in Clients : c = cli
    BY <2>1
  <2> DEFINE p == <<"received", c>>
             q == <<"line", None>>
  <2>2. p \in Places /\ q \in Places /\ p # q
    BY PlacesAre
  <2>3. /\ Contents(p) = received[c] \o <<>> /\ Contents(p)' = <<>>
        /\ Contents(q)' = Contents(q) \o received[c]
    BY <1>t, <2>1, ConcatEmptySeq DEF Contents
  <2>4. \A r \in Places \ {p, q} : Contents(r)' = Contents(r)
    <3> TAKE r \in Places \ {p, q}
    <3>1. CASE \E d \in Clients : r = <<"received", d>> \/ r = <<"echoed", d>>
      BY <2>1, <3>1 DEF Contents
    <3>2. CASE r = <<"read_buf", None>>
      BY <2>1, <3>2 DEF Contents
    <3> QED
      BY <3>1, <3>2, PlacesAre
  <2> HIDE DEF p, q
  <2> QED
    BY <1>t, <2>1, <2>2, <2>3, <2>4, MovesTo
<1>4. CASE FillBuffer
  <2>1. /\ cli \in Clients /\ read_buf = <<>> /\ read_buf' = received[cli]
        /\ received'[cli] = <<>>
        /\ \A d \in Clients : d # cli => received'[d] = received[d]
        /\ UNCHANGED <<nsent, peer, echoed, line>>
    BY <1>4, <1>t, AtClient DEF FillBuffer
  <2> PICK c \in Clients : c = cli
    BY <2>1
  <2> DEFINE p == <<"received", c>>
             q == <<"read_buf", None>>
  <2>2. p \in Places /\ q \in Places /\ p # q
    BY PlacesAre
  <2>3. /\ Contents(p) = received[c] \o <<>> /\ Contents(p)' = <<>>
        /\ Contents(q)' = Contents(q) \o received[c]
    BY <1>t, <2>1, ConcatEmptySeq DEF Contents
  <2>4. \A r \in Places \ {p, q} : Contents(r)' = Contents(r)
    <3> TAKE r \in Places \ {p, q}
    <3>1. CASE \E d \in Clients : r = <<"received", d>> \/ r = <<"echoed", d>>
      BY <2>1, <3>1 DEF Contents
    <3>2. CASE r = <<"line", None>>
      BY <2>1, <3>2 DEF Contents
    <3> QED
      BY <3>1, <3>2, PlacesAre
  <2> HIDE DEF p, q
  <2> QED
    BY <1>t, <2>1, <2>2, <2>3, <2>4, MovesTo
<1>5. CASE TakeUnit
  <2> DEFINE h == Head(read_buf)
             p == <<"read_buf", None>>
             q == <<"line", None>>
  <2>1. /\ read_buf # <<>> /\ line' = Append(line, h) /\ read_buf' = Tail(read_buf)
        /\ UNCHANGED <<nsent, peer, echoed, received>>
    BY <1>5 DEF TakeUnit
  <2>2. h \in Units /\ Tail(read_buf) \in Seq(Units) /\ <<h>> \in Seq(Units)
    BY <1>t, <2>1
  <2>3. read_buf = <<h>> \o Tail(read_buf) /\ line' = line \o <<h>>
    <3>1. read_buf = <<h>> \o Tail(read_buf)
      BY <1>t, <2>1, SubSeqFull, SubSeqRecursiveFirst, TailIsSubSeq, HeadTailProperties, LenProperties
    <3>2. Append(line, h) = line \o <<h>>
      BY <1>t, <2>2, AppendIsConcat
    <3> QED
      BY <2>1, <3>1, <3>2
  <2> HIDE DEF h
  <2>4. p \in Places /\ q \in Places /\ p # q
    BY PlacesAre
  <2>5. /\ Contents(p) = <<h>> \o Tail(read_buf) /\ Contents(p)' = Tail(read_buf)
        /\ Contents(q)' = Contents(q) \o <<h>>
    BY <2>1, <2>3 DEF Contents
  <2>6. \A r \in Places \ {p, q} : Contents(r)' = Contents(r)
    BY <2>1, PlacesAre DEF Contents
  <2> HIDE DEF p, q
  <2> QED
    BY <1>t, <2>1, <2>2, <2>4, <2>5, <2>6, MovesTo
<1>6. CASE Write
  <2>1. /\ cli \in Clients /\ line' = <<>> /\ echoed'[cli] = echoed[cli] \o line
        /\ \A d \in Clients : d # cli => echoed'[d] = echoed[d]
        /\ UNCHANGED <<nsent, peer, received, read_buf>>
    BY <1>6, <1>t, AtClient DEF Write, Echo, Written
  <2> PICK c \in Clients : c = cli
    BY <2>1
  <2> DEFINE p == <<"line", None>>
             q == <<"echoed", c>>
  <2>2. p \in Places /\ q \in Places /\ p # q
    BY PlacesAre
  <2>3. /\ Contents(p) = line \o <<>> /\ Contents(p)' = <<>>
        /\ Contents(q)' = Contents(q) \o line
    BY <1>t, <2>1, ConcatEmptySeq DEF Contents
  <2>4. \A r \in Places \ {p, q} : Contents(r)' = Contents(r)
    <3> TAKE r \in Places \ {p, q}
    <3>1. CASE \E d \in Clients : r = <<"received", d>> \/ r = <<"echoed", d>>
      BY <2>1, <3>1 DEF Contents
    <3>2. CASE r = <<"read_buf", None>>
      BY <2>1, <3>2 DEF Contents
    <3> QED
      BY <3>1, <3>2, PlacesAre
  <2> HIDE DEF p, q
  <2> QED
    BY <1>t, <2>1, <2>2, <2>3, <2>4, MovesTo
<1>7. ASSUME NEW c \in Clients, Send(c) PROVE NothingRepeated' /\ NothingLost'
  BY <1>7, <1>t, UnitsSend
<1>8. ASSUME NEW c \in Clients, Reset(c) PROVE NothingRepeated' /\ NothingLost'
  BY <1>8, <1>t, UnitsReset
<1> QED
  BY <1>1, <1>2, <1>3, <1>4, <1>5, <1>6, <1>7, <1>8 DEF Next, ServerStep

\* At the start nothing is sent.
LEMMA InitEchoes == Init => EchoInv
<1> SUFFICES ASSUME Init PROVE EchoInv
  OBVIOUS
<1>1. Echoes
  BY DEF Init, Echoes
<1>2. Held = {}
  <2>1. \A p \in Places : Contents(p) = <<>>
    BY PlacesAre DEF Init
  <2> QED
    BY <2>1 DEF Held
<1>3. NothingLost /\ NothingRepeated
  BY <1>2 DEF Init, NothingLost, NothingRepeated
<1> QED
  BY <1>1, <1>3, InitInv DEF Init, EchoInv, BufInv, EchoesInOrder

\* A client that is not reset gets back what it sent, in order, from the servers
\* that call Read; and all of them, select03 with its process-wide buffer included,
\* neither lose a unit nor send one twice (tcpservselect01.c:66-80, readline.c:8-49).
THEOREM MuxEchoes == Spec => []EchoesInOrder
<1>1. EchoInv /\ [Next]_vars => EchoInv'
  BY StepInv, BufStep, EchoesStep, UnitsStep DEF EchoInv, EchoesInOrder
<1>2. EchoInv => EchoesInOrder
  BY DEF EchoInv
<1> QED
  BY <1>1, <1>2, InitEchoes, PTL DEF Spec
=============================================================================
