-------------------------- MODULE ThreadPool_proofs --------------------------
(* serv08.c for any pool, ring size and number of connections: types, the      *)
(* mutex, one owner for every accepted descriptor, enough threads awake for    *)
(* what is on the ring, and connections served in the order of their           *)
(* acceptance.  The counter of the examples, for any number of turns, and the  *)
(* functions that read lines, for any text and buffer.                         *)
EXTENDS MCThreads, FiniteSetTheorems, SequenceTheorems, TLAPS

\* The slot k places after slot i.
After(i, k) == IF i + k >= MAXNCLI THEN i + k - MAXNCLI ELSE i + k

\* Connections on the ring, and how many iget and iput have passed.
Length == IF iget <= iput THEN iput - iget ELSE iput - iget + MAXNCLI
Got == taken - Pending
Put == IF mpc \in {"lock", "store", "advance"} THEN accepted - 1 ELSE accepted

\* The owner of clifd_mutex is the thread between lock and unlock.
MutexInv ==
  /\ mutex = Main <=> mpc \in {"store", "advance", "signal", "unlock"}
  /\ \A t \in Threads : mutex = t <=> pc[t] \in InMutex

\* The ring has the connections after the Got first ones, in order.
RingInv ==
  /\ Put = Got + Length
  /\ \A k \in Nat : k < Length => clifd[After(iget, k)] = Got + 1 + k
  /\ mpc = "advance" => clifd[iput] = accepted
  /\ \A t \in Threads : pc[t] \in {"take", "advance"} => iget # iput

\* A connection taken is in the hands of one thread or closed.
HandsInv ==
  /\ \A t \in Threads :
       /\ pc[t] \in {"advance", "unlock", "web_child"} <=> connfd[t] # 0
       /\ connfd[t] <= taken /\ connfd[t] \notin closed
       /\ pc[t] = "advance" => connfd[t] = taken
       /\ \A u \in Threads : connfd[t] = connfd[u] /\ connfd[t] # 0 => t = u
  /\ closed \subseteq 1 .. taken
  /\ \A c \in 1 .. taken : c \in closed \/ \E t \in Threads : connfd[t] = c

\* Nothing is promised of a process that has ended.
IInv == TypeOK /\ (status = "running" => MutexInv /\ RingInv /\ HandsInv)

\* The slots are a circle.
LEMMA SuccSlot ==
  ASSUME NEW i \in Slots
  PROVE  Succ(i) \in Slots /\ Succ(i) = After(i, 1)
BY RingAssumption DEF Slots, Succ, After

\* At the start the ring is empty and nobody owns the mutex.
LEMMA InitInv == Init => IInv
<1> SUFFICES ASSUME Init PROVE IInv
  OBVIOUS
<1> USE PoolAssumption, RingAssumption DEF Init
<1>1. TypeOK
  BY DEF TypeOK, Slots, InMutex
<1>2. MutexInv
  BY DEF MutexInv, InMutex
<1>3. Pending = 0 /\ Length = 0
  BY DEF Pending, Length
<1>4. RingInv
  BY <1>3 DEF RingInv, Got, Put
<1>5. HandsInv
  BY DEF HandsInv
<1> QED
  BY <1>1, <1>2, <1>4, <1>5 DEF IInv

-----------------------------------------------------------------------------
(* Types                                                                     *)

\* A process that has ended does nothing.
LEMMA NextRuns == Next => status = "running"
BY DEF Next, MainStep, ThreadStep, Accept, MainLock, Store, AdvancePut, Signal, MainUnlock,
       EndProcess, ThreadLock, Relock, Wait, TestSucceeds, Take, AdvanceGet, ThreadUnlock,
       SpuriousWakeup, ServeAndClose, MainAt, At

\* Every step keeps the types.
LEMMA TypeStep == ASSUME TypeOK, [Next]_vars PROVE TypeOK'
<1> USE DEF TypeOK, MainAt, At, Goto, Lock
<1>1. CASE UNCHANGED vars
  BY <1>1 DEF vars, ring
<1>2. CASE Accept
  BY <1>2 DEF Accept, ring
<1>3. CASE MainStep
  <2>1. CASE MainLock
    BY <2>1 DEF MainLock, ring
  <2>2. CASE Store
    BY <2>2 DEF Store
  <2>3. CASE AdvancePut
    BY <2>3, SuccSlot DEF AdvancePut
  <2>4. CASE Signal
    BY <2>4 DEF Signal, ring
  <2>5. CASE MainUnlock
    BY <2>5 DEF MainUnlock, ring
  <2> QED
    BY <1>3, <2>1, <2>2, <2>3, <2>4, <2>5 DEF MainStep
<1>4. CASE EndProcess
  BY <1>4 DEF EndProcess, ring
<1>5. ASSUME NEW t \in Threads, ThreadStep(t) PROVE TypeOK'
  <2>1. CASE ThreadLock(t) \/ Relock(t)
    BY <2>1 DEF ThreadLock, Relock, ring, InMutex
  <2>2. CASE Wait(t) \/ TestSucceeds(t)
    BY <2>2 DEF Wait, TestSucceeds, ring, InMutex
  <2>3. CASE Take(t)
    BY <2>3 DEF Take, ring, InMutex
  <2>4. CASE AdvanceGet(t)
    BY <2>4, SuccSlot DEF AdvanceGet, InMutex
  <2>5. CASE ThreadUnlock(t)
    BY <2>5 DEF ThreadUnlock, ring, InMutex
  <2> QED
    BY <1>5, <2>1, <2>2, <2>3, <2>4, <2>5 DEF ThreadStep
<1>6. ASSUME NEW t \in Threads, SpuriousWakeup(t) PROVE TypeOK'
  BY <1>6 DEF SpuriousWakeup, ring
<1>7. ASSUME NEW t \in Threads, ServeAndClose(t) PROVE TypeOK'
  BY <1>7 DEF ServeAndClose, ring
<1> QED
  BY <1>1, <1>2, <1>3, <1>4, <1>5, <1>6, <1>7 DEF Next

-----------------------------------------------------------------------------
(* The mutex                                                                 *)

\* Every step leaves the mutex with the thread between lock and unlock.
LEMMA MutexStep ==
  ASSUME TypeOK, MutexInv, Next
  PROVE  MutexInv'
<1> USE PoolAssumption DEF TypeOK, MutexInv, InMutex, MainAt, At, Goto, Lock
<1>1. CASE Accept
  BY <1>1 DEF Accept
<1>2. CASE MainStep
  <2>1. CASE MainLock
    BY <2>1 DEF MainLock
  <2>2. CASE Store
    BY <2>2 DEF Store
  <2>3. CASE AdvancePut
    BY <2>3 DEF AdvancePut
  <2>4. CASE Signal
    BY <2>4 DEF Signal
  <2>5. CASE MainUnlock
    BY <2>5 DEF MainUnlock
  <2> QED
    BY <1>2, <2>1, <2>2, <2>3, <2>4, <2>5 DEF MainStep
<1>3. CASE EndProcess
  BY <1>3 DEF EndProcess
<1>4. ASSUME NEW t \in Threads, ThreadStep(t) PROVE MutexInv'
  <2>1. CASE ThreadLock(t) \/ Relock(t)
    BY <2>1 DEF ThreadLock, Relock
  <2>2. CASE Wait(t) \/ ThreadUnlock(t)
    BY <2>2 DEF Wait, ThreadUnlock
  <2>3. CASE TestSucceeds(t) \/ Take(t) \/ AdvanceGet(t)
    BY <2>3 DEF TestSucceeds, Take, AdvanceGet
  <2> QED
    BY <1>4, <2>1, <2>2, <2>3 DEF ThreadStep
<1>5. ASSUME NEW t \in Threads, SpuriousWakeup(t) PROVE MutexInv'
  BY <1>5 DEF SpuriousWakeup
<1>6. ASSUME NEW t \in Threads, ServeAndClose(t) PROVE MutexInv'
  BY <1>6 DEF ServeAndClose
<1> QED
  BY <1>1, <1>2, <1>3, <1>4, <1>5, <1>6 DEF Next

-----------------------------------------------------------------------------
(* The ring                                                                  *)

\* Pending follows the places of the threads.
LEMMA PendingIs ==
  /\ (\E t \in Threads : pc[t] = "advance") => Pending = 1
  /\ (\A t \in Threads : pc[t] # "advance") => Pending = 0
BY DEF Pending

LEMMA PendingNext ==
  /\ (\E t \in Threads : pc'[t] = "advance") => Pending' = 1
  /\ (\A t \in Threads : pc'[t] # "advance") => Pending' = 0
BY DEF Pending

\* The ring is never full: there is a slot for the next connection.
LEMMA LengthBound ==
  ASSUME TypeOK
  PROVE  /\ Length \in 0 .. MAXNCLI - 1
         /\ iget # iput => Length > 0
         /\ After(iget, Length) = iput
         /\ \A k \in Nat : k < Length => After(iget, k) \in Slots /\ After(iget, k) # iput
BY RingAssumption DEF TypeOK, Slots, Length, After

\* A step that leaves ring, counts and the places around the ring alone.
LEMMA RingSame ==
  ASSUME TypeOK, RingInv, UNCHANGED <<ring, accepted, taken>>, Put' = Put,
         Pending' = Pending, mpc' # "advance" \/ mpc = "advance",
         \A t \in Threads : pc'[t] \in {"take", "advance"} =>
                              pc[t] \in {"take", "advance"} \/ iget # iput
  PROVE  RingInv'
BY DEF RingInv, ring, Got, Length, After, TypeOK

\* What main does keeps the ring in order, or ends the process.
LEMMA RingMain ==
  ASSUME TypeOK, MutexInv, RingInv, Accept \/ MainStep
  PROVE  status' = "running" => RingInv'
<1> USE DEF MainAt
<1>1. CASE Accept
  <2>1. Put' = Put
    BY <1>1 DEF Accept, Put, TypeOK
  <2>2. Pending' = Pending
    BY <1>1, PendingIs, PendingNext DEF Accept
  <2>3. UNCHANGED <<pc, iget, iput, clifd, taken>>
    BY <1>1 DEF Accept, ring
  <2> QED
    BY <1>1, <2>1, <2>2, <2>3 DEF Accept, RingInv, Got, Length, After, TypeOK
<1>2. CASE MainLock
  <2>1. Put' = Put /\ Pending' = Pending
    BY <1>2, PendingIs, PendingNext DEF MainLock, Put
  <2> QED
    BY <1>2, <2>1, RingSame DEF MainLock
<1>3. CASE Store
  <2>1. Put' = Put /\ Pending' = Pending
    BY <1>3, PendingIs, PendingNext DEF Store, Put
  <2>2. clifd' = [clifd EXCEPT ![iput] = accepted] /\ UNCHANGED <<pc, iget, iput, accepted, taken>>
    BY <1>3 DEF Store
  <2>3. iput \in Slots /\ clifd'[iput] = accepted
    BY <2>2 DEF TypeOK
  <2>4. UNCHANGED <<Length, Got>>
    BY <2>1, <2>2 DEF Length, Got
  <2>5. ASSUME NEW k \in Nat, k < Length PROVE clifd'[After(iget, k)] = Got + 1 + k
    BY <2>2, <2>5, LengthBound DEF TypeOK, RingInv
  <2> QED
    BY <2>1, <2>2, <2>3, <2>4, <2>5 DEF RingInv, After
<1>4. CASE AdvancePut
  <2> SUFFICES ASSUME status' = "running" PROVE RingInv'
    OBVIOUS
  <2>1. UNCHANGED <<clifd, iget, accepted, taken, pc>> /\ iput' = Succ(iput) /\ iput' # iget
    BY <1>4 DEF AdvancePut
  <2>2. Pending' = Pending /\ Got' = Got
    BY <2>1, PendingIs, PendingNext DEF Got
  <2>3. Put' = Put + 1 /\ Put + 1 = accepted
    BY <1>4 DEF AdvancePut, Put, TypeOK
  <2>4. Length' = Length + 1
    BY <2>1, RingAssumption DEF Length, Succ, TypeOK, Slots
  <2>5. clifd[iput] = accepted
    BY <1>4 DEF AdvancePut, RingInv
  <2>6. Got \in Int
    BY PendingIs DEF Got, TypeOK
  <2>7. ASSUME NEW k \in Nat, k < Length' PROVE clifd'[After(iget', k)] = Got' + 1 + k
    <3>0. Length \in Nat
      BY LengthBound, RingAssumption
    <3>1. CASE k = Length
      <4>1. After(iget, k) = iput
        BY <3>1, LengthBound
      <4> QED
        BY <2>1, <2>2, <2>3, <2>5, <2>6, <3>0, <3>1, <4>1 DEF RingInv, After
    <3>2. CASE k < Length
      BY <2>1, <2>2, <3>2 DEF RingInv, After
    <3> QED
      BY <2>4, <2>7, <3>0, <3>1, <3>2
  <2>8. \A t \in Threads : pc'[t] \notin {"take", "advance"}
    BY <1>4, <2>1, PoolAssumption DEF AdvancePut, MutexInv, InMutex
  <2>9. Put' = Got' + Length' /\ mpc' # "advance"
    <3>1. Length \in Nat
      BY LengthBound, RingAssumption
    <3> QED
      BY <1>4, <2>2, <2>3, <2>4, <2>6, <3>1 DEF RingInv, AdvancePut
  <2> QED
    BY <2>7, <2>8, <2>9 DEF RingInv
<1>5. CASE Signal
  <2>1. Put' = Put /\ \A t \in Threads : pc'[t] = "relock" \/ pc'[t] = pc[t]
    BY <1>5 DEF Signal, Put, Goto, TypeOK
  <2>2. \A t \in Threads : pc[t] # "advance"
    BY <1>5, PoolAssumption DEF Signal, MutexInv, InMutex
  <2>3. Pending' = Pending
    BY <2>1, <2>2, PendingIs, PendingNext
  <2> QED
    BY <1>5, <2>1, <2>3, RingSame DEF Signal
<1>6. CASE MainUnlock
  <2>1. Put' = Put /\ Pending' = Pending
    BY <1>6, PendingIs, PendingNext DEF MainUnlock, Put
  <2> QED
    BY <1>6, <2>1, RingSame DEF MainUnlock
<1> QED
  BY <1>1, <1>2, <1>3, <1>4, <1>5, <1>6 DEF MainStep

\* A thread that is not at the ring leaves it in order.
LEMMA RingElsewhere ==
  ASSUME TypeOK, RingInv, NEW t \in Threads,
         UNCHANGED <<mpc, ring, accepted, taken>>,
         NEW place, pc' = [pc EXCEPT ![t] = place], pc[t] # "advance", place # "advance",
         place # "take" \/ iget # iput
  PROVE  RingInv'
<1>1. Put' = Put
  BY DEF Put
<1>2. Pending' = Pending
  <2>1. \A u \in Threads : pc'[u] = "advance" <=> pc[u] = "advance"
    BY DEF TypeOK
  <2> QED
    BY <2>1, PendingIs, PendingNext
<1>3. \A u \in Threads : pc'[u] \in {"take", "advance"} =>
                              pc[u] \in {"take", "advance"} \/ iget # iput
  BY DEF TypeOK
<1> QED
  BY <1>1, <1>2, <1>3, RingSame

\* The thread that takes a connection out gets the oldest.
LEMMA RingTake ==
  ASSUME TypeOK, MutexInv, RingInv, NEW t \in Threads, Take(t)
  PROVE  /\ taken' = taken + 1 /\ taken' <= accepted
         /\ Pending = 0 /\ RingInv'
<1> USE DEF At, Goto
<1>1. \A u \in Threads : u # t => pc[u] # "advance"
  BY DEF Take, MutexInv, InMutex
<1>2. Pending = 0 /\ Pending' = 1
  <2>1. pc[t] = "take" /\ pc'[t] = "advance"
    BY DEF Take, TypeOK
  <2> QED
    BY <1>1, <2>1, PendingIs, PendingNext
<1>3. Length > 0 /\ Length \in Nat /\ iget # iput
  BY LengthBound, RingAssumption DEF Take, RingInv
<1>4. After(iget, 0) = iget
  BY RingAssumption DEF TypeOK, Slots, After
<1>5. taken' = taken + 1
  <2>1. Got = taken
    BY <1>2 DEF Got, TypeOK
  <2>2. clifd[After(iget, 0)] = Got + 1 + 0
    BY <1>3 DEF RingInv
  <2> QED
    BY <1>4, <2>1, <2>2 DEF Take, TypeOK
<1>6. Got' = Got /\ UNCHANGED <<mpc, clifd, iget, iput, accepted>>
  BY <1>2, <1>5 DEF Got, Take, ring, TypeOK
<1>7. UNCHANGED <<Length, Put>>
  BY <1>6 DEF Length, Put
<1>8. taken' <= accepted
  BY <1>2, <1>3, <1>5 DEF RingInv, Got, Put, TypeOK
<1> QED
  BY <1>2, <1>3, <1>5, <1>6, <1>7, <1>8 DEF RingInv, After

\* Then it moves iget past it.
LEMMA RingAdvance ==
  ASSUME TypeOK, MutexInv, RingInv, NEW t \in Threads, AdvanceGet(t)
  PROVE  RingInv'
<1> USE DEF At, Goto
<1>1. \A u \in Threads : pc'[u] \notin {"take", "advance"}
  BY DEF AdvanceGet, MutexInv, InMutex, TypeOK
<1>2. Pending = 1 /\ Pending' = 0
  BY <1>1, PendingIs, PendingNext DEF AdvanceGet
<1>3. Length > 0 /\ Length \in Nat /\ iget # iput
  BY LengthBound, RingAssumption DEF AdvanceGet, RingInv
<1>4. UNCHANGED <<mpc, clifd, iput, accepted, taken>> /\ iget' = Succ(iget)
  BY DEF AdvanceGet
<1>5. Got' = Got + 1 /\ Got \in Int /\ Put' = Put
  BY <1>2, <1>4 DEF Got, Put, TypeOK
<1>6. Length' = Length - 1
  BY <1>3, <1>4, RingAssumption DEF Length, Succ, TypeOK, Slots
<1>7. ASSUME NEW k \in Nat, k < Length' PROVE clifd'[After(iget', k)] = Got' + 1 + k
  <2>1. After(iget', k) = After(iget, k + 1)
    BY <1>3, <1>4, <1>6, <1>7, LengthBound, RingAssumption DEF After, Succ, TypeOK, Slots
  <2>2. clifd[After(iget, k + 1)] = Got + 1 + (k + 1)
    BY <1>3, <1>6, <1>7 DEF RingInv
  <2> QED
    BY <1>4, <1>5, <2>1, <2>2
<1>8. mpc # "advance"
  BY PoolAssumption DEF AdvanceGet, MutexInv, InMutex
<1> QED
  BY <1>1, <1>3, <1>4, <1>5, <1>6, <1>7, <1>8 DEF RingInv

\* Every step keeps the ring in order, or ends the process.
LEMMA RingStep ==
  ASSUME TypeOK, MutexInv, RingInv, Next
  PROVE  status' = "running" => RingInv'
<1> USE DEF At, Goto
<1>1. CASE Accept \/ MainStep
  BY <1>1, RingMain
<1>2. CASE EndProcess
  BY <1>2 DEF EndProcess
<1>3. ASSUME NEW t \in Threads, ThreadStep(t) PROVE RingInv'
  <2>1. CASE ThreadLock(t) \/ Relock(t)
    BY <2>1, RingElsewhere DEF ThreadLock, Relock
  <2>2. CASE Wait(t)
    BY <2>2, RingElsewhere DEF Wait
  <2>3. CASE TestSucceeds(t)
    BY <2>3, RingElsewhere DEF TestSucceeds
  <2>4. CASE Take(t)
    BY <2>4, RingTake
  <2>5. CASE AdvanceGet(t)
    BY <2>5, RingAdvance
  <2>6. CASE ThreadUnlock(t)
    BY <2>6, RingElsewhere DEF ThreadUnlock
  <2> QED
    BY <1>3, <2>1, <2>2, <2>3, <2>4, <2>5, <2>6 DEF ThreadStep
<1>4. ASSUME NEW t \in Threads, SpuriousWakeup(t) PROVE RingInv'
  BY <1>4, RingElsewhere DEF SpuriousWakeup
<1>5. ASSUME NEW t \in Threads, ServeAndClose(t) PROVE RingInv'
  BY <1>5, RingElsewhere DEF ServeAndClose
<1> QED
  BY <1>1, <1>2, <1>3, <1>4, <1>5 DEF Next

-----------------------------------------------------------------------------
(* The descriptors                                                           *)

\* A step that takes and closes nothing.
LEMMA HandsSame ==
  ASSUME TypeOK, HandsInv, UNCHANGED <<connfd, taken, closed>>,
         \A t \in Threads :
           /\ pc'[t] \in {"advance", "unlock", "web_child"} <=>
                pc[t] \in {"advance", "unlock", "web_child"}
           /\ pc'[t] = "advance" => pc[t] = "advance"
  PROVE  HandsInv'
BY DEF HandsInv

\* The connection taken is a new one, and its thread had none.
LEMMA HandsTake ==
  ASSUME TypeOK, MutexInv, RingInv, HandsInv, NEW t \in Threads, Take(t)
  PROVE  HandsInv'
<1> USE DEF At, Goto
<1>1. taken' = taken + 1 /\ connfd' = [connfd EXCEPT ![t] = taken']
  BY RingTake DEF Take
<1>2. /\ pc[t] = "take" /\ pc' = [pc EXCEPT ![t] = "advance"] /\ UNCHANGED closed
      /\ \A u \in Threads : u # t => pc[u] # "advance"
  BY DEF Take, MutexInv, InMutex
<1>3. connfd[t] = 0 /\ taken \in Nat
  BY <1>2 DEF HandsInv, TypeOK
<1>4. \A u \in Threads : u # t => connfd'[u] = connfd[u] /\ pc'[u] = pc[u]
  BY <1>1, <1>2 DEF TypeOK
<1>5. connfd'[t] = taken + 1 /\ pc'[t] = "advance"
  BY <1>1, <1>2 DEF TypeOK
<1>6. \A u \in Threads : connfd[u] \in Nat /\ connfd[u] <= taken
  BY DEF TypeOK, HandsInv
<1>7. closed' \subseteq 1 .. taken' /\ taken + 1 \notin closed
  BY <1>1, <1>2, <1>3 DEF HandsInv
<1>8. ASSUME NEW u \in Threads
      PROVE  /\ pc'[u] \in {"advance", "unlock", "web_child"} <=> connfd'[u] # 0
             /\ connfd'[u] <= taken' /\ connfd'[u] \notin closed'
             /\ pc'[u] = "advance" => connfd'[u] = taken'
             /\ \A v \in Threads : connfd'[u] = connfd'[v] /\ connfd'[u] # 0 => u = v
  <2>1. CASE u = t
    BY <1>1, <1>2, <1>3, <1>4, <1>5, <1>6, <1>7, <2>1
  <2>2. CASE u # t
    BY <1>1, <1>2, <1>3, <1>4, <1>5, <1>6, <2>2 DEF HandsInv
  <2> QED
    BY <2>1, <2>2
<1>9. ASSUME NEW c \in 1 .. taken' PROVE c \in closed' \/ \E u \in Threads : connfd'[u] = c
  <2>1. CASE c = taken + 1
    BY <1>5, <2>1
  <2>2. CASE c # taken + 1
    <3>1. c \in 1 .. taken
      BY <1>1, <1>3, <2>2
    <3> QED
      BY <1>2, <1>3, <1>4, <3>1 DEF HandsInv
  <2> QED
    BY <2>1, <2>2
<1> QED
  BY <1>7, <1>8, <1>9 DEF HandsInv

\* Only its own connection is closed by a thread.
LEMMA HandsClose ==
  ASSUME TypeOK, HandsInv, NEW t \in Threads, ServeAndClose(t)
  PROVE  HandsInv'
<1> USE DEF At, Goto
<1>1. /\ pc[t] = "web_child" /\ pc' = [pc EXCEPT ![t] = "lock"] /\ UNCHANGED taken
      /\ closed' = closed \cup {connfd[t]} /\ connfd' = [connfd EXCEPT ![t] = 0]
  BY DEF ServeAndClose
<1>2. connfd[t] # 0 /\ connfd[t] \in 1 .. taken
  BY <1>1 DEF TypeOK, HandsInv
<1>3. \A u \in Threads : u # t => connfd'[u] = connfd[u] /\ pc'[u] = pc[u]
  BY <1>1 DEF TypeOK
<1>4. connfd'[t] = 0 /\ pc'[t] = "lock"
  BY <1>1 DEF TypeOK
<1>5. closed' \subseteq 1 .. taken' /\ 0 \notin closed' /\ taken \in Nat
  <2>1. taken \in Nat /\ closed \subseteq 1 .. taken
    BY DEF HandsInv, TypeOK
  <2>2. closed' \subseteq 1 .. taken /\ taken' = taken
    BY <1>1, <1>2, <2>1
  <2>3. 0 \notin 1 .. taken
    BY <2>1
  <2> QED
    BY <2>1, <2>2, <2>3
<1>6. ASSUME NEW u \in Threads
      PROVE  /\ pc'[u] \in {"advance", "unlock", "web_child"} <=> connfd'[u] # 0
             /\ connfd'[u] <= taken' /\ connfd'[u] \notin closed'
             /\ pc'[u] = "advance" => connfd'[u] = taken'
             /\ \A v \in Threads : connfd'[u] = connfd'[v] /\ connfd'[u] # 0 => u = v
  <2>1. CASE u = t
    BY <1>1, <1>4, <1>5, <2>1
  <2>2. CASE u # t
    BY <1>1, <1>2, <1>3, <1>4, <2>2 DEF HandsInv
  <2> QED
    BY <2>1, <2>2
<1>7. ASSUME NEW c \in 1 .. taken' PROVE c \in closed' \/ \E u \in Threads : connfd'[u] = c
  BY <1>1, <1>3, <1>7 DEF HandsInv
<1> QED
  BY <1>5, <1>6, <1>7 DEF HandsInv

\* Every step leaves each connection taken with one thread or closed.
LEMMA HandsStep ==
  ASSUME TypeOK, MutexInv, RingInv, HandsInv, Next
  PROVE  HandsInv'
<1> USE DEF At, MainAt, Goto
<1>1. CASE Accept \/ EndProcess \/ MainLock \/ Store \/ AdvancePut \/ MainUnlock
  BY <1>1, HandsSame DEF Accept, EndProcess, MainLock, Store, AdvancePut, MainUnlock
<1>2. CASE Signal
  <2>1. \A t \in Threads : pc'[t] = pc[t] \/ (pc[t] = "cond_wait" /\ pc'[t] = "relock")
    BY <1>2 DEF Signal, TypeOK
  <2> QED
    BY <1>2, <2>1, HandsSame DEF Signal
<1>3. ASSUME NEW t \in Threads, ThreadStep(t) PROVE HandsInv'
  <2>1. CASE ThreadLock(t) \/ Relock(t) \/ Wait(t) \/ TestSucceeds(t)
    <3>1. /\ UNCHANGED <<connfd, taken, closed>>
          /\ \A u \in Threads :
               \/ pc'[u] = pc[u]
               \/ /\ pc[u] \in {"lock", "relock", "test"}
                  /\ pc'[u] \in {"test", "take", "cond_wait"}
      BY <2>1 DEF ThreadLock, Relock, Wait, TestSucceeds, TypeOK
    <3> QED
      BY <3>1, HandsSame
  <2>2. CASE AdvanceGet(t) \/ ThreadUnlock(t)
    <3>1. /\ UNCHANGED <<connfd, taken, closed>>
          /\ \A u \in Threads :
               \/ pc'[u] = pc[u]
               \/ pc[u] = "advance" /\ pc'[u] = "unlock"
               \/ pc[u] = "unlock" /\ pc'[u] = "web_child"
      BY <2>2 DEF AdvanceGet, ThreadUnlock, TypeOK
    <3> QED
      BY <3>1, HandsSame
  <2>3. CASE Take(t)
    BY <2>3, HandsTake
  <2> QED
    BY <1>3, <2>1, <2>2, <2>3 DEF ThreadStep
<1>4. ASSUME NEW t \in Threads, SpuriousWakeup(t) PROVE HandsInv'
  <2>1. /\ UNCHANGED <<connfd, taken, closed>>
        /\ \A u \in Threads : pc'[u] = pc[u] \/ (pc[u] = "cond_wait" /\ pc'[u] = "relock")
    BY <1>4 DEF SpuriousWakeup, TypeOK
  <2> QED
    BY <2>1, HandsSame
<1>5. ASSUME NEW t \in Threads, ServeAndClose(t) PROVE HandsInv'
  BY <1>5, HandsClose
<1> QED
  BY <1>1, <1>2, <1>3, <1>4, <1>5 DEF Next, MainStep

-----------------------------------------------------------------------------
(* The theorems                                                              *)

LEMMA PoolStep == IInv /\ [Next]_vars => IInv'
<1> SUFFICES ASSUME IInv, [Next]_vars PROVE IInv'
  OBVIOUS
<1>1. CASE UNCHANGED vars
  BY <1>1 DEF vars, ring, IInv, TypeOK, InMutex, MutexInv, RingInv, Put, Got, Pending,
              Length, After, HandsInv
<1>2. CASE Next
  BY <1>2, NextRuns, TypeStep, MutexStep, RingStep, HandsStep DEF IInv
<1> QED
  BY <1>1, <1>2

\* Types, mutex, ring and descriptors are an inductive invariant.
THEOREM Inductive == Spec => []IInv
BY InitInv, PoolStep, PTL DEF Spec

\* Indices stay on the ring, places and owners what they can be.
THEOREM Typing == Spec => []TypeOK
<1>1. IInv => TypeOK
  BY DEF IInv
<1> QED
  BY Inductive, <1>1, PTL

\* The connections on the ring are the ones that iget has not passed.
LEMMA QueuedIs ==
  ASSUME TypeOK, RingInv, NEW c \in Queued
  PROVE  c \in Got + 1 .. Got + Length
<1>1. PICK j \in Slots : /\ c = clifd[j]
                         /\ IF iget <= iput THEN iget <= j /\ j < iput ELSE j >= iget \/ j < iput
  BY DEF Queued
<1> DEFINE k == IF j >= iget THEN j - iget ELSE j - iget + MAXNCLI
<1>2. k \in Nat /\ k < Length /\ After(iget, k) = j
  BY <1>1, RingAssumption DEF TypeOK, Slots, Length, After
<1>3. clifd[j] = Got + 1 + k
  BY <1>2 DEF RingInv
<1>4. Got \in Int /\ Length \in Nat
  BY PendingIs, LengthBound, RingAssumption DEF Got, TypeOK
<1> QED
  BY <1>1, <1>2, <1>3, <1>4

LEMMA QueuedAll ==
  ASSUME TypeOK, RingInv, NEW c \in Got + 1 .. Got + Length
  PROVE  c \in Queued
<1> DEFINE k == c - Got - 1
<1>1. Got \in Int /\ Length \in Nat
  BY PendingIs, LengthBound, RingAssumption DEF Got, TypeOK
<1>2. k \in Nat /\ k < Length /\ c = Got + 1 + k
  BY <1>1
<1>3. clifd[After(iget, k)] = c
  BY <1>2 DEF RingInv
<1>4. After(iget, k) \in Slots
  BY <1>2, LengthBound
<1>5. LET j == After(iget, k)
      IN  IF iget <= iput THEN iget <= j /\ j < iput ELSE j >= iget \/ j < iput
  BY <1>2, RingAssumption DEF TypeOK, Slots, Length, After
<1> QED
  BY <1>3, <1>4, <1>5 DEF Queued

\* pthread08.c:21-31: every accepted descriptor is on its way to the ring, on the
\* ring, in the hands of one thread, or closed, and in one of these places only.
THEOREM OneOwnerEach == Spec => []OneOwner
<1>1. IInv => OneOwner
  <2> SUFFICES ASSUME IInv, status = "running", NEW c \in 1 .. accepted
               PROVE  LET inMain == c = accepted /\ mpc \in {"lock", "store", "advance"}
                          inRing == c \in Queued /\ ~(c = taken /\ Pending = 1)
                      IN  /\ Cardinality(Owners(c)) <= 1
                          /\ inMain \/ inRing \/ Owners(c) # {} \/ c \in closed
                          /\ ~(inRing /\ (Owners(c) # {} \/ c \in closed))
                          /\ ~(Owners(c) # {} /\ c \in closed)
    BY DEF OneOwner
  <2> USE DEF IInv, Owners
  <2>1. \A t, u \in Owners(c) : t = u
    BY DEF HandsInv, TypeOK
  <2>2. Cardinality(Owners(c)) <= 1
    <3>1. CASE Owners(c) = {}
      BY <3>1, FS_EmptySet
    <3>2. CASE Owners(c) # {}
      <4>1. PICK t : Owners(c) = {t}
        BY <2>1, <3>2
      <4>2. Cardinality({t}) = 1
        BY FS_Singleton
      <4> QED
        BY <4>1, <4>2 DEF Owners
    <3> QED
      BY <3>1, <3>2
  <2>3. Owners(c) # {} \/ c \in closed => c <= taken
    BY DEF HandsInv, TypeOK
  <2>4. ~(Owners(c) # {} /\ c \in closed)
    BY DEF HandsInv
  <2>5. Pending \in {0, 1} /\ taken \in Nat /\ accepted \in Nat /\ Length \in Nat
    BY LengthBound, RingAssumption DEF Pending, TypeOK
  <2>6. c \in Queued /\ ~(c = taken /\ Pending = 1) => c > taken
    BY <2>5, QueuedIs DEF Got
  <2>7. CASE c <= taken
    BY <2>2, <2>4, <2>5, <2>6, <2>7 DEF HandsInv
  <2>8. CASE c > taken /\ ~(c = accepted /\ mpc \in {"lock", "store", "advance"})
    <3>1. c <= Got + Length
      BY <2>5, <2>8 DEF RingInv, Put
    <3>2. c \in Queued
      BY <2>5, <2>8, <3>1, QueuedAll DEF Got
    <3> QED
      BY <2>2, <2>3, <2>4, <2>5, <2>8, <3>2
  <2>9. CASE c > taken /\ c = accepted /\ mpc \in {"lock", "store", "advance"}
    BY <2>2, <2>3, <2>4, <2>5, <2>9
  <2> QED
    BY <2>5, <2>7, <2>8, <2>9
<1> QED
  BY Inductive, <1>1, PTL

\* Each step of the pool is a step of FifoService or a stutter: the connections
\* are served once each, in the order accept returned them.
THEOREM Refinement == Spec => ServesInOrder
<1>1. Init => Fifo!ServiceInit
  BY DEF Init, Fifo!ServiceInit
<1>2. IInv /\ [Next]_vars => [Fifo!ServiceNext]_<<accepted, taken, status>>
  <2> SUFFICES ASSUME IInv, [Next]_vars PROVE [Fifo!ServiceNext]_<<accepted, taken, status>>
    OBVIOUS
  <2> USE DEF Fifo!ServiceNext, Fifo!Accept, Fifo!Serve, Fifo!End
  <2>1. CASE UNCHANGED vars
    BY <2>1 DEF vars
  <2>2. CASE Accept
    BY <2>2 DEF Accept
  <2>3. CASE AdvancePut
    BY <2>3 DEF AdvancePut, MainAt
  <2>4. CASE MainLock \/ Store \/ Signal \/ MainUnlock
    BY <2>4 DEF MainLock, Store, Signal, MainUnlock
  <2>5. CASE EndProcess
    BY <2>5 DEF EndProcess
  <2>6. ASSUME NEW t \in Threads, Take(t)
        PROVE  [Fifo!ServiceNext]_<<accepted, taken, status>>
    <3>1. status = "running" /\ UNCHANGED <<accepted, status>>
      BY <2>6 DEF Take, At
    <3>2. taken' = taken + 1 /\ taken + 1 <= accepted
      BY <2>6, <3>1, RingTake DEF IInv
    <3>3. taken < accepted
      BY <3>2 DEF IInv, TypeOK
    <3> QED
      BY <3>1, <3>2, <3>3
  <2>7. ASSUME NEW t \in Threads,
               \/ ThreadLock(t) \/ Relock(t) \/ Wait(t) \/ TestSucceeds(t) \/ AdvanceGet(t)
               \/ ThreadUnlock(t) \/ SpuriousWakeup(t) \/ ServeAndClose(t)
        PROVE  UNCHANGED <<accepted, taken, status>>
    BY <2>7 DEF ThreadLock, Relock, Wait, TestSucceeds, AdvanceGet, ThreadUnlock,
                SpuriousWakeup, ServeAndClose
  <2> QED
    BY <2>1, <2>2, <2>3, <2>4, <2>5, <2>6, <2>7 DEF Next, MainStep, ThreadStep
<1> QED
  BY Inductive, <1>1, <1>2, PTL DEF Spec, ServesInOrder, Fifo!ServiceSpec

-----------------------------------------------------------------------------
(* The wakeups: EnoughAwake is inductive once the ring is in order, with the  *)
(* connections on the ring counted by Length.                                 *)

Owed == IF mpc = "signal" THEN 1 ELSE 0
AwakeInv ==
  status = "running" /\ (\E t \in Threads : pc[t] = "cond_wait")
    => Length <= Cardinality(Awake) + Owed

LEMMA AwakeFinite ==
  IsFiniteSet(Awake) /\ Cardinality(Awake) \in Nat
<1>1. Awake \in SUBSET Threads
  BY DEF Awake
<1> QED
  BY <1>1, PoolAssumption, FS_Subset, FS_CardinalityType

LEMMA QueuedCount ==
  ASSUME TypeOK, RingInv
  PROVE  Cardinality(Queued) = Length
<1>1. Got \in Int /\ Length \in Nat
  BY PendingIs, LengthBound, RingAssumption DEF Got, TypeOK
<1>2. Queued = Got + 1 .. Got + Length
  BY QueuedIs, QueuedAll
<1>3. Cardinality(Got + 1 .. Got + Length) = Length
  <2> DEFINE x == Got + 1
             y == Got + Length
  <2>1. x \in Int /\ y \in Int /\ (IF x > y THEN 0 ELSE y - x + 1) = Length
    BY <1>1
  <2> HIDE DEF x, y
  <2>2. Cardinality(x .. y) = Length
    BY <2>1, FS_Interval
  <2> QED
    BY <2>2 DEF x, y
<1> QED
  BY <1>2, <1>3

LEMMA AwakeFiniteNext == Cardinality(Awake)' \in Nat
<1>1. Awake' \in SUBSET Threads
  BY DEF Awake
<1> QED
  BY <1>1, PoolAssumption, FS_Subset, FS_CardinalityType

\* The length of a ring of m slots between g and p.
LEMMA RingLength ==
  ASSUME NEW m \in Nat, NEW g \in 0 .. m - 1, NEW p \in 0 .. m - 1
  PROVE  /\ (IF g <= p THEN p - g ELSE p - g + m) \in Nat
         /\ g <= p /\ p <= g => p - g = 0
OBVIOUS

\* A thread that goes to the mutex joins those awake; the one that leaves the ring
\* leaves them.
LEMMA AwakeJoin ==
  ASSUME TypeOK, NEW t \in Threads, NEW place \in {"lock", "relock"},
         pc[t] \in {"cond_wait", "web_child"}, Goto(t, place)
  PROVE  Cardinality(Awake)' = Cardinality(Awake) + 1
<1>1. Awake' = Awake \cup {t} /\ t \notin Awake
  BY DEF TypeOK, Goto, Awake
<1> QED
  BY <1>1, AwakeFinite, FS_AddElement

LEMMA AwakeLeave ==
  ASSUME TypeOK, NEW t \in Threads, pc[t] = "advance", Goto(t, "unlock")
  PROVE  Cardinality(Awake)' = Cardinality(Awake) - 1
<1>1. Awake' = Awake \ {t} /\ t \in Awake
  BY DEF TypeOK, Goto, Awake
<1> QED
  BY <1>1, AwakeFinite, FS_RemoveElement

LEMMA AwakeStep ==
  ASSUME IInv, IInv', AwakeInv, [Next]_vars
  PROVE  AwakeInv'
<1> SUFFICES ASSUME status' = "running", \E t \in Threads : pc'[t] = "cond_wait"
             PROVE  Length' <= Cardinality(Awake)' + Owed'
  BY DEF AwakeInv
<1> DEFINE a == Cardinality(Awake)
           waits == \E t \in Threads : pc[t] = "cond_wait"
<1>0. /\ iget \in 0 .. MAXNCLI - 1 /\ iput \in 0 .. MAXNCLI - 1
      /\ iget' \in 0 .. MAXNCLI - 1 /\ iput' \in 0 .. MAXNCLI - 1 /\ MAXNCLI \in Nat
      /\ iget' \in Int /\ iput' \in Int
  BY RingAssumption DEF IInv, TypeOK, Slots
<1>1. /\ TypeOK /\ TypeOK' /\ a \in Nat /\ a' \in Nat /\ Length \in Nat /\ Length' \in Nat
      /\ Owed \in {0, 1} /\ Owed' \in {0, 1}
      /\ status = "running" /\ waits => Length <= a + Owed
  <2>1. TypeOK /\ TypeOK'
    BY DEF IInv
  <2>2. a \in Nat /\ a' \in Nat
    BY AwakeFinite, AwakeFiniteNext
  <2>3. Length \in Nat
    BY <2>1, LengthBound, RingAssumption
  <2>4. Length' \in Nat
    BY <1>0, RingLength DEF Length
  <2> QED
    BY <2>1, <2>2, <2>3, <2>4 DEF AwakeInv, Owed
<1>2. CASE UNCHANGED vars
  BY <1>1, <1>2 DEF vars, ring, Length, Owed, Awake
<1>3. CASE Accept \/ MainLock \/ Store \/ MainUnlock \/ EndProcess
  <2>1. UNCHANGED <<pc, iget, iput>> /\ status = "running" /\ Owed = 0
    BY <1>3 DEF Accept, MainLock, Store, MainUnlock, EndProcess, MainAt, ring, Owed
  <2>2. Length' = Length /\ Awake' = Awake
    BY <2>1 DEF Length, Awake
  <2> QED
    BY <1>1, <2>1, <2>2
<1>4. CASE AdvancePut
  <2>1. /\ status = "running" /\ mpc = "advance" /\ mpc' = "signal" /\ iput' = Succ(iput)
        /\ iput' # iget /\ UNCHANGED <<pc, iget>>
    BY <1>4 DEF AdvancePut, MainAt
  <2>2. Length' = Length + 1
    BY <1>0, <2>1 DEF Length, Succ
  <2>3. Awake' = Awake /\ Owed = 0 /\ Owed' = 1
    BY <2>1 DEF Awake, Owed
  <2> QED
    BY <1>1, <2>1, <2>2, <2>3
<1>5. CASE Signal
  <2>1. /\ mpc = "signal" /\ mpc' = "unlock" /\ UNCHANGED <<iget, iput, status>>
        /\ \E t \in Threads : pc[t] = "cond_wait" /\ Goto(t, "relock")
    BY <1>5 DEF Signal, MainAt, ring
  <2>2. PICK t \in Threads : pc[t] = "cond_wait" /\ Goto(t, "relock")
    BY <2>1
  <2>3. a' = a + 1
    BY <1>1, <2>2, AwakeJoin
  <2>4. Length' = Length /\ Owed = 1 /\ Owed' = 0
    BY <2>1 DEF Length, Owed
  <2>5. waits
    BY <2>2
  <2> HIDE DEF a, waits
  <2>6. Length' <= a' + Owed'
    BY <1>1, <2>1, <2>3, <2>4, <2>5
  <2> QED
    BY <2>6 DEF a
<1>6. ASSUME NEW t \in Threads, ThreadLock(t) \/ Relock(t) \/ TestSucceeds(t) \/ Take(t)
                                 \/ ThreadUnlock(t)
      PROVE  Length' <= Cardinality(Awake)' + Owed'
  <2>1. UNCHANGED <<iget, iput, status, mpc>>
    BY <1>6 DEF ThreadLock, Relock, TestSucceeds, Take, ThreadUnlock, ring
  <2>2. Awake' = Awake /\ waits
    BY <1>1, <1>6 DEF ThreadLock, Relock, TestSucceeds, Take, ThreadUnlock, At, Goto, Awake, TypeOK
  <2>3. Length' = Length /\ Owed' = Owed
    BY <2>1 DEF Length, Owed
  <2> QED
    BY <1>1, <2>1, <2>2, <2>3
<1>7. ASSUME NEW t \in Threads, SpuriousWakeup(t) \/ ServeAndClose(t)
      PROVE  Length' <= Cardinality(Awake)' + Owed'
  <2>1. UNCHANGED <<iget, iput, status, mpc>> /\ status = "running"
    BY <1>7 DEF SpuriousWakeup, ServeAndClose, ring, At
  <2>2. a' = a + 1
    <3>1. CASE SpuriousWakeup(t)
      BY <1>1, <3>1, AwakeJoin DEF SpuriousWakeup, At
    <3>2. CASE ServeAndClose(t)
      BY <1>1, <3>2, AwakeJoin DEF ServeAndClose, At
    <3> QED
      BY <1>7, <3>1, <3>2
  <2>3. waits
    BY <1>1, <1>7 DEF SpuriousWakeup, ServeAndClose, At, Goto, TypeOK
  <2>4. Length' = Length /\ Owed' = Owed
    BY <2>1 DEF Length, Owed
  <2> HIDE DEF a, waits
  <2>5. Length' <= a' + Owed'
    BY <1>1, <2>1, <2>2, <2>3, <2>4
  <2> QED
    BY <2>5 DEF a
<1>8. ASSUME NEW t \in Threads, Wait(t)
      PROVE  Length' <= Cardinality(Awake)' + Owed'
  <2>1. iget' = iput'
    BY <1>8 DEF Wait, ring
  <2>2. Length' = 0
    <3>2. iget' <= iput' /\ iput' <= iget'
      BY <1>0, <2>1
    <3>1. iget' <= iput' /\ iput' - iget' = 0
      BY <1>0, <3>2, RingLength
    <3> QED
      BY <3>1 DEF Length
  <2> HIDE DEF a
  <2>3. Length' <= a' + Owed'
    <3>1. a' \in Nat /\ Owed' \in {0, 1}
      BY <1>1
    <3>2. \A x \in Nat, y \in {0, 1} : 0 <= x + y
      OBVIOUS
    <3>3. 0 <= a' + Owed'
      BY <3>1, <3>2, Zenon
    <3> QED
      BY <2>2, <3>3, Zenon
  <2> QED
    BY <2>3 DEF a
<1>9. ASSUME NEW t \in Threads, AdvanceGet(t)
      PROVE  Length' <= Cardinality(Awake)' + Owed'
  <2>1. /\ pc[t] = "advance" /\ Goto(t, "unlock") /\ status = "running"
        /\ iget' = Succ(iget) /\ UNCHANGED <<iput, mpc, status>>
    BY <1>9 DEF AdvanceGet, At
  <2>2. iget # iput
    BY <2>1 DEF IInv, RingInv
  <2>3. Length' = Length - 1
    BY <1>0, <2>1, <2>2 DEF Length, Succ
  <2>4. a' = a - 1
    BY <1>1, <2>1, AwakeLeave
  <2>5. waits /\ Owed' = Owed
    BY <1>1, <2>1 DEF Goto, TypeOK, Owed
  <2> HIDE DEF a, waits
  <2>6. Length' <= a' + Owed'
    BY <1>1, <2>1, <2>3, <2>4, <2>5
  <2> QED
    BY <2>6 DEF a
<1> QED
  BY <1>2, <1>3, <1>4, <1>5, <1>6, <1>7, <1>8, <1>9 DEF Next, MainStep, ThreadStep

LEMMA AwakeInit == Init => AwakeInv
BY DEF Init, AwakeInv

LEMMA ConsistentIs == IInv /\ AwakeInv => Consistent
BY QueuedCount DEF IInv, AwakeInv, Consistent, EnoughAwake, Owed

-----------------------------------------------------------------------------
(* The counters of threads/example01.c and example02.c                       *)

CountTypes ==
  /\ sc_counter \in Nat /\ sc_steps \in Nat
  /\ sc_pc \in [SC!Tids -> {"loop", "load", "store", "unlock", "done"}]
  /\ sc_i \in [SC!Tids -> 0 .. CountLoop] /\ sc_val \in [SC!Tids -> Nat]
  /\ \A t \in SC!Tids : /\ sc_pc[t] \in {"load", "store", "unlock"} => sc_i[t] < CountLoop
                        /\ sc_pc[t] = "done" => sc_i[t] = CountLoop

Increments == sc_i["A"] + sc_i["B"]

\* With the mutex: its owner is the thread between lock and unlock, which has the
\* value of the counter, and the counter has counted every store.
Locked ==
  /\ sc_steps = 0
  /\ \A t \in SC!Tids : /\ sc_mutex = t <=> sc_pc[t] \in {"load", "store", "unlock"}
                        /\ sc_pc[t] = "store" => sc_val[t] = sc_counter
  /\ (\A t \in SC!Tids : sc_pc[t] # "unlock") => sc_counter = Increments
  /\ (\E t \in SC!Tids : sc_pc[t] = "unlock") => sc_counter = Increments + 1

\* Without: what a thread stores is never more than was counted, and from its
\* second turn on never less than two.
Unlocked ==
  /\ \A t \in SC!Tids :
       /\ sc_pc[t] # "unlock"
       /\ sc_pc[t] = "store" => /\ sc_val[t] <= Increments
                                /\ sc_i[t] > 0 => sc_val[t] > 0
       /\ sc_i[t] > 0 => sc_counter > 0
  /\ sc_counter <= Increments
  /\ sc_steps = 0 => sc_counter = Increments
  /\ (\A t \in SC!Tids : sc_i[t] = CountLoop) => sc_counter > 1

CountInv ==
  /\ CountTypes
  /\ SC!Locking => Locked
  /\ ~SC!Locking => Unlocked

LEMMA CountInit == SC!Init => CountInv
BY CountAssumption DEF SC!Init, CountInv, CountTypes, Locked, Unlocked, Increments, SC!Tids

LEMMA CountStep == CountInv /\ [SC!Next]_sc_vars => CountInv'
<1> SUFFICES ASSUME CountInv, [SC!Next]_sc_vars PROVE CountInv'
  OBVIOUS
<1>1. CASE UNCHANGED sc_vars
  BY <1>1 DEF sc_vars, CountInv, CountTypes, Locked, Unlocked, Increments, SC!Locking
<1>2. ASSUME NEW t \in SC!Tids, SC!Loop(t) \/ SC!Load(t) \/ SC!Store(t) \/ SC!Unlock(t)
      PROVE  CountInv'
  <2> DEFINE other == IF t = "A" THEN "B" ELSE "A"
  <2>0. other \in SC!Tids /\ other # t /\ SC!Tids = {t, other} /\ t # None /\ other # None
    BY <1>2, CountAssumption DEF SC!Tids
  <2> HIDE DEF other
  <2>1. CountTypes
    BY DEF CountInv
  <2>2. SC!Locking' = SC!Locking
    BY <1>2 DEF SC!Loop, SC!Load, SC!Store, SC!Unlock, SC!Locking
  <2>3. CountTypes'
    BY <1>2, <2>0, <2>1, CountAssumption
    DEF CountTypes, SC!Loop, SC!Load, SC!Store, SC!Unlock, SC!Move
  <2>10. t \in {"A", "B"} /\ other = IF t = "A" THEN "B" ELSE "A"
    BY <1>2 DEF SC!Tids, other
  <2>11. Increments = sc_i[t] + sc_i[other] /\ Increments' = sc_i'[t] + sc_i'[other]
    BY <2>1, <2>3, <2>10 DEF Increments, CountTypes, SC!Tids
  <2>4. ASSUME SC!Locking PROVE Locked'
    <3>1. Locked
      BY <2>4 DEF CountInv
    <3>2. CASE SC!Loop(t)
      BY <2>0, <2>1, <2>11, <2>4, <3>1, <3>2 DEF SC!Loop, SC!Move, CountTypes, Locked
    <3>3. CASE SC!Load(t)
      BY <2>0, <2>1, <2>11, <2>4, <3>1, <3>3 DEF SC!Load, SC!Move, CountTypes, Locked
    <3>4. CASE SC!Store(t)
      BY <2>0, <2>1, <2>11, <2>4, <3>1, <3>4 DEF SC!Store, SC!Move, CountTypes, Locked
    <3>5. CASE SC!Unlock(t)
      BY <2>0, <2>1, <2>11, <2>4, <3>1, <3>5 DEF SC!Unlock, SC!Move, CountTypes, Locked
    <3> QED
      BY <1>2, <3>2, <3>3, <3>4, <3>5
  <2>5. ASSUME ~SC!Locking PROVE Unlocked'
    <3>1. Unlocked
      BY <2>5 DEF CountInv
    <3>2. CASE SC!Loop(t)
      BY <2>0, <2>1, <2>11, <2>5, <3>1, <3>2 DEF SC!Loop, SC!Move, CountTypes, Unlocked
    <3>3. CASE SC!Load(t)
      BY <2>0, <2>1, <2>11, <2>5, <3>1, <3>3 DEF SC!Load, SC!Move, CountTypes, Unlocked
    <3>4. CASE SC!Store(t)
      <4>1. /\ sc_pc[t] = "store" /\ sc_pc' = [sc_pc EXCEPT ![t] = "loop"]
            /\ sc_i' = [sc_i EXCEPT ![t] = @ + 1] /\ UNCHANGED sc_val
            /\ sc_counter' = sc_val[t] + 1
            /\ sc_steps' = IF sc_counter' = sc_counter + 1 THEN sc_steps ELSE sc_steps + 1
        BY <2>1, <2>5, <3>4 DEF SC!Store, SC!Move, CountTypes
      <4>2. /\ sc_val[t] <= Increments /\ sc_counter <= Increments
            /\ sc_i[t] > 0 => sc_val[t] > 0
            /\ sc_steps = 0 => sc_counter = Increments
        BY <1>2, <3>1, <4>1 DEF Unlocked
      <4>3. Increments' = Increments + 1 /\ Increments \in Nat /\ sc_val[t] \in Nat
        BY <1>2, <2>0, <2>1, <2>11, <4>1 DEF CountTypes
      <4>4. sc_counter' <= Increments' /\ (sc_steps' = 0 => sc_counter' = Increments')
        BY <2>1, <4>1, <4>2, <4>3 DEF CountTypes
      <4>5. \A v \in SC!Tids :
              /\ sc_pc'[v] # "unlock"
              /\ sc_pc'[v] = "store" => /\ sc_val'[v] <= Increments'
                                        /\ sc_i'[v] > 0 => sc_val'[v] > 0
              /\ sc_i'[v] > 0 => sc_counter' > 0
        BY <2>0, <2>1, <3>1, <4>1, <4>3 DEF CountTypes, Unlocked
      <4>6. (\A v \in SC!Tids : sc_i'[v] = CountLoop) => sc_counter' > 1
        BY <1>2, <2>1, <4>1, <4>2, CountAssumption DEF CountTypes
      <4> QED
        BY <4>4, <4>5, <4>6 DEF Unlocked
    <3>5. CASE SC!Unlock(t)
      BY <2>0, <2>1, <2>11, <2>5, <3>1, <3>5 DEF SC!Unlock, SC!Move, CountTypes, Unlocked
    <3> QED
      BY <1>2, <3>2, <3>3, <3>4, <3>5
  <2> QED
    BY <2>2, <2>3, <2>4, <2>5 DEF CountInv
<1> QED
  BY <1>1, <1>2 DEF SC!Next

LEMMA CountMeans == CountInv => SC!CounterCounts
BY CountAssumption DEF CountInv, CountTypes, Locked, Unlocked, Increments, SC!CounterCounts,
   SC!Total, SC!Tids

-----------------------------------------------------------------------------
(* The functions that read lines.  The bytes of a thread are in what its calls *)
(* returned, then in the line of the call that runs, then in its buffer, each  *)
(* part the bytes of the descriptor that follow the part before it.            *)

RlBytes == Seq(Readers \X Nat)
RlCalls == Seq([bytes : RlBytes, n : Nat])
Open(t) == rl_pc[t] \in {"loop", "read", "take"}
Held(t) == IF Open(t) THEN Len(rl_line[t]) ELSE 0
Kept(t) == IF rl_read_cnt[t] > 0 THEN rl_read_cnt[t] ELSE 0

RlTypes ==
  /\ rl_version \in RL!Versions /\ rl_text \in Seq({"x", "nl"})
  /\ rl_pc \in [Readers -> {"idle", "loop", "read", "take", "done"}]
  /\ rl_at \in [Readers -> Nat] /\ rl_n \in [Readers -> Nat]
  /\ rl_read_cnt \in [Readers -> Int] /\ rl_read_ptr \in [Readers -> Nat]
  /\ rl_read_buf \in [Readers -> RlBytes]
  /\ rl_line \in [Readers -> RlBytes] /\ rl_stream \in [Readers -> RlBytes]
  /\ rl_got \in [Readers -> RlCalls]

Flow(t) ==
  /\ rl_stream[t] = RL!Bytes(t, 0, Len(rl_stream[t]))
  /\ Open(t) => rl_line[t] = RL!Bytes(t, Len(rl_stream[t]), Len(rl_line[t]))
  /\ Len(rl_stream[t]) + Held(t) + Kept(t) = rl_at[t]
  /\ rl_at[t] <= Len(rl_text)

\* What is in the buffer was read last.
Ahead(t) ==
  rl_read_cnt[t] > 0 =>
    /\ Len(rl_read_buf[t]) <= rl_at[t] /\ rl_read_ptr[t] > 0
    /\ rl_read_buf[t] = RL!Bytes(t, rl_at[t] - Len(rl_read_buf[t]), Len(rl_read_buf[t]))
    /\ rl_read_ptr[t] - 1 + rl_read_cnt[t] = Len(rl_read_buf[t])

Control(t) ==
  /\ rl_pc[t] \in {"read", "take"} => rl_version \in RL!Buffered /\ rl_n[t] < MAXLINE
  /\ rl_pc[t] \in {"read", "done"} => rl_read_cnt[t] <= 0
  /\ rl_pc[t] = "take" => rl_read_cnt[t] > 0
  /\ rl_version \notin RL!Buffered => rl_read_cnt[t] <= 0

\* A newline, in the text txt.
Ends(txt, c) == c[2] > 0 /\ txt[c[2]] = "nl"

Line(t) ==
  Open(t) =>
    IF rl_version = "readn" THEN Len(rl_line[t]) <= MAXLINE
    ELSE /\ rl_n[t] = Len(rl_line[t]) + 1 /\ rl_n[t] <= MAXLINE
         /\ \A i \in 1 .. Len(rl_line[t]) : ~Ends(rl_text, rl_line[t][i])

\* EndsRightly and ResultOf, of a call that returned e, in one formula.
Right(v, txt, e) ==
  LET b == e.bytes
      last == b[Len(b)]
  IN  /\ v # "readn" => \A i \in 1 .. Len(b) - 1 : ~Ends(txt, b[i])
      /\ \/ v # "readn" /\ b # <<>> /\ Ends(txt, last)
         \/ Len(b) = (IF v = "readn" THEN MAXLINE ELSE MAXLINE - 1)
         \/ b = <<>> \/ last[2] = Len(txt)
      /\ e.n = IF \/ v # "readn" /\ Len(b) = MAXLINE - 1 /\ ~Ends(txt, last)
                  \/ v \in RL!BreaksAtEof /\ b # <<>> /\ ~Ends(txt, last)
               THEN Len(b) + 1 ELSE Len(b)
AllRight(t) == \A i \in 1 .. Len(rl_got[t]) : Right(rl_version, rl_text, rl_got[t][i])

ReadInv ==
  RlTypes /\ \A t \in Readers : Flow(t) /\ Ahead(t) /\ Control(t) /\ Line(t) /\ AllRight(t)

-----------------------------------------------------------------------------

LEMMA BytesAre ==
  ASSUME NEW t \in Readers, NEW i \in Nat, NEW k \in Nat
  PROVE  /\ RL!Bytes(t, i, k) \in RlBytes /\ Len(RL!Bytes(t, i, k)) = k
         /\ \A j \in 1 .. k : RL!Bytes(t, i, k)[j] = <<t, i + j>>
BY DEF RL!Bytes, RlBytes

LEMMA BytesJoin ==
  ASSUME NEW t \in Readers, NEW i \in Nat, NEW k \in Nat, NEW m \in Nat
  PROVE  RL!Bytes(t, i, k) \o RL!Bytes(t, i + k, m) = RL!Bytes(t, i, k + m)
<1> DEFINE a == RL!Bytes(t, i, k)
           b == RL!Bytes(t, i + k, m)
           c == RL!Bytes(t, i, k + m)
<1>1. /\ a \in RlBytes /\ Len(a) = k /\ \A j \in 1 .. k : a[j] = <<t, i + j>>
      /\ b \in RlBytes /\ Len(b) = m /\ \A j \in 1 .. m : b[j] = <<t, i + k + j>>
      /\ c \in RlBytes /\ Len(c) = k + m /\ \A j \in 1 .. k + m : c[j] = <<t, i + j>>
  <2>1. i + k \in Nat /\ k + m \in Nat
    OBVIOUS
  <2> QED
    BY <2>1, BytesAre, Zenon
<1> HIDE DEF a, b, c
<1>2. /\ a \o b \in RlBytes /\ Len(a \o b) = k + m
      /\ \A j \in 1 .. k + m : (a \o b)[j] = IF j <= k THEN a[j] ELSE b[j - k]
  BY <1>1, ConcatProperties DEF RlBytes
<1>3. ASSUME NEW j \in 1 .. k + m PROVE (a \o b)[j] = c[j]
  <2>1. (a \o b)[j] = IF j <= k THEN a[j] ELSE b[j - k]
    BY <1>2
  <2>2. c[j] = <<t, i + j>>
    BY <1>1
  <2>3. CASE j \in 1 .. k
    <3>1. a[j] = <<t, i + j>> /\ j <= k
      BY <1>1, <2>3
    <3> QED
      BY <2>1, <2>2, <3>1, Zenon
  <2>4. CASE j - k \in 1 .. m
    <3>1. i + k + (j - k) = i + j /\ ~(j <= k)
      BY <2>4
    <3>2. b[j - k] = <<t, i + k + (j - k)>>
      BY <1>1, <2>4, Zenon
    <3> QED
      BY <2>1, <2>2, <3>1, <3>2, Zenon
  <2>5. j \in 1 .. k \/ j - k \in 1 .. m
    OBVIOUS
  <2> QED
    BY <2>3, <2>4, <2>5, Zenon
<1>4. a \o b = c
  BY <1>1, <1>2, <1>3, SeqEqual DEF RlBytes
<1> QED
  BY <1>4 DEF a, b, c

LEMMA BytesAppend ==
  ASSUME NEW t \in Readers, NEW i \in Nat, NEW k \in Nat
  PROVE  Append(RL!Bytes(t, i, k), <<t, i + k + 1>>) = RL!Bytes(t, i, k + 1)
<1> DEFINE a == RL!Bytes(t, i, k)
           e == <<t, i + k + 1>>
           c == RL!Bytes(t, i, k + 1)
<1>1. /\ a \in RlBytes /\ Len(a) = k /\ \A j \in 1 .. k : a[j] = <<t, i + j>>
      /\ c \in RlBytes /\ Len(c) = k + 1 /\ \A j \in 1 .. k + 1 : c[j] = <<t, i + j>>
      /\ e \in Readers \X Nat /\ e = <<t, i + (k + 1)>>
  <2>1. k + 1 \in Nat /\ e \in Readers \X Nat /\ e = <<t, i + (k + 1)>>
    OBVIOUS
  <2>2. a \in RlBytes /\ Len(a) = k /\ \A j \in 1 .. k : a[j] = <<t, i + j>>
    BY BytesAre
  <2>3. c \in RlBytes /\ Len(c) = k + 1 /\ \A j \in 1 .. k + 1 : c[j] = <<t, i + j>>
    BY <2>1, BytesAre
  <2> QED
    BY ONLY <2>1, <2>2, <2>3
<1> HIDE DEF a, e, c
<1>2. /\ Append(a, e) \in RlBytes /\ Len(Append(a, e)) = k + 1
      /\ \A j \in 1 .. k : Append(a, e)[j] = a[j]
      /\ Append(a, e)[k + 1] = e
  BY <1>1, AppendProperties DEF RlBytes
<1>3. ASSUME NEW j \in 1 .. k + 1 PROVE Append(a, e)[j] = c[j]
  <2>1. CASE j = k + 1
    BY <1>1, <1>2, <2>1
  <2>2. CASE j \in 1 .. k
    BY <1>1, <1>2, <2>2
  <2>3. j \in 1 .. k \/ j = k + 1
    OBVIOUS
  <2> QED
    BY <2>1, <2>2, <2>3, Zenon
<1>4. Append(a, e) = c
  BY <1>1, <1>2, <1>3, SeqEqual DEF RlBytes
<1> QED
  BY <1>4 DEF a, e, c

LEMMA BytesNone == ASSUME NEW t, NEW i \in Nat PROVE RL!Bytes(t, i, 0) = <<>>
BY DEF RL!Bytes

LEMMA BytesFrom ==
  ASSUME NEW t \in Readers, NEW i \in Nat, NEW k \in Nat, NEW m \in 1 .. k
  PROVE  SubSeq(RL!Bytes(t, i, k), m, k) = RL!Bytes(t, i + m - 1, k - m + 1)
<1> DEFINE a == RL!Bytes(t, i, k)
           b == SubSeq(a, m, k)
           c == RL!Bytes(t, i + m - 1, k - m + 1)
<1>0. i + m - 1 \in Nat /\ k - m + 1 \in Nat /\ m \in Int /\ k \in Int
  OBVIOUS
<1>1. /\ a \in RlBytes /\ Len(a) = k /\ \A j \in 1 .. k : a[j] = <<t, i + j>>
      /\ c \in RlBytes /\ Len(c) = k - m + 1
      /\ \A j \in 1 .. k - m + 1 : c[j] = <<t, i + m - 1 + j>>
  BY <1>0, BytesAre, Zenon
<1> HIDE DEF a, c
<1>2. \A j \in m .. k : a[j] \in Readers \X Nat
  BY <1>1, ElementOfSeq DEF RlBytes
<1>3. /\ b \in RlBytes /\ Len(b) = IF m <= k THEN k - m + 1 ELSE 0
      /\ \A j \in 1 .. k - m + 1 : b[j] = a[m + j - 1]
  BY <1>0, <1>2, SubSeqProperties DEF RlBytes
<1> HIDE DEF b
<1>4. Len(b) = k - m + 1
  BY <1>3
<1>5. ASSUME NEW j \in 1 .. k - m + 1 PROVE b[j] = c[j]
  <2>1. m + j - 1 \in 1 .. k /\ i + (m + j - 1) = i + m - 1 + j
    OBVIOUS
  <2>2. a[m + j - 1] = <<t, i + (m + j - 1)>>
    BY <1>1, <2>1, Zenon
  <2> QED
    BY <1>1, <1>3, <2>1, <2>2
<1>6. b = c
  BY <1>1, <1>3, <1>4, <1>5, SeqEqual DEF RlBytes
<1> QED
  BY <1>6 DEF a, b, c

LEMMA ReadMeans == ReadInv => RL!ReadsTheStream
<1> SUFFICES ASSUME ReadInv, NEW t \in RL!Callers
             PROVE  /\ rl_stream[t] \o RL!Unfinished(t) \o RL!Unread(t) = RL!Bytes(t, 0, rl_at[t])
                    /\ \A i \in DOMAIN rl_got[t] : Right(rl_version, rl_text, rl_got[t][i])
  BY DEF RL!ReadsTheStream, RL!NothingMixed, RL!LinesAreRight, Right, RL!EndsRightly,
         RL!ResultOf, RL!IsNewline, Ends, RL!Last
<1>0. t \in Readers
  BY ReadersAssumption DEF RL!Callers
<1>1. /\ RlTypes /\ Flow(t) /\ Ahead(t) /\ AllRight(t)
      /\ Len(rl_stream[t]) \in Nat /\ Held(t) \in Nat /\ Kept(t) \in Nat /\ rl_at[t] \in Nat
      /\ Len(rl_read_buf[t]) \in Nat /\ rl_read_ptr[t] \in Nat /\ rl_read_cnt[t] \in Int
      /\ rl_got[t] \in RlCalls
  <2>1. /\ RlTypes /\ Flow(t) /\ Ahead(t) /\ AllRight(t)
        /\ rl_stream[t] \in RlBytes /\ rl_line[t] \in RlBytes /\ rl_read_buf[t] \in RlBytes
        /\ rl_at[t] \in Nat /\ rl_read_ptr[t] \in Nat /\ rl_read_cnt[t] \in Int
        /\ rl_got[t] \in RlCalls
    BY <1>0 DEF ReadInv, RlTypes
  <2>2. \A s \in RlBytes : Len(s) \in Nat
    BY LenProperties DEF RlBytes
  <2> QED
    BY <2>1, <2>2 DEF Held, Kept
<1> DEFINE R == Len(rl_stream[t])
           H == Held(t)
           K == Kept(t)
           b == Len(rl_read_buf[t])
           p == rl_read_ptr[t]
           k == rl_read_cnt[t]
<1>2. RL!Unfinished(t) = RL!Bytes(t, R, H)
  <2>1. CASE Open(t)
    BY <1>1, <2>1 DEF Flow, Held, Open, RL!Unfinished
  <2>2. CASE ~Open(t)
    BY <1>1, <2>2, BytesNone DEF Held, Open, RL!Unfinished
  <2> QED
    BY <2>1, <2>2
<1>3. RL!Unread(t) = RL!Bytes(t, R + H, K)
  <2>1. CASE k > 0
    <3>1. /\ rl_read_buf[t] = RL!Bytes(t, rl_at[t] - b, b) /\ b <= rl_at[t]
          /\ p > 0 /\ p - 1 + k = b
      BY <1>1, <2>1 DEF Ahead
    <3>6. K = k /\ R + H + K = rl_at[t]
      BY <1>1, <2>1 DEF Kept, Flow
    <3>7. R \in Nat /\ H \in Nat /\ k \in Int /\ b \in Nat /\ p \in Nat /\ rl_at[t] \in Nat
      BY <1>1
    <3> HIDE DEF R, H, K, b, p, k
    <3>2. /\ p \in 1 .. b /\ rl_at[t] - b \in Nat /\ K = k /\ R + H + k = rl_at[t]
          /\ p + k - 1 = b
      BY <2>1, <3>1, <3>6, <3>7
    <3>3. SubSeq(RL!Bytes(t, rl_at[t] - b, b), p, b)
          = RL!Bytes(t, rl_at[t] - b + p - 1, b - p + 1)
      BY <1>0, <3>2, <3>7, BytesFrom
    <3>4. rl_at[t] - b + p - 1 = R + H /\ b - p + 1 = k
      BY <3>1, <3>2, <3>7
    <3>5. RL!Unread(t) = SubSeq(rl_read_buf[t], p, p + k - 1)
      BY DEF RL!Unread, RL!Place, p, k
    <3> QED
      BY <3>1, <3>2, <3>3, <3>4, <3>5, Zenon
  <2>2. CASE ~(k > 0)
    <3>1. SubSeq(rl_read_buf[t], p, p + k - 1) = <<>>
      <4>1. \A i \in p .. p + k - 1 : rl_read_buf[t][i] \in Readers \X Nat
        BY <1>1, <2>2
      <4>2. p \in Int /\ p + k - 1 \in Int /\ ~(p <= p + k - 1)
        BY <1>1, <2>2
      <4> HIDE DEF p, k
      <4>3. /\ SubSeq(rl_read_buf[t], p, p + k - 1) \in Seq(Readers \X Nat)
            /\ Len(SubSeq(rl_read_buf[t], p, p + k - 1)) = 0
        BY <4>1, <4>2, SubSeqProperties
      <4> QED
        BY <4>3, EmptySeq
    <3>2. RL!Unread(t) = SubSeq(rl_read_buf[t], p, p + k - 1)
      BY DEF RL!Unread, RL!Place
    <3>3. K = 0 /\ R + H \in Nat
      BY <1>1, <2>2 DEF Kept
    <3>4. RL!Bytes(t, R + H, 0) = <<>>
      BY <3>3, BytesNone
    <3> QED
      BY <3>1, <3>2, <3>3, <3>4
  <2> QED
    BY <2>1, <2>2
<1>4. /\ rl_stream[t] = RL!Bytes(t, 0, R) /\ R \in Nat /\ H \in Nat /\ K \in Nat
      /\ rl_at[t] = R + H + K
  BY <1>1 DEF Flow
<1> HIDE DEF R, H, K, b, p, k
<1>7. 0 + R = R /\ 0 + (R + H) = R + H /\ R + H \in Nat /\ 0 \in Nat
  BY <1>4
<1>5. RL!Bytes(t, 0, R) \o RL!Bytes(t, 0 + R, H) = RL!Bytes(t, 0, R + H)
  BY <1>0, <1>4, <1>7, BytesJoin, Zenon
<1>6. RL!Bytes(t, 0, R + H) \o RL!Bytes(t, 0 + (R + H), K) = RL!Bytes(t, 0, R + H + K)
  BY <1>0, <1>4, <1>7, BytesJoin, Zenon
<1>8. DOMAIN rl_got[t] = 1 .. Len(rl_got[t])
  BY <1>1, LenProperties DEF RlCalls
<1> QED
  BY <1>1, <1>2, <1>3, <1>4, <1>5, <1>6, <1>7, <1>8, Zenon DEF AllRight

-----------------------------------------------------------------------------

LEMMA ReadInit == RL!Init => ReadInv
<1> SUFFICES ASSUME RL!Init PROVE ReadInv
  OBVIOUS
<1>1. rl_text \in Seq({"x", "nl"})
  BY ReadersAssumption DEF RL!Init, Texts, Text
<1>2. RlTypes
  BY <1>1 DEF RL!Init, RlTypes, RlBytes, RlCalls
<1>3. ASSUME NEW t \in Readers PROVE Flow(t) /\ Ahead(t) /\ Control(t) /\ Line(t) /\ AllRight(t)
  <2>1. /\ rl_pc[t] = "idle" /\ rl_at[t] = 0 /\ rl_read_cnt[t] = 0
        /\ rl_stream[t] = <<>> /\ rl_got[t] = <<>>
    BY DEF RL!Init
  <2>2. RL!Bytes(t, 0, 0) = <<>> /\ Len(<<>>) = 0 /\ Len(rl_text) \in Nat
    BY <1>1, BytesNone
  <2> QED
    BY <2>1, <2>2 DEF Flow, Ahead, Control, Line, AllRight, Open, Held, Kept
<1> QED
  BY <1>2, <1>3 DEF ReadInv

RlStep(t) == RL!Step(t) \/ RL!FillInterrupted(t) \/ RL!ReadInterrupted(t)

\* A thread's state, and that a step of another leaves it alone.
Own(t) == <<rl_pc[t], rl_at[t], rl_read_cnt[t], rl_read_ptr[t], rl_read_buf[t],
            rl_line[t], rl_n[t], rl_got[t], rl_stream[t]>>

LEMMA InputKept == ASSUME NEW t \in Readers, RlStep(t) PROVE UNCHANGED <<rl_version, rl_text>>
BY DEF RlStep, RL!Step, RL!Call, RL!LineFull, RL!MyRead, RL!Fill, RL!FillEof, RL!Take, RL!ReadByte,
   RL!ReadSome, RL!ReadnReturns, RL!Reopen, RL!FillInterrupted, RL!ReadInterrupted,
   RL!Interrupted, RL!input

LEMMA Elsewhere ==
  ASSUME RlTypes, NEW t \in Readers, RlStep(t), NEW u \in Readers, u # t
  PROVE  UNCHANGED Own(u)
<1> USE DEF RlTypes, Own, RL!Goto, RL!Return, RL!Fail, RL!Place, RL!AtEof, RL!Store,
            RL!Interrupted, RL!buffer, RL!call, RL!returned
<1>1. CASE RL!Call(t) \/ RL!LineFull(t) \/ RL!MyRead(t) \/ RL!Reopen(t)
  BY <1>1 DEF RL!Call, RL!LineFull, RL!MyRead, RL!Reopen
<1>2. CASE RL!Fill(t) \/ RL!FillEof(t) \/ RL!FillInterrupted(t) \/ RL!ReadInterrupted(t)
  BY <1>2 DEF RL!Fill, RL!FillEof, RL!FillInterrupted, RL!ReadInterrupted
<1>3. CASE RL!Take(t)
  BY <1>3 DEF RL!Take
<1>4. CASE RL!ReadByte(t)
  BY <1>4 DEF RL!ReadByte
<1>5. CASE RL!ReadSome(t) \/ RL!ReadnReturns(t)
  BY <1>5 DEF RL!ReadSome, RL!ReadnReturns
<1> QED
  BY <1>1, <1>2, <1>3, <1>4, <1>5 DEF RlStep, RL!Step

LEMMA OwnKept ==
  ASSUME UNCHANGED <<rl_version, rl_text>>, NEW u \in Readers, UNCHANGED Own(u),
         Flow(u), Ahead(u), Control(u), Line(u), AllRight(u)
  PROVE  (Flow(u) /\ Ahead(u) /\ Control(u) /\ Line(u) /\ AllRight(u))'
<1>1. Flow(u)' /\ Ahead(u)'
  BY DEF Own, Flow, Ahead, Held, Kept, Open, RL!Bytes
<1>2. Control(u)' /\ Line(u)'
  BY DEF Own, Control, Line, Open
<1>3. AllRight(u)'
  BY DEF Own, AllRight
<1> QED
  BY <1>1, <1>2, <1>3

LEMMA SeqTypes ==
  /\ <<>> \in RlBytes
  /\ \A s \in RlBytes : Len(s) \in Nat
  /\ \A s \in RlBytes, c \in Readers \X Nat : Append(s, c) \in RlBytes
  /\ \A s, b \in RlBytes : s \o b \in RlBytes
  /\ \A s \in RlBytes : \A i \in DOMAIN s : s[i] \in Readers \X Nat
  /\ \A s \in RlCalls, b \in RlBytes, k \in Nat :
       Append(s, [bytes |-> b, n |-> k]) \in RlCalls
<1>1. /\ <<>> \in RlBytes
      /\ \A s \in RlBytes : Len(s) \in Nat
      /\ \A s, b \in RlBytes : s \o b \in RlBytes
      /\ \A s \in RlBytes : \A i \in DOMAIN s : s[i] \in Readers \X Nat
  BY EmptySeq, LenProperties, ConcatProperties DEF RlBytes
<1>2. \A s \in RlBytes, c \in Readers \X Nat : Append(s, c) \in RlBytes
  BY AppendProperties, Zenon DEF RlBytes
<1>3. ASSUME NEW s \in RlCalls, NEW b \in RlBytes, NEW k \in Nat
      PROVE  Append(s, [bytes |-> b, n |-> k]) \in RlCalls
  <2>1. [bytes |-> b, n |-> k] \in [bytes : RlBytes, n : Nat]
    OBVIOUS
  <2> QED
    BY <2>1, AppendProperties, Zenon DEF RlCalls
<1> QED
  BY <1>1, <1>2, <1>3

\* The variables a return changes, and those that storing a byte changes.
LEMMA ReturnTypes ==
  ASSUME RlTypes, NEW t \in Readers, NEW b \in RlBytes, NEW k \in Nat, RL!Return(t, b, k)
  PROVE  /\ rl_pc' \in [Readers -> {"idle", "loop", "read", "take", "done"}]
         /\ rl_stream' \in [Readers -> RlBytes]
         /\ rl_got' \in [Readers -> RlCalls]
<1>1. rl_pc' \in [Readers -> {"idle", "loop", "read", "take", "done"}]
  BY DEF RlTypes, RL!Return, RL!Goto
<1>2. rl_stream' \in [Readers -> RlBytes]
  BY SeqTypes DEF RlTypes, RL!Return
<1>3. Append(rl_got[t], [bytes |-> b, n |-> k]) \in RlCalls
  BY SeqTypes, Zenon DEF RlTypes
<1>4. rl_got' \in [Readers -> RlCalls]
  BY <1>3, Zenon DEF RlTypes, RL!Return
<1> QED
  BY <1>1, <1>2, <1>4

LEMMA StoreTypes ==
  ASSUME RlTypes, NEW t \in Readers, NEW c \in Readers \X Nat, RL!Store(t, c)
  PROVE  /\ rl_pc' \in [Readers -> {"idle", "loop", "read", "take", "done"}]
         /\ rl_stream' \in [Readers -> RlBytes] /\ rl_line' \in [Readers -> RlBytes]
         /\ rl_n' \in [Readers -> Nat]
         /\ rl_got' \in [Readers -> RlCalls]
<1>1. rl_line[t] \in RlBytes /\ rl_n[t] \in Nat
  BY DEF RlTypes
<1>2. Append(rl_line[t], c) \in RlBytes
  BY <1>1, SeqTypes
<1>3. rl_line' \in [Readers -> RlBytes]
  BY <1>2 DEF RlTypes, RL!Store
<1>4. CASE RL!IsNewline(c)
  BY <1>1, <1>2, <1>3, <1>4, ReturnTypes DEF RlTypes, RL!Store
<1>5. CASE ~RL!IsNewline(c)
  <2>1. rl_pc' = [rl_pc EXCEPT ![t] = "loop"] /\ rl_n' = [rl_n EXCEPT ![t] = @ + 1]
    BY <1>5 DEF RL!Store, RL!Goto
  <2>2. rl_stream' = rl_stream /\ rl_got' = rl_got
    BY <1>5 DEF RL!Store, RL!returned
  <2> QED
    BY <1>1, <1>3, <2>1, <2>2 DEF RlTypes
<1> QED
  BY <1>4, <1>5

LEMMA TypesStep ==
  ASSUME ReadInv, NEW t \in Readers, RlStep(t)
  PROVE  RlTypes'
<1>0. UNCHANGED <<rl_version, rl_text>>
  BY InputKept
<1>1. /\ RlTypes /\ (Open(t) /\ rl_version # "readn" => rl_n[t] > 0)
      /\ Len(rl_line[t]) \in Nat
      /\ (Open(t) /\ rl_version = "readn" => Len(rl_line[t]) <= MAXLINE)
  <2>1. RlTypes /\ Line(t) /\ rl_line[t] \in RlBytes
    BY DEF ReadInv, RlTypes
  <2>2. Len(rl_line[t]) \in Nat
    BY <2>1, SeqTypes
  <2> QED
    BY <2>1, <2>2 DEF Line
<1>2. rl_line[t] \in RlBytes /\ rl_n[t] \in Nat /\ rl_at[t] \in Nat
  BY <1>1 DEF RlTypes
<1> USE DEF RL!Goto, RL!Fail, RL!Place, RL!Interrupted, RL!buffer, RL!call, RL!returned,
            RL!At, RL!Loop
<1>3. CASE RL!Call(t) \/ RL!MyRead(t)
  <2>1. <<>> \in RlBytes
    BY SeqTypes
  <2> QED
    <3>1. CASE RL!Call(t)
      BY <1>0, <1>1, <3>1, <2>1 DEF RL!Call, RlTypes
    <3>2. CASE RL!MyRead(t)
      BY <1>0, <1>1, <3>2 DEF RL!MyRead, RlTypes
    <3> QED
      BY <1>3, <3>1, <3>2
<1>4. CASE RL!Reopen(t)
  <2>1. <<>> \in RlBytes /\ <<>> \in RlCalls
    BY SeqTypes DEF RlCalls
  <2> QED
    BY <1>0, <1>1, <1>4, <2>1 DEF RL!Reopen, RlTypes
<1>5. CASE RL!LineFull(t)
  BY <1>0, <1>1, <1>2, <1>5, ReturnTypes DEF RL!LineFull, RlTypes
<1>6. CASE RL!Fill(t)
  <2>1. PICK k \in 1 .. BufSize :
          /\ rl_read_buf' = [rl_read_buf EXCEPT ![t] = RL!Bytes(t, rl_at[t], k)]
          /\ rl_read_cnt' = [rl_read_cnt EXCEPT ![t] = k]
          /\ rl_at' = [rl_at EXCEPT ![t] = @ + k]
    BY <1>6 DEF RL!Fill
  <2>2. k \in Nat /\ RL!Bytes(t, rl_at[t], k) \in RlBytes
    BY <1>2, BytesAre, ReadersAssumption
  <2> QED
    BY <1>0, <1>1, <1>6, <2>1, <2>2 DEF RL!Fill, RlTypes
<1>7. CASE RL!FillEof(t)
  <2>1. Open(t) /\ rl_version # "readn"
    BY <1>7 DEF RL!FillEof, Open, ReadInv, Control, RL!Buffered
  <2>2. PICK k \in Nat : RL!Return(t, rl_line[t], k)
    BY <1>1, <1>2, <1>7, <2>1 DEF RL!FillEof, RL!AtEof
  <2> QED
    BY <1>0, <1>1, <1>2, <1>7, <2>2, ReturnTypes DEF RL!FillEof, RlTypes
<1>8. CASE RL!FillInterrupted(t) \/ RL!ReadInterrupted(t)
  BY <1>0, <1>1, <1>8 DEF RL!FillInterrupted, RL!ReadInterrupted, RlTypes
<1>9. CASE RL!Take(t)
  <2>1. PICK c \in Readers \X Nat : RL!Store(t, c)
    BY <1>1, <1>9, SeqTypes DEF RL!Take, RlTypes
  <2> QED
    <3>1. /\ rl_read_cnt' = [rl_read_cnt EXCEPT ![t] = @ - 1]
          /\ rl_read_ptr' = [rl_read_ptr EXCEPT ![t] = @ + 1]
          /\ UNCHANGED <<rl_at, rl_read_buf>>
      BY <1>9 DEF RL!Take
    <3>2. rl_read_cnt' \in [Readers -> Int] /\ rl_read_ptr' \in [Readers -> Nat]
      BY <1>1, <3>1 DEF RlTypes
    <3> QED
      BY <1>0, <1>1, <2>1, <3>1, <3>2, StoreTypes DEF RlTypes
<1>10. CASE RL!ReadByte(t)
  <2>1. Open(t) /\ rl_version # "readn"
    BY <1>10 DEF RL!ReadByte, Open, RL!Unbuffered
  <2>2. CASE RL!Left(t) = 0
    <3>1. PICK k \in Nat : RL!Return(t, rl_line[t], k)
      BY <1>1, <1>2, <1>10, <2>1, <2>2 DEF RL!ReadByte, RL!AtEof
    <3> QED
      BY <1>0, <1>1, <1>2, <1>10, <2>2, <3>1, ReturnTypes DEF RL!ReadByte, RlTypes
  <2>3. CASE RL!Left(t) # 0
    <3>1. RL!Store(t, <<t, rl_at[t] + 1>>) /\ <<t, rl_at[t] + 1>> \in Readers \X Nat
      BY <1>2, <1>10, <2>3 DEF RL!ReadByte
    <3> QED
      BY <1>0, <1>1, <1>2, <1>10, <2>3, <3>1, StoreTypes DEF RL!ReadByte, RlTypes
  <2> QED
    BY <2>2, <2>3
<1>11. CASE RL!ReadSome(t)
  <2>1. PICK k \in 1 .. RL!Nleft(t) :
          /\ rl_line' = [rl_line EXCEPT ![t] = @ \o RL!Bytes(t, rl_at[t], k)]
          /\ rl_at' = [rl_at EXCEPT ![t] = @ + k]
    BY <1>11 DEF RL!ReadSome
  <2>4. k \in Nat
    BY <1>1, ReadersAssumption DEF RL!Nleft
  <2>2. RL!Bytes(t, rl_at[t], k) \in RlBytes
    BY <1>2, <2>4, BytesAre
  <2>3. rl_line[t] \o RL!Bytes(t, rl_at[t], k) \in RlBytes
    BY <1>2, <2>2, SeqTypes
  <2> QED
    BY <1>0, <1>1, <1>2, <1>11, <2>1, <2>3, <2>4 DEF RL!ReadSome, RlTypes
<1>12. CASE RL!ReadnReturns(t)
  <2>1. MAXLINE - RL!Nleft(t) = Len(rl_line[t])
    BY <1>1, ReadersAssumption DEF RL!Nleft
  <2> QED
    BY <1>0, <1>1, <1>2, <1>12, <2>1, ReturnTypes DEF RL!ReadnReturns, RlTypes
<1> QED
  BY <1>3, <1>4, <1>5, <1>6, <1>7, <1>8, <1>9, <1>10, <1>11, <1>12 DEF RlStep, RL!Step

\* A call that returned what it had to, after calls that did.
LEMMA RightCalls ==
  ASSUME RlTypes, UNCHANGED <<rl_version, rl_text>>, NEW t \in Readers, AllRight(t),
         NEW b \in RlBytes, NEW k \in Nat, RL!Return(t, b, k),
         Right(rl_version, rl_text, [bytes |-> b, n |-> k])
  PROVE  AllRight(t)'
<1> DEFINE e == [bytes |-> b, n |-> k]
           s == rl_got[t]
           next == rl_got'[t]
<1>1. next = Append(s, e) /\ s \in RlCalls /\ e \in [bytes : RlBytes, n : Nat]
  BY DEF RL!Return, RlTypes
<1>2. /\ Len(s) \in Nat /\ Len(next) = Len(s) + 1
      /\ \A i \in 1 .. Len(s) : next[i] = s[i]
      /\ next[Len(s) + 1] = e
  BY <1>1, AppendProperties, LenProperties DEF RlCalls
<1>3. \A i \in 1 .. Len(s) : Right(rl_version, rl_text, s[i])
  BY DEF AllRight
<1>4. Right(rl_version, rl_text, e)
  OBVIOUS
<1> HIDE DEF s, next, e
<1>5. ASSUME NEW i \in 1 .. Len(next) PROVE Right(rl_version', rl_text', next[i])
  <2>1. i \in 1 .. Len(s) \/ i = Len(s) + 1
    BY <1>2
  <2> QED
    BY <1>2, <1>3, <1>4, <2>1, Zenon
<1> QED
  BY <1>5 DEF AllRight, next

LEMMA SameCalls ==
  ASSUME UNCHANGED <<rl_version, rl_text>>, NEW t \in Readers, AllRight(t), rl_got'[t] = rl_got[t]
  PROVE  AllRight(t)'
BY DEF AllRight

\* What a call returns goes after what the calls before it returned.
LEMMA ReturnFlow ==
  ASSUME RlTypes, NEW t \in Readers, Flow(t), NEW b \in RlBytes, NEW k \in Nat, RL!Return(t, b, k),
         b = RL!Bytes(t, Len(rl_stream[t]), Len(b))
  PROVE  /\ rl_stream'[t] = RL!Bytes(t, 0, Len(rl_stream'[t]))
         /\ Len(rl_stream'[t]) = Len(rl_stream[t]) + Len(b)
         /\ rl_pc'[t] = IF k = 0 THEN "done" ELSE "idle"
<1> DEFINE R == Len(rl_stream[t])
           L == Len(b)
<1>1. rl_stream[t] = RL!Bytes(t, 0, R) /\ b = RL!Bytes(t, R, L) /\ R \in Nat /\ L \in Nat
  BY SeqTypes DEF Flow, RlTypes
<1>2. rl_stream'[t] = rl_stream[t] \o b /\ rl_pc'[t] = IF k = 0 THEN "done" ELSE "idle"
  BY DEF RlTypes, RL!Return, RL!Goto
<1> HIDE DEF R, L
<1>3. 0 + R = R /\ R + L \in Nat /\ 0 \in Nat
  BY <1>1
<1>4. rl_stream'[t] = RL!Bytes(t, 0, R + L)
  <2>1. RL!Bytes(t, 0, R) \o RL!Bytes(t, 0 + R, L) = RL!Bytes(t, 0, R + L)
    BY <1>1, <1>3, BytesJoin, Zenon
  <2> QED
    BY <1>1, <1>2, <1>3, <2>1
<1>5. Len(RL!Bytes(t, 0, R + L)) = R + L
  BY <1>3, BytesAre
<1> QED
  BY <1>2, <1>4, <1>5 DEF R, L

\* A byte is stored: the next one of the descriptor, and the line goes on, or ends
\* with it.
LEMMA StoreFlow ==
  ASSUME RlTypes, UNCHANGED <<rl_version, rl_text>>, NEW t \in Readers, Open(t),
         rl_version # "readn", Flow(t), Line(t), AllRight(t), rl_n[t] < MAXLINE,
         NEW p \in Nat, p = Len(rl_stream[t]) + Len(rl_line[t]) + 1, RL!Store(t, <<t, p>>)
  PROVE  /\ rl_stream'[t] = RL!Bytes(t, 0, Len(rl_stream'[t]))
         /\ Open(t)' => rl_line'[t] = RL!Bytes(t, Len(rl_stream'[t]), Len(rl_line'[t]))
         /\ Len(rl_stream'[t]) + Held(t)' = p
         /\ rl_pc'[t] \in {"loop", "idle"}
         /\ Line(t)' /\ AllRight(t)'
<1> DEFINE c == <<t, p>>
           R == Len(rl_stream[t])
           L == Len(rl_line[t])
           b == Append(rl_line[t], c)
<1>1. /\ rl_line[t] \in RlBytes /\ rl_n[t] \in Nat /\ R \in Nat /\ L \in Nat
      /\ rl_pc \in [Readers -> {"idle", "loop", "read", "take", "done"}]
      /\ rl_stream \in [Readers -> RlBytes] /\ rl_line \in [Readers -> RlBytes]
      /\ rl_n \in [Readers -> Nat] /\ rl_got \in [Readers -> RlCalls]
      /\ c \in Readers \X Nat /\ c[2] = p /\ MAXLINE \in Nat
  BY SeqTypes, ReadersAssumption DEF RlTypes
<1>2. rl_line[t] = RL!Bytes(t, R, L) /\ rl_n[t] = L + 1 /\ \A i \in 1 .. L : ~Ends(rl_text, rl_line[t][i])
  BY DEF Flow, Line
<1>3. b \in RlBytes /\ Len(b) = L + 1 /\ (\A i \in 1 .. L : b[i] = rl_line[t][i]) /\ b[L + 1] = c
  BY <1>1, AppendProperties DEF RlBytes
<1>4. b = RL!Bytes(t, R, L + 1)
  <2>1. p = R + L + 1
    OBVIOUS
  <2> QED
    <3>1. Append(RL!Bytes(t, R, L), <<t, R + L + 1>>) = RL!Bytes(t, R, L + 1)
      BY <1>1, BytesAppend, Zenon
    <3> QED
      BY <1>2, <2>1, <3>1
<1>5. rl_line'[t] = b
  BY <1>1 DEF RL!Store
<1>0. RL!IsNewline(c) <=> Ends(rl_text, c)
  BY DEF RL!IsNewline, Ends
<1>6. CASE Ends(rl_text, c)
  <2>1. RL!Return(t, b, rl_n[t])
    BY <1>0, <1>6 DEF RL!Store
  <2> HIDE DEF b, c, R, L
  <2>2. /\ rl_stream'[t] = RL!Bytes(t, 0, Len(rl_stream'[t]))
        /\ Len(rl_stream'[t]) = R + Len(b)
        /\ rl_pc'[t] = IF rl_n[t] = 0 THEN "done" ELSE "idle"
    BY <1>1, <1>3, <1>4, <2>1, ReturnFlow DEF R
  <2>3. rl_pc'[t] = "idle"
    BY <1>1, <1>2, <2>2
  <2>4. ~Open(t)' /\ Held(t)' = 0
    BY <2>3 DEF Open, Held
  <2>5. Right(rl_version, rl_text, [bytes |-> b, n |-> rl_n[t]])
    <3>1. b[Len(b)] = c /\ Len(b) - 1 = L /\ rl_n[t] = Len(b) /\ b # <<>>
      BY <1>1, <1>2, <1>3
    <3>2. \A i \in 1 .. L : ~Ends(rl_text, b[i])
      BY <1>2, <1>3
    <3> QED
      BY <1>6, <3>1, <3>2 DEF Right
  <2>6. AllRight(t)'
    BY <1>1, <1>3, <2>1, <2>5, RightCalls
  <2> QED
    BY <1>1, <1>3, <2>2, <2>3, <2>4, <2>6 DEF Line, R, L
<1>7. CASE ~Ends(rl_text, c)
  <2>1. /\ rl_n'[t] = rl_n[t] + 1 /\ rl_pc'[t] = "loop"
        /\ rl_stream' = rl_stream /\ rl_got' = rl_got
    BY <1>0, <1>1, <1>7 DEF RL!Store, RL!Goto, RL!returned
  <2>2. ASSUME NEW i \in 1 .. L + 1 PROVE ~Ends(rl_text, b[i])
    <3>1. CASE i = L + 1
      BY <1>3, <1>7, <3>1, Zenon
    <3>2. CASE i \in 1 .. L
      BY <1>2, <1>3, <3>2, Zenon
    <3> QED
      BY <1>1, <3>1, <3>2
  <2>3. Open(t)' /\ Held(t)' = L + 1
    BY <1>3, <1>5, <2>1 DEF Open, Held
  <2>4. Line(t)'
    <3> HIDE DEF b, c, L
    <3>1. rl_n'[t] = Len(b) + 1 /\ rl_n'[t] <= MAXLINE
      BY <1>1, <1>2, <1>3, <2>1
    <3>2. \A i \in 1 .. Len(b) : ~Ends(rl_text', b[i])
      BY <1>3, <2>2
    <3> QED
      BY <1>5, <3>1, <3>2, Zenon DEF Line
  <2>5. AllRight(t)'
    BY <2>1, SameCalls
  <2>6. rl_stream[t] = RL!Bytes(t, 0, R)
    BY DEF Flow
  <2> QED
    BY <1>1, <1>3, <1>4, <1>5, <2>1, <2>3, <2>4, <2>5, <2>6
<1> QED
  BY <1>6, <1>7

\* What the invariant says of one thread.
ThreadInv(t) == Flow(t) /\ Ahead(t) /\ Control(t) /\ Line(t) /\ AllRight(t)

\* The steps of a thread, one lemma for those that read nothing and return nothing,
\* one for those that read, one for those that return.
LEMMA QuietStep ==
  ASSUME ReadInv, NEW t \in Readers, UNCHANGED <<rl_version, rl_text>>,
         RL!Call(t) \/ RL!MyRead(t) \/ RL!Reopen(t) \/ RL!FillInterrupted(t)
                    \/ RL!ReadInterrupted(t)
  PROVE  ThreadInv(t)'
<1>1. RlTypes /\ Flow(t) /\ Ahead(t) /\ Control(t) /\ Line(t) /\ AllRight(t)
  BY DEF ReadInv
<1>2. /\ rl_pc \in [Readers -> {"idle", "loop", "read", "take", "done"}]
      /\ rl_line \in [Readers -> RlBytes] /\ rl_stream \in [Readers -> RlBytes]
      /\ rl_n \in [Readers -> Nat] /\ rl_at \in [Readers -> Nat]
      /\ rl_got \in [Readers -> RlCalls] /\ rl_read_cnt \in [Readers -> Int]
      /\ Len(rl_stream[t]) \in Nat /\ Len(rl_line[t]) \in Nat /\ Len(rl_text) \in Nat
  BY <1>1, SeqTypes, LenProperties DEF RlTypes
<1>3. CASE RL!Call(t)
  <2>1. /\ rl_pc[t] = "idle" /\ rl_pc'[t] = "loop" /\ rl_line'[t] = <<>> /\ rl_n'[t] = 1
        /\ UNCHANGED <<rl_at, rl_read_cnt, rl_read_ptr, rl_read_buf, rl_got, rl_stream>>
    BY <1>2, <1>3 DEF RL!Call, RL!At, RL!Goto, RL!buffer, RL!returned
  <2>2. RL!Bytes(t, Len(rl_stream[t]), 0) = <<>> /\ Len(<<>>) = 0
    BY <1>2, BytesNone
  <2>3. Flow(t)'
    <3>1. Held(t) = 0 /\ Held(t)' = 0 /\ Kept(t)' = Kept(t)
      BY <2>1, <2>2 DEF Held, Kept, Open
    <3> QED
      BY <1>1, <2>1, <2>2, <3>1 DEF Flow
  <2>4. Ahead(t)' /\ Control(t)'
    BY <1>1, <2>1 DEF Ahead, Control, RL!Bytes
  <2>5. Line(t)'
    BY <2>1, <2>2, ReadersAssumption DEF Line
  <2> QED
    BY <1>1, <2>1, <2>3, <2>4, <2>5, SameCalls DEF ThreadInv
<1>4. CASE RL!MyRead(t)
  <2>1. /\ rl_pc[t] = "loop" /\ rl_n[t] < MAXLINE /\ rl_version \in RL!Buffered
        /\ rl_pc'[t] = IF rl_read_cnt[t] <= 0 THEN "read" ELSE "take"
        /\ UNCHANGED <<rl_at, rl_read_cnt, rl_read_ptr, rl_read_buf, rl_line, rl_n, rl_got,
                       rl_stream>>
    BY <1>2, <1>4 DEF RL!MyRead, RL!Loop, RL!Goto, RL!Place, RL!buffer, RL!call, RL!returned
  <2>2. Open(t) /\ Open(t)' /\ Held(t)' = Held(t) /\ Kept(t)' = Kept(t)
    BY <2>1 DEF Open, Held, Kept
  <2>3. Flow(t)' /\ Ahead(t)' /\ Line(t)'
    BY <1>1, <2>1, <2>2 DEF Flow, Ahead, Line
  <2>4. Control(t)'
    BY <1>1, <1>2, <2>1 DEF Control
  <2> QED
    BY <1>1, <2>1, <2>3, <2>4, SameCalls DEF ThreadInv
<1>5. CASE RL!Reopen(t)
  <2>1. /\ rl_pc[t] = "done" /\ rl_pc'[t] = "idle" /\ rl_at'[t] = 0 /\ rl_got'[t] = <<>>
        /\ rl_stream'[t] = <<>>
        /\ UNCHANGED <<rl_read_cnt, rl_read_ptr, rl_read_buf, rl_line, rl_n>>
    BY <1>2, <1>5 DEF RL!Reopen, RL!At, RL!Goto, RL!buffer, RL!call
  <2>2. RL!Bytes(t, 0, 0) = <<>> /\ Len(<<>>) = 0 /\ rl_read_cnt[t] <= 0
    BY <1>1, <2>1, BytesNone DEF Control
  <2>3. Flow(t)'
    BY <1>2, <2>1, <2>2 DEF Flow, Held, Kept, Open
  <2>4. Ahead(t)' /\ Control(t)' /\ Line(t)' /\ AllRight(t)'
    BY <1>1, <1>2, <2>1, <2>2 DEF Ahead, Control, Line, AllRight, Open
  <2> QED
    BY <2>3, <2>4 DEF ThreadInv
<1>6. CASE RL!FillInterrupted(t) \/ RL!ReadInterrupted(t)
  <2>1. /\ UNCHANGED <<rl_pc, rl_at, rl_line, rl_n, rl_got, rl_stream>>
        /\ \/ rl_pc[t] = "read" /\ rl_read_cnt'[t] = -1
           \/ UNCHANGED <<rl_read_cnt, rl_read_ptr, rl_read_buf>>
    BY <1>2, <1>6 DEF RL!FillInterrupted, RL!ReadInterrupted, RL!Interrupted, RL!Fail, RL!At,
                      RL!Place, RL!buffer, RL!call, RL!returned
  <2>2. CASE rl_pc[t] = "read" /\ rl_read_cnt'[t] = -1
    <3>1. Open(t) /\ Open(t)' /\ Held(t)' = Held(t)
      BY <2>1, <2>2 DEF Held, Open
    <3>4. Kept(t) = 0 /\ Kept(t)' = 0
      BY <1>1, <1>2, <2>2 DEF Control, Kept
    <3>2. Flow(t)' /\ Line(t)'
      BY <1>1, <2>1, <3>1, <3>4 DEF Flow, Line
    <3>3. Ahead(t)' /\ Control(t)'
      BY <1>1, <2>1, <2>2 DEF Ahead, Control
    <3> QED
      BY <1>1, <2>1, <3>2, <3>3, SameCalls DEF ThreadInv
  <2>3. CASE UNCHANGED <<rl_read_cnt, rl_read_ptr, rl_read_buf>>
    BY <1>1, <2>1, <2>3, OwnKept DEF Own, ThreadInv
  <2> QED
    BY <2>1, <2>2, <2>3
<1> QED
  BY <1>3, <1>4, <1>5, <1>6

LEMMA ReturnStep ==
  ASSUME ReadInv, NEW t \in Readers, UNCHANGED <<rl_version, rl_text>>, Open(t),
         UNCHANGED <<rl_at, rl_read_ptr, rl_read_buf>>,
         NEW k \in Nat, RL!Return(t, rl_line[t], k),
         Right(rl_version, rl_text, [bytes |-> rl_line[t], n |-> k]),
         Kept(t)' = Kept(t),
         \/ UNCHANGED rl_read_cnt
         \/ rl_read_cnt[t] <= 0 /\ rl_read_cnt'[t] = 0,
         k = 0 => rl_read_cnt'[t] <= 0
  PROVE  ThreadInv(t)'
<1>1. RlTypes /\ Flow(t) /\ Ahead(t) /\ Control(t) /\ AllRight(t) /\ rl_line[t] \in RlBytes
  BY DEF ReadInv, RlTypes
<1>2. /\ Len(rl_stream[t]) \in Nat /\ Len(rl_line[t]) \in Nat /\ Len(rl_text) \in Nat
      /\ rl_at[t] \in Nat /\ rl_read_cnt[t] \in Int
  BY <1>1, SeqTypes, LenProperties DEF RlTypes
<1>3. rl_line[t] = RL!Bytes(t, Len(rl_stream[t]), Len(rl_line[t]))
  BY <1>1 DEF Flow
<1>4. /\ rl_stream'[t] = RL!Bytes(t, 0, Len(rl_stream'[t]))
      /\ Len(rl_stream'[t]) = Len(rl_stream[t]) + Len(rl_line[t])
      /\ rl_pc'[t] = IF k = 0 THEN "done" ELSE "idle"
  BY <1>1, <1>3, ReturnFlow
<1>5. ~Open(t)' /\ Held(t)' = 0 /\ Held(t) = Len(rl_line[t])
  BY <1>4 DEF Open, Held
<1>6. Flow(t)'
  <2>1. Len(rl_stream'[t]) + Held(t)' + Kept(t)' = rl_at'[t] /\ rl_at'[t] <= Len(rl_text')
    <3>1. Kept(t) \in Nat
      BY <1>2 DEF Kept
    <3>2. Len(rl_stream[t]) + Held(t) + Kept(t) = rl_at[t] /\ rl_at[t] <= Len(rl_text)
      BY <1>1 DEF Flow
    <3>3. rl_at' = rl_at /\ rl_text' = rl_text
      OBVIOUS
    <3>4. Held(t) = Len(rl_line[t]) /\ Held(t)' = 0 /\ Kept(t)' = Kept(t)
      BY <1>5
    <3> DEFINE r == Len(rl_stream[t])
               l == Len(rl_line[t])
               x == Len(rl_stream'[t])
               u == Kept(t)
               a == rl_at[t]
    <3>5. r \in Nat /\ l \in Nat /\ u \in Nat /\ a \in Nat /\ x = r + l /\ r + l + u = a
      BY <1>2, <1>4, <3>1, <3>2, <3>4
    <3> HIDE DEF r, l, x, u, a
    <3>6. x + 0 + u = a
      BY ONLY <3>5
    <3> QED
      BY <3>2, <3>3, <3>4, <3>6 DEF x, u, a
  <2> QED
    BY <1>4, <1>5, <2>1 DEF Flow
<1>7. Ahead(t)'
  BY <1>1 DEF Ahead, RL!Bytes
<1>8. Control(t)' /\ Line(t)'
  BY <1>1, <1>4, <1>5 DEF Control, Line
<1>9. AllRight(t)'
  BY <1>1, RightCalls
<1> QED
  BY <1>6, <1>7, <1>8, <1>9 DEF ThreadInv

LEMMA ReturnsStep ==
  ASSUME ReadInv, NEW t \in Readers, UNCHANGED <<rl_version, rl_text>>,
         \/ RL!LineFull(t) \/ RL!FillEof(t) \/ (RL!ReadByte(t) /\ RL!Left(t) = 0)
         \/ RL!ReadnReturns(t)
  PROVE  ThreadInv(t)'
<1> DEFINE b == rl_line[t]
           L == Len(b)
           e(k) == [bytes |-> b, n |-> k]
<1>1. /\ RlTypes /\ Flow(t) /\ Ahead(t) /\ Control(t) /\ Line(t)
      /\ b \in RlBytes /\ rl_n[t] \in Nat /\ rl_read_cnt \in [Readers -> Int]
      /\ rl_at[t] \in Nat /\ rl_version \in RL!Versions
  BY DEF ReadInv, RlTypes
<1>2. L \in Nat /\ Len(rl_stream[t]) \in Nat /\ Len(rl_text) \in Nat
  BY <1>1, SeqTypes, LenProperties DEF RlTypes
<1>3. /\ Open(t) /\ UNCHANGED <<rl_at, rl_read_ptr, rl_read_buf>>
      /\ rl_version # "readn" => /\ rl_n[t] = L + 1
                                 /\ \A i \in 1 .. L : ~Ends(rl_text, b[i])
      /\ rl_version = "readn" => L <= MAXLINE
  BY <1>1 DEF RL!LineFull, RL!FillEof, RL!ReadByte, RL!ReadnReturns, RL!At, RL!Loop, RL!buffer,
              Open, Line
<1>4. b = RL!Bytes(t, Len(rl_stream[t]), L)
  BY <1>1, <1>3 DEF Flow
<1>5. b = <<>> \/ (L > 0 /\ b # <<>> /\ b[L][2] = Len(rl_stream[t]) + L)
  <2>1. CASE L = 0
    BY <1>1, <2>1, EmptySeq DEF RlBytes
  <2>2. CASE L > 0
    <3>1. L \in 1 .. L /\ b # <<>>
      BY <1>1, <1>2, <2>2, EmptySeq DEF RlBytes
    <3> HIDE DEF L, b
    <3>2. RL!Bytes(t, Len(rl_stream[t]), L)[L] = <<t, Len(rl_stream[t]) + L>>
      BY <1>2, <3>1, BytesAre
    <3> QED
      BY <1>4, <2>2, <3>1, <3>2
  <2>3. L = 0 \/ L > 0
    BY ONLY <1>2
  <2> QED
    BY <2>1, <2>2, <2>3, Zenon
\* At end of file with an empty buffer, the line ends where the text does.
<1>6. ASSUME RL!Left(t) = 0, rl_read_cnt[t] <= 0
      PROVE  b = <<>> \/ b[L][2] = Len(rl_text)
  <2>1. Held(t) = L /\ Kept(t) = 0
    BY <1>1, <1>3, <1>6 DEF Held, Kept
  <2>2. Len(rl_stream[t]) + Held(t) + Kept(t) = rl_at[t] /\ Len(rl_text) - rl_at[t] = 0
    BY <1>1, <1>6 DEF Flow, RL!Left
  <2> HIDE DEF L
  <2>3. Len(rl_stream[t]) + L = Len(rl_text)
    BY ONLY <1>1, <1>2, <2>1, <2>2
  <2> QED
    BY <1>5, <2>3
<1>7. CASE RL!LineFull(t)
  <2>1. /\ rl_version # "readn" /\ ~(rl_n[t] < MAXLINE) /\ RL!Return(t, b, rl_n[t])
        /\ UNCHANGED rl_read_cnt
    BY <1>7 DEF RL!LineFull, RL!At, RL!Loop, RL!buffer
  <2>2. rl_n[t] = L + 1 /\ L = MAXLINE - 1 /\ L > 0
    BY <1>1, <1>2, <1>3, <2>1, ReadersAssumption DEF Line
  <2>3. ~Ends(rl_text, b[L]) /\ \A i \in 1 .. L - 1 : ~Ends(rl_text, b[i])
    BY <1>2, <1>3, <2>1, <2>2
  <2>4. Right(rl_version, rl_text, e(rl_n[t]))
    <3> HIDE DEF b, L
    <3> QED
      BY <2>1, <2>2, <2>3, Zenon DEF Right, L
  <2>5. Kept(t)' = Kept(t) /\ rl_n[t] # 0
    BY <1>2, <2>1, <2>2 DEF Kept
  <2> QED
    BY <1>1, <1>3, <2>1, <2>4, <2>5, ReturnStep
<1>8. CASE RL!FillEof(t) \/ (RL!ReadByte(t) /\ RL!Left(t) = 0)
  <2>1. /\ rl_version # "readn" /\ rl_n[t] < MAXLINE /\ RL!Left(t) = 0 /\ RL!AtEof(t)
        /\ rl_read_cnt[t] <= 0
        /\ UNCHANGED rl_read_cnt \/ rl_read_cnt'[t] = 0
    BY <1>1, <1>8 DEF RL!FillEof, RL!ReadByte, RL!At, RL!Loop, RL!buffer, RL!Place, RL!Unbuffered,
                      RL!Buffered, Control
  <2>2. PICK k \in Nat : /\ RL!Return(t, b, k)
                         /\ k = IF rl_version \in RL!BreaksAtEof /\ L > 0 THEN L + 1 ELSE L
    BY <1>2, <1>3, <2>1 DEF RL!AtEof
  <2>3. \A i \in 1 .. L - 1 : ~Ends(rl_text, b[i])
    BY <1>2, <1>3, <2>1
  <2>4. L > 0 => ~Ends(rl_text, b[L])
    BY <1>2, <1>3, <2>1
  <2>5. L # MAXLINE - 1 /\ (b # <<>> <=> L > 0)
    BY <1>1, <1>2, <1>3, <1>5, <2>1, ReadersAssumption, EmptySeq DEF RlBytes
  <2>6. b = <<>> \/ b[L][2] = Len(rl_text)
    BY <1>6, <2>1
  <2>7. Right(rl_version, rl_text, e(k))
    <3> HIDE DEF b, L
    <3> QED
      BY <2>1, <2>2, <2>3, <2>4, <2>5, <2>6, Zenon DEF Right, L
  <2>8. Kept(t)' = Kept(t) /\ rl_read_cnt'[t] <= 0
    BY <1>1, <2>1 DEF Kept
  <2> QED
    BY <1>1, <1>3, <2>1, <2>2, <2>7, <2>8, ReturnStep
<1>9. CASE RL!ReadnReturns(t)
  <2>1. /\ rl_version = "readn" /\ (RL!Nleft(t) = 0 \/ RL!Left(t) = 0)
        /\ RL!Return(t, b, MAXLINE - RL!Nleft(t)) /\ UNCHANGED rl_read_cnt
    BY <1>9 DEF RL!ReadnReturns, RL!At, RL!buffer
  <2>2. MAXLINE - RL!Nleft(t) = L /\ (RL!Nleft(t) = 0 <=> L = MAXLINE)
    BY <1>2, ReadersAssumption DEF RL!Nleft
  <2>3. rl_read_cnt[t] <= 0 /\ rl_version \notin RL!BreaksAtEof
    BY <1>1, <2>1 DEF Control, RL!Buffered, RL!BreaksAtEof
  <2>4. L = MAXLINE \/ b = <<>> \/ b[L][2] = Len(rl_text)
    BY <1>6, <2>1, <2>2, <2>3
  <2>5. Right(rl_version, rl_text, e(L))
    <3> HIDE DEF b, L
    <3> QED
      BY <2>1, <2>3, <2>4, Zenon DEF Right, L
  <2>6. Kept(t)' = Kept(t) /\ rl_read_cnt'[t] <= 0
    BY <2>1, <2>3 DEF Kept
  <2> QED
    BY <1>1, <1>2, <1>3, <2>1, <2>2, <2>5, <2>6, ReturnStep
<1> QED
  BY <1>7, <1>8, <1>9

LEMMA ReadingStep ==
  ASSUME ReadInv, NEW t \in Readers, UNCHANGED <<rl_version, rl_text>>,
         \/ RL!Fill(t) \/ RL!Take(t) \/ (RL!ReadByte(t) /\ RL!Left(t) # 0) \/ RL!ReadSome(t)
  PROVE  ThreadInv(t)'
<1> DEFINE R == Len(rl_stream[t])
           L == Len(rl_line[t])
           a == rl_at[t]
<1>1. /\ RlTypes /\ Flow(t) /\ Ahead(t) /\ Control(t) /\ Line(t) /\ AllRight(t)
      /\ rl_line[t] \in RlBytes /\ rl_stream[t] \in RlBytes /\ rl_read_buf[t] \in RlBytes
      /\ rl_n[t] \in Nat /\ rl_read_cnt[t] \in Int /\ rl_read_ptr[t] \in Nat
      /\ a \in Nat /\ rl_version \in RL!Versions /\ rl_text \in Seq({"x", "nl"})
  BY DEF ReadInv, RlTypes
<1>2. L \in Nat /\ R \in Nat /\ Len(rl_text) \in Nat /\ Len(rl_read_buf[t]) \in Nat
  BY <1>1, SeqTypes, LenProperties
<1>3. R + Held(t) + Kept(t) = a /\ a <= Len(rl_text)
  BY <1>1 DEF Flow
<1>4. CASE RL!Fill(t)
  <2>1. PICK k \in 1 .. BufSize :
          /\ k <= RL!Left(t)
          /\ rl_read_buf' = [rl_read_buf EXCEPT ![t] = RL!Bytes(t, a, k)]
          /\ rl_read_cnt' = [rl_read_cnt EXCEPT ![t] = k]
          /\ rl_at' = [rl_at EXCEPT ![t] = @ + k]
    BY <1>4 DEF RL!Fill, RL!Place
  <2>2. k \in Nat /\ k > 0 /\ a + k <= Len(rl_text)
    BY <1>1, <1>2, <2>1, ReadersAssumption DEF RL!Left
  <2>3. /\ rl_read_buf'[t] = RL!Bytes(t, a, k) /\ rl_read_cnt'[t] = k /\ rl_at'[t] = a + k
        /\ rl_read_ptr'[t] = 1 /\ rl_pc[t] = "read" /\ rl_pc'[t] = "take"
        /\ UNCHANGED <<rl_line, rl_n, rl_got, rl_stream>>
    BY <1>1, <1>4, <2>1
    DEF RL!Fill, RL!Place, RL!At, RL!Goto, RL!call, RL!returned, RlTypes
  <2>4. Open(t) /\ Open(t)' /\ Held(t)' = Held(t)
    BY <2>3 DEF Open, Held
  <2>5. Kept(t) = 0 /\ Kept(t)' = k /\ rl_n[t] < MAXLINE /\ rl_version \in RL!Buffered
    BY <1>1, <2>2, <2>3 DEF Control, Kept
  <2>6. R + Held(t) + k = a + k
    <3>1. Held(t) \in Nat
      BY <1>2 DEF Held
    <3> HIDE DEF R, L, a
    <3> QED
      BY ONLY <1>1, <1>2, <1>3, <2>2, <2>5, <3>1
  <2>7. Flow(t)'
    BY <1>1, <2>2, <2>3, <2>4, <2>5, <2>6 DEF Flow
  <2>8. Ahead(t)'
    <3> HIDE DEF a
    <3>1. Len(RL!Bytes(t, a, k)) = k
      BY <1>1, <2>2, BytesAre
    <3>2. a + k - k = a /\ k <= a + k /\ 1 - 1 + k = k
      BY <1>1, <2>2
    <3>4. Len(rl_read_buf'[t]) = k
      BY <2>3, <3>1, Zenon
    <3>3. Len(rl_read_buf'[t]) = k /\ rl_at'[t] - Len(rl_read_buf'[t]) = a
      BY <1>1, <2>2, <2>3, <3>2, <3>4
    <3> QED
      BY <2>2, <2>3, <3>2, <3>3 DEF Ahead
  <2>9. Control(t)' /\ Line(t)'
    BY <1>1, <2>2, <2>3, <2>4, <2>5 DEF Control, Line
  <2> QED
    BY <1>1, <2>3, <2>7, <2>8, <2>9, SameCalls DEF ThreadInv
<1>5. CASE RL!Take(t)
  <2> DEFINE B == rl_read_buf[t]
             b == Len(B)
             p == rl_read_ptr[t]
             q == rl_read_cnt[t]
  <2>1. rl_pc[t] = "take" /\ q > 0 /\ rl_version \in RL!Buffered /\ rl_n[t] < MAXLINE
    BY <1>1, <1>5 DEF RL!Take, RL!At, Control
  <2>2. Open(t) /\ Held(t) = L /\ Kept(t) = q /\ rl_version # "readn"
    BY <2>1 DEF Open, Held, Kept, RL!Buffered
  <2>3. b <= a /\ p > 0 /\ B = RL!Bytes(t, a - b, b) /\ p - 1 + q = b
    BY <1>1, <2>1 DEF Ahead
  <2>4. /\ RL!Store(t, IF p \in DOMAIN B THEN B[p] ELSE <<t, 0>>)
        /\ rl_read_cnt'[t] = q - 1 /\ rl_read_ptr'[t] = p + 1
        /\ UNCHANGED <<rl_at, rl_read_buf>>
    BY <1>1, <1>5 DEF RL!Take, RL!Place, RlTypes
  <2>5. DOMAIN B = 1 .. b
    BY <1>1, LenProperties DEF RlBytes
  <2> HIDE DEF B, b, p, q, R, L, a
  <2>6. /\ b \in Nat /\ p \in Nat /\ q \in Int /\ a \in Nat /\ R \in Nat /\ L \in Nat
        /\ R + L + q = a
    BY <1>1, <1>2, <1>3, <2>2 DEF b, p, q, B
  <2>7. a - b \in Nat /\ p \in 1 .. b /\ a - b + p = R + L + 1 /\ R + L + 1 \in Nat
    BY ONLY <2>1, <2>3, <2>6
  <2>8. B[p] = <<t, R + L + 1>>
    <3>1. RL!Bytes(t, a - b, b)[p] = <<t, a - b + p>>
      BY <2>6, <2>7, BytesAre
    <3> QED
      BY <2>3, <2>7, <3>1
  <2>9. RL!Store(t, <<t, R + L + 1>>)
    BY <2>4, <2>5, <2>7, <2>8
  <2>10. /\ rl_stream'[t] = RL!Bytes(t, 0, Len(rl_stream'[t]))
         /\ Open(t)' => rl_line'[t] = RL!Bytes(t, Len(rl_stream'[t]), Len(rl_line'[t]))
         /\ Len(rl_stream'[t]) + Held(t)' = R + L + 1
         /\ rl_pc'[t] \in {"loop", "idle"}
         /\ Line(t)' /\ AllRight(t)'
    BY <1>1, <2>1, <2>2, <2>7, <2>9, StoreFlow DEF R, L
  <2>11. Kept(t)' = q - 1
    BY <2>1, <2>4, <2>6 DEF Kept
  <2>12. R + L + 1 + (q - 1) = a
    BY ONLY <2>6
  <2>13. Flow(t)'
    BY <1>1, <1>3, <2>4, <2>10, <2>11, <2>12 DEF Flow, a
  <2>14. Ahead(t)'
    <3>1. p + 1 > 0 /\ p + 1 - 1 + (q - 1) = b
      BY ONLY <2>3, <2>6
    <3>2. /\ rl_at'[t] = a /\ rl_read_buf'[t] = B /\ Len(rl_read_buf'[t]) = b
          /\ rl_at'[t] - Len(rl_read_buf'[t]) = a - b
      BY <2>4 DEF B, b, a
    <3>3. RL!Bytes(t, a - b, b) = RL!Bytes(t, rl_at'[t] - Len(rl_read_buf'[t]), Len(rl_read_buf'[t]))
      BY <3>2, Zenon
    <3>4. rl_read_ptr'[t] > 0 /\ rl_read_ptr'[t] - 1 + rl_read_cnt'[t] = b
      BY <2>4, <2>6, <3>1
    <3> QED
      BY <2>3, <3>2, <3>3, <3>4, Zenon DEF Ahead
  <2>15. Control(t)'
    BY <2>1, <2>10 DEF Control
  <2> QED
    BY <2>10, <2>13, <2>14, <2>15 DEF ThreadInv
<1>6. CASE (RL!ReadByte(t) /\ RL!Left(t) # 0)
  <2>1. /\ rl_pc[t] = "loop" /\ rl_n[t] < MAXLINE /\ rl_version \in RL!Unbuffered
        /\ RL!Store(t, <<t, a + 1>>) /\ rl_at'[t] = a + 1
        /\ UNCHANGED <<rl_read_cnt, rl_read_ptr, rl_read_buf>>
    BY <1>1, <1>6 DEF RL!ReadByte, RL!Loop, RL!buffer, RlTypes
  <2>2. rl_version # "readn" /\ rl_version \notin RL!Buffered /\ rl_read_cnt[t] <= 0
    BY <1>1, <2>1 DEF RL!Unbuffered, RL!Buffered, Control
  <2>3. Open(t) /\ Held(t) = L /\ Kept(t) = 0 /\ Kept(t)' = 0
    BY <1>1, <2>1, <2>2 DEF Open, Held, Kept
  <2> HIDE DEF R, L, a
  <2>4. a = R + L /\ a + 1 = R + L + 1 /\ a + 1 \in Nat
    BY <1>1, <1>2, <1>3, <2>3
  <2>5. /\ rl_stream'[t] = RL!Bytes(t, 0, Len(rl_stream'[t]))
        /\ Open(t)' => rl_line'[t] = RL!Bytes(t, Len(rl_stream'[t]), Len(rl_line'[t]))
        /\ Len(rl_stream'[t]) + Held(t)' = a + 1
        /\ rl_pc'[t] \in {"loop", "idle"}
        /\ Line(t)' /\ AllRight(t)'
    BY <1>1, <2>1, <2>2, <2>3, <2>4, StoreFlow DEF R, L
  <2>6. a + 1 <= Len(rl_text) /\ a + 1 + 0 = a + 1
    BY <1>1, <1>2, <1>3, <1>6 DEF RL!Left, a
  <2>7. Flow(t)'
    BY <2>1, <2>3, <2>5, <2>6 DEF Flow
  <2>8. rl_read_cnt'[t] <= 0 /\ rl_version' \notin RL!Buffered
    BY <2>1, <2>2
  <2>9. Ahead(t)'
    BY <1>1, <2>1, <2>8 DEF Ahead
  <2>10. Control(t)'
    BY <2>5, <2>8 DEF Control
  <2> QED
    BY <2>5, <2>7, <2>9, <2>10 DEF ThreadInv
<1>7. CASE RL!ReadSome(t)
  <2>1. PICK k \in 1 .. RL!Nleft(t) :
          /\ k <= RL!Left(t)
          /\ rl_line' = [rl_line EXCEPT ![t] = @ \o RL!Bytes(t, a, k)]
          /\ rl_at' = [rl_at EXCEPT ![t] = @ + k]
    BY <1>7 DEF RL!ReadSome
  <2>2. /\ rl_pc[t] = "loop" /\ rl_version = "readn"
        /\ rl_line'[t] = rl_line[t] \o RL!Bytes(t, a, k) /\ rl_at'[t] = a + k
        /\ UNCHANGED <<rl_pc, rl_read_cnt, rl_read_ptr, rl_read_buf, rl_n, rl_got, rl_stream>>
    BY <1>1, <1>7, <2>1 DEF RL!ReadSome, RL!At, RL!buffer, RL!returned, RlTypes
  <2>3. /\ k \in Nat /\ a + k <= Len(rl_text) /\ L + k <= MAXLINE
        /\ a \in Nat /\ L \in Nat
    <3> DEFINE T == Len(rl_text)
    <3>1. /\ T \in Nat /\ a \in Nat /\ L \in Nat /\ MAXLINE \in Nat
          /\ k \in 1 .. MAXLINE - L /\ k <= T - a
      <4>1. MAXLINE \in Nat
        BY ReadersAssumption
      <4>2. k \in 1 .. MAXLINE - L /\ k <= T - a
        BY <2>1, Zenon DEF RL!Left, RL!Nleft
      <4> QED
        BY <1>1, <1>2, <4>1, <4>2
    <3> HIDE DEF T, a, L
    <3>2. k \in Nat /\ a + k <= T /\ L + k <= MAXLINE
      BY <3>1
    <3> QED
      BY <3>1, <3>2 DEF T
  <2>4. Open(t) /\ Open(t)' /\ rl_read_cnt[t] <= 0
    BY <1>1, <2>2 DEF Open, Control, RL!Buffered
  <2>5. Held(t) = L /\ Kept(t) = 0 /\ Kept(t)' = 0 /\ rl_line[t] = RL!Bytes(t, R, L)
    BY <1>1, <2>2, <2>4 DEF Held, Kept, Flow
  <2> HIDE DEF R, L, a
  <2>6. a = R + L /\ L + k \in Nat /\ R + (L + k) + 0 = a + k
    <3>1. a = R + L
      BY <1>1, <1>2, <1>3, <2>5
    <3>2. a \in Nat /\ R \in Nat /\ L \in Nat /\ k \in Nat
      BY <1>2, <2>3
    <3> QED
      BY ONLY <3>1, <3>2
  <2>7. rl_line'[t] = RL!Bytes(t, R, L + k)
    <3>0. R \in Nat /\ L \in Nat /\ k \in Nat
      BY ONLY <1>2, <2>3
    <3>1. RL!Bytes(t, R, L) \o RL!Bytes(t, R + L, k) = RL!Bytes(t, R, L + k)
      BY <3>0, BytesJoin, Zenon
    <3> QED
      BY <2>2, <2>5, <2>6, <3>1
  <2>8. Len(rl_line'[t]) = L + k
    BY <1>2, <2>6, <2>7, BytesAre
  <2>9. Held(t)' = L + k
    BY <2>4, <2>8 DEF Held
  <2>10. Len(rl_stream'[t]) = R /\ rl_stream'[t] = RL!Bytes(t, 0, R)
    BY <1>1, <2>2 DEF Flow, R
  <2>11. Flow(t)'
    BY <2>2, <2>3, <2>5, <2>6, <2>7, <2>8, <2>9, <2>10 DEF Flow
  <2>12. Ahead(t)' /\ Control(t)' /\ Line(t)'
    BY <1>1, <2>2, <2>3, <2>4, <2>8 DEF Ahead, Control, Line
  <2> QED
    BY <1>1, <2>2, <2>11, <2>12, SameCalls DEF ThreadInv
<1> QED
  BY <1>4, <1>5, <1>6, <1>7

LEMMA ReadStep == ReadInv /\ [RL!Next]_rl_vars => ReadInv'
<1> SUFFICES ASSUME ReadInv, [RL!Next]_rl_vars PROVE ReadInv'
  OBVIOUS
<1>1. CASE UNCHANGED rl_vars
  <2>1. \A u \in Readers : UNCHANGED Own(u) /\ UNCHANGED <<rl_version, rl_text>>
    BY <1>1 DEF rl_vars, Own
  <2>2. RlTypes'
    BY <1>1 DEF rl_vars, ReadInv, RlTypes
  <2> QED
    BY <2>1, <2>2, OwnKept DEF ReadInv
<1>2. ASSUME NEW t \in Readers, RlStep(t) PROVE ReadInv'
  <2>1. UNCHANGED <<rl_version, rl_text>>
    BY <1>2, InputKept
  <2>2. RlTypes'
    BY <1>2, TypesStep
  <2>3. ThreadInv(t)'
    <3>1. CASE \/ RL!Call(t) \/ RL!MyRead(t) \/ RL!Reopen(t) \/ RL!FillInterrupted(t)
               \/ RL!ReadInterrupted(t)
      BY <2>1, <3>1, QuietStep
    <3>2. CASE \/ RL!LineFull(t) \/ RL!FillEof(t) \/ (RL!ReadByte(t) /\ RL!Left(t) = 0)
               \/ RL!ReadnReturns(t)
      BY <2>1, <3>2, ReturnsStep
    <3>3. CASE \/ RL!Fill(t) \/ RL!Take(t) \/ (RL!ReadByte(t) /\ RL!Left(t) # 0)
               \/ RL!ReadSome(t)
      BY <2>1, <3>3, ReadingStep
    <3> QED
      BY <1>2, <3>1, <3>2, <3>3, Zenon DEF RlStep, RL!Step
  <2>4. ASSUME NEW u \in Readers, u # t PROVE ThreadInv(u)'
    BY <1>2, <2>1, <2>4, Elsewhere, OwnKept DEF ReadInv, ThreadInv
  <2> QED
    BY <2>2, <2>3, <2>4 DEF ReadInv, ThreadInv
<1> QED
  BY <1>1, <1>2 DEF RL!Next, RlStep

-----------------------------------------------------------------------------
(* The programs together                                                     *)

\* pthread08.c:21-28: no wakeup of the pool is lost; example02.c: the counter counts
\* every increment; readline.c, readn.c: every reader gets its own lines, whole, in
\* order, and a result that says how many bytes.
THEOREM RecordsAlwaysAgree == SumSpec => []RecordsAgree
<1> DEFINE Inv == IInv /\ AwakeInv /\ CountInv /\ ReadInv
<1>1. SumInit => Inv
  BY InitInv, AwakeInit, CountInit, ReadInit DEF SumInit
<1>2. Inv /\ [SumNext]_all => Inv'
  <2> SUFFICES ASSUME Inv, [SumNext]_all PROVE Inv'
    OBVIOUS
  <2>1. [Next]_vars /\ [SC!Next]_sc_vars /\ [RL!Next]_rl_vars
    BY DEF SumNext, all, Pool, Counter, Buffer, Reading
  <2>2. IInv'
    BY <2>1, PoolStep
  <2>3. AwakeInv'
    BY <2>1, <2>2, AwakeStep
  <2>4. CountInv'
    BY <2>1, CountStep
  <2>5. ReadInv'
    BY <2>1, ReadStep
  <2> QED
    BY <2>2, <2>3, <2>4, <2>5
<1>3. Inv => RecordsAgree
  BY ConsistentIs, CountMeans, ReadMeans DEF RecordsAgree
<1> HIDE DEF Inv
<1> QED
  BY <1>1, <1>2, <1>3, PTL DEF SumSpec

==============================================================================
