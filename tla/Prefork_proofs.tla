--------------------------- MODULE Prefork_proofs ---------------------------
(* The preforked servers, for any workers or children and connections: the     *)
(* lock and the workers' places, the connections and the meters of those whose *)
(* workers accept; the parent's records and the descriptors of serv05          *)
(* (Consistent).                                                               *)
EXTENDS MCPrefork, FiniteSetTheorems, SequenceTheorems, TLAPS

\* Without a lock in the program nobody owns one (child02.c, pthread09.c).
NoOwner == ~Locking => lock = Free

\* A worker has a connection in its hands from accept until it closes it.
HasOne(w) == pc[w] \in {"unlock", "count", "web_child"}
Hands == \A w \in Workers : HasOne(w) <=> connfd[w] # Free

IInv == TypeOK /\ NoOwner /\ LockMatchesPlace /\ Hands /\ OneWorkerEach

\* The workers start at the top of their loops with nothing in their hands.
LEMMA InitInv == Init => IInv
<1> SUFFICES ASSUME Init PROVE IInv
  OBVIOUS
<1>1. TypeOK
  BY DEF Init, TypeOK, Top
<1>2. NoOwner /\ LockMatchesPlace
  BY WorkersAssumption DEF Init, NoOwner, LockMatchesPlace, Top, Locking
<1>3. Hands /\ OneWorkerEach
  BY DEF Init, Hands, HasOne, OneWorkerEach, Top
<1> QED
  BY <1>1, <1>2, <1>3 DEF IInv

-----------------------------------------------------------------------------
(* The steps                                                                 *)

\* What a worker may do, or somebody do to it; some only in some versions.
WorkerDoes(w) ==
  \/ Locking /\ LockWait(w)
  \/ Locking /\ Unlock(w)
  \/ ~Locking /\ SelectWakes(w)
  \/ ~Threaded /\ SigTerm(w)
  \/ Accept(w) \/ Count(w) \/ ServeAndClose(w) \/ WebChildFails(w)
  \/ Kill(w) \/ Wait(w)

\* Whatever the program, one of these steps is taken.
LEMMA Steps ==
  Next => \/ \E c \in Conns : Connect(c) \/ Abort(c)
          \/ \E w \in Workers : WorkerDoes(w)
          \/ SigInt \/ ExitParent
<1>1. ASSUME NEW w \in Workers,
             \/ Child02(w) \/ Child02m(w) \/ Paradigm2(w) \/ Child03(w) \/ Child03m(w)
             \/ Child04(w) \/ Thread07(w) \/ Thread09(w) \/ Kill(w)
      PROVE  WorkerDoes(w)
  BY <1>1 DEF WorkerDoes, Child02, Child02m, Paradigm2, Child03, Child03m, Child04, Thread07,
              Thread09, Serve, Locking, Threaded
<1>2. ASSUME Serv02 \/ Serv02m \/ MyServ \/ Serv03 \/ Serv03m \/ Serv04
      PROVE  SigInt \/ ExitParent \/ \E w \in Workers : WorkerDoes(w)
  BY <1>2 DEF Serv02, Serv02m, MyServ, Serv03, Serv03m, Serv04, Parent, Stopping, WorkerDoes,
              Threaded
<1> QED
  BY <1>1, <1>2 DEF Next, Serv07, Serv09

\* Dying, alone or with the process, keeps every variable's type.
LEMMA DieType ==
  ASSUME TypeOK, NEW w \in Workers, Die(w)
  PROVE  /\ pc' \in [Workers -> {"lock", "select", "accept", "unlock", "count",
                                 "web_child", "dead"}]
         /\ lock' \in Workers \cup {Free}
         /\ at' \in [Conns -> {"client", "queued", "accepted", "closed", "aborted"}]
         /\ connfd' \in [Workers -> Conns \cup {Free}]
BY DEF TypeOK, Die, Goto

LEMMA EndAllType ==
  ASSUME TypeOK, EndAll
  PROVE  /\ pc' \in [Workers -> {"lock", "select", "accept", "unlock", "count",
                                 "web_child", "dead"}]
         /\ at' \in [Conns -> {"client", "queued", "accepted", "closed", "aborted"}]
         /\ connfd' \in [Workers -> Conns \cup {Free}]
BY DEF TypeOK, EndAll

\* Every step keeps the types.
LEMMA TypeStep == ASSUME IInv, [Next]_vars PROVE TypeOK'
<1> USE DEF IInv, meter
<1>1. CASE UNCHANGED vars
  BY <1>1 DEF vars, TypeOK
<1>2. ASSUME NEW c \in Conns, Connect(c) \/ Abort(c) PROVE TypeOK'
  BY <1>2 DEF TypeOK, Connect, Abort
<1>3. ASSUME NEW w \in Workers, LockWait(w) \/ SelectWakes(w) PROVE TypeOK'
  BY <1>3 DEF TypeOK, LockWait, SelectWakes, Goto, At
<1>4. ASSUME NEW w \in Workers, Accept(w) PROVE TypeOK'
  BY <1>4 DEF TypeOK, Accept, AfterAccept, Goto, At
<1>5. ASSUME NEW w \in Workers, Unlock(w) PROVE TypeOK'
  BY <1>5 DEF TypeOK, Unlock, AfterAccept, Goto, At
<1>6. ASSUME NEW w \in Workers, Count(w) PROVE TypeOK'
  BY <1>6 DEF TypeOK, Count, Goto, At
<1>7. ASSUME NEW w \in Workers, ServeAndClose(w) PROVE TypeOK'
  BY <1>7 DEF TypeOK, ServeAndClose, Close, Goto, At, Top
<1>8. ASSUME NEW w \in Workers, WebChildFails(w) PROVE TypeOK'
  <2>1. CASE EndAll
    BY <1>8, <2>1, EndAllType DEF TypeOK, WebChildFails, EndAll
  <2>2. CASE Die(w) /\ UNCHANGED parent
    BY <1>8, <2>2, DieType DEF TypeOK, WebChildFails
  <2> QED
    BY <1>8, <2>1, <2>2 DEF WebChildFails
<1>9. ASSUME NEW w \in Workers, Kill(w) PROVE TypeOK'
  <2>1. Die(w) /\ UNCHANGED <<version, parent, reaped, meter>> /\ kills' = kills + 1
    BY <1>9 DEF Kill
  <2> QED
    BY <2>1, DieType DEF TypeOK
<1>10. ASSUME NEW w \in Workers, SigTerm(w) PROVE TypeOK'
  <2>1. Die(w) /\ UNCHANGED <<version, parent, reaped, kills, meter>>
    BY <1>10 DEF SigTerm
  <2> QED
    BY <2>1, DieType DEF TypeOK
<1>11. ASSUME NEW w \in Workers, Wait(w) PROVE TypeOK'
  BY <1>11 DEF TypeOK, Wait, At
<1>12. CASE SigInt
  <2>1. CASE EndAll
    BY <1>12, <2>1, EndAllType DEF TypeOK, SigInt, EndAll
  <2>2. CASE parent' = "wait" /\ UNCHANGED <<pc, lock, at, connfd>>
    BY <1>12, <2>2 DEF TypeOK, SigInt
  <2> QED
    BY <1>12, <2>1, <2>2 DEF SigInt
<1>13. CASE ExitParent
  BY <1>13 DEF TypeOK, ExitParent
<1>14. ASSUME NEW w \in Workers, WorkerDoes(w) PROVE TypeOK'
  BY <1>3, <1>4, <1>5, <1>6, <1>7, <1>8, <1>9, <1>10, <1>11, <1>14 DEF WorkerDoes
<1> QED
  BY Steps, <1>1, <1>2, <1>12, <1>13, <1>14

-----------------------------------------------------------------------------
(* The lock                                                                  *)

\* Dying takes the lock along, unless it is serv04's.
LEMMA DieLock ==
  ASSUME IInv, NEW w \in Workers, Die(w), UNCHANGED <<version, parent>>, ~Threaded
  PROVE  NoOwner' /\ LockMatchesPlace'
<1>1. lock' \in {lock, Free} /\ (FileLock => lock' # w)
  BY WorkersAssumption DEF Die
<1>2. NoOwner'
  BY <1>1 DEF IInv, NoOwner, Locking
<1>3. ASSUME NEW v \in Workers, Locking, pc'[v] \in {"accept", "unlock"} PROVE lock' = v
  <2>1. v # w /\ pc[v] = pc'[v]
    BY <1>3 DEF IInv, TypeOK, Die, Goto
  <2> QED
    BY <1>3, <2>1 DEF IInv, LockMatchesPlace, Die
<1>4. ASSUME NEW v \in Workers, lock' = v
      PROVE  \/ pc'[v] \in {"accept", "unlock"}
             \/ pc'[v] = "dead" /\ (version = "serv04" \/ parent = "exited")
  <2>1. lock = v
    BY <1>1, <1>4, WorkersAssumption
  <2>2. Locking
    BY <2>1, WorkersAssumption DEF IInv, NoOwner
  <2>3. CASE v = w
    BY <1>1, <1>4, <2>2, <2>3 DEF IInv, TypeOK, Die, Goto, Locking, FileLock, Threaded
  <2>4. CASE v # w
    BY <2>1, <2>4 DEF IInv, TypeOK, LockMatchesPlace, Die, Goto
  <2> QED
    BY <2>3, <2>4
<1> QED
  BY <1>2, <1>3, <1>4 DEF LockMatchesPlace, Locking

\* The end of all threads ends the process.
LEMMA EndAllLock ==
  ASSUME IInv, EndAll, UNCHANGED version
  PROVE  NoOwner' /\ LockMatchesPlace'
BY DEF IInv, TypeOK, NoOwner, LockMatchesPlace, EndAll, Locking

\* Every step keeps the lock with the worker between lock and unlock.
LEMMA LockStep == ASSUME IInv, [Next]_vars PROVE NoOwner' /\ LockMatchesPlace'
<1> DEFINE P == NoOwner' /\ LockMatchesPlace'
<1> SUFFICES P
  OBVIOUS
<1> USE DEF IInv
<1>1. CASE UNCHANGED vars
  BY <1>1 DEF vars, NoOwner, LockMatchesPlace, Locking
<1>2. ASSUME NEW c \in Conns, Connect(c) \/ Abort(c) PROVE P
  BY <1>2 DEF NoOwner, LockMatchesPlace, Locking, Connect, Abort
<1>3. ASSUME NEW w \in Workers, WorkerDoes(w) PROVE P
  <2>1. CASE Locking /\ LockWait(w)
    BY <2>1, WorkersAssumption
    DEF NoOwner, LockMatchesPlace, Locking, LockWait, Goto, At, TypeOK
  <2>2. CASE Locking /\ Unlock(w)
    BY <2>2, WorkersAssumption
    DEF NoOwner, LockMatchesPlace, Locking, Unlock, AfterAccept, Goto, At, TypeOK
  <2>3. CASE ~Locking /\ SelectWakes(w)
    BY <2>3, WorkersAssumption
    DEF NoOwner, LockMatchesPlace, Locking, SelectWakes, Goto, At, TypeOK
  <2>4. CASE ~Threaded /\ SigTerm(w)
    <3>1. Die(w) /\ UNCHANGED <<version, parent>>
      BY <2>4 DEF SigTerm
    <3> QED
      BY <2>4, <3>1, DieLock
  <2>5. CASE Accept(w)
    BY <2>5, WorkersAssumption
    DEF NoOwner, LockMatchesPlace, Locking, Accept, AfterAccept, Goto, At, TypeOK
  <2>6. CASE Count(w)
    BY <2>6, WorkersAssumption
    DEF NoOwner, LockMatchesPlace, Locking, Count, Goto, At, TypeOK
  <2>7. CASE ServeAndClose(w)
    BY <2>7, WorkersAssumption
    DEF NoOwner, LockMatchesPlace, Locking, ServeAndClose, Top, Goto, At, TypeOK
  <2>8. CASE WebChildFails(w)
    <3>1. CASE Threaded /\ EndAll
      BY <2>8, <3>1, EndAllLock DEF WebChildFails
    <3>2. CASE ~Threaded /\ Die(w) /\ UNCHANGED parent
      BY <2>8, <3>2, DieLock DEF WebChildFails
    <3> QED
      BY <2>8, <3>1, <3>2 DEF WebChildFails
  <2>9. CASE Kill(w)
    <3>1. ~Threaded /\ Die(w) /\ UNCHANGED <<version, parent>>
      BY <2>9 DEF Kill
    <3> QED
      BY <3>1, DieLock
  <2>10. CASE Wait(w)
    BY <2>10 DEF NoOwner, LockMatchesPlace, Locking, Wait
  <2> QED
    BY <1>3, <2>1, <2>2, <2>3, <2>4, <2>5, <2>6, <2>7, <2>8, <2>9, <2>10 DEF WorkerDoes
<1>4. CASE SigInt
  <2>1. CASE EndAll
    BY <1>4, <2>1, EndAllLock DEF SigInt
  <2>2. CASE parent' = "wait" /\ UNCHANGED <<pc, lock, at, connfd>>
    BY <1>4, <2>2 DEF NoOwner, LockMatchesPlace, Locking, SigInt
  <2> QED
    BY <1>4, <2>1, <2>2 DEF SigInt
<1>5. CASE ExitParent
  BY <1>5 DEF NoOwner, LockMatchesPlace, Locking, ExitParent
<1> QED
  BY Steps, <1>1, <1>2, <1>3, <1>4, <1>5

-----------------------------------------------------------------------------
(* The connections                                                           *)

\* A dying worker's connection is closed, and nobody else's.
LEMMA DieHands ==
  ASSUME IInv, NEW w \in Workers, Die(w)
  PROVE  Hands' /\ OneWorkerEach'
<1> USE DEF IInv, TypeOK
<1>1. Hands'
  BY DEF Hands, HasOne, Die, Goto
<1>2. ASSUME NEW v \in Workers, connfd'[v] # Free
      PROVE  /\ at'[connfd'[v]] = "accepted"
             /\ \A u \in Workers : connfd'[u] = connfd'[v] => u = v
  <2>1. v # w /\ connfd'[v] = connfd[v] /\ connfd[v] \in Conns
    BY <1>2 DEF Die
  <2>2. connfd[v] # connfd[w]
    BY <2>1, WorkersAssumption DEF OneWorkerEach
  <2>3. at'[connfd[v]] = at[connfd[v]]
    BY <2>1, <2>2 DEF Die
  <2> QED
    BY <2>1, <2>3, WorkersAssumption DEF OneWorkerEach, Die
<1>3. ASSUME NEW c \in Conns, at'[c] = "accepted" PROVE \E v \in Workers : connfd'[v] = c
  BY <1>3 DEF OneWorkerEach, Die
<1> QED
  BY <1>1, <1>2, <1>3 DEF OneWorkerEach

LEMMA EndAllHands ==
  ASSUME IInv, EndAll
  PROVE  Hands' /\ OneWorkerEach'
BY DEF IInv, TypeOK, EndAll, Hands, HasOne, OneWorkerEach

\* Accept returns a connection that no worker has.
LEMMA AcceptHands ==
  ASSUME IInv, NEW w \in Workers, Accept(w)
  PROVE  Hands' /\ OneWorkerEach'
<1> USE DEF IInv, TypeOK
<1>1. PICK c \in Conns : /\ at[c] = "queued" /\ at' = [at EXCEPT ![c] = "accepted"]
                         /\ connfd' = [connfd EXCEPT ![w] = c]
  BY DEF Accept
<1>2. c # Free /\ connfd[w] = Free
  BY WorkersAssumption DEF Accept, At, Hands, HasOne
<1>3. \A v \in Workers : connfd[v] # c
  BY <1>1, <1>2 DEF OneWorkerEach
<1>4. Hands'
  BY <1>1, <1>2 DEF Hands, HasOne, Accept, At, AfterAccept, Goto
<1>5. ASSUME NEW v \in Workers, connfd'[v] # Free
      PROVE  /\ at'[connfd'[v]] = "accepted"
             /\ \A u \in Workers : connfd'[u] = connfd'[v] => u = v
  <2>1. CASE v = w
    BY <1>1, <1>3, <2>1
  <2>2. CASE v # w
    <3>1. connfd'[v] = connfd[v] /\ connfd[v] \in Conns \ {c}
      BY <1>1, <1>3, <1>5, <2>2
    <3> QED
      BY <1>1, <1>5, <2>2, <3>1 DEF OneWorkerEach
  <2> QED
    BY <2>1, <2>2
<1>6. ASSUME NEW d \in Conns, at'[d] = "accepted" PROVE \E v \in Workers : connfd'[v] = d
  <2>1. CASE d = c
    BY <1>1, <2>1
  <2>2. CASE d # c
    <3>1. PICK v \in Workers : connfd[v] = d
      BY <1>1, <1>6, <2>2 DEF OneWorkerEach
    <3>2. v # w
      BY <1>2, <3>1, WorkersAssumption
    <3> QED
      BY <1>1, <3>1, <3>2
  <2> QED
    BY <2>1, <2>2
<1> QED
  BY <1>4, <1>5, <1>6 DEF OneWorkerEach

\* web_child's return closes the connection of that worker.
LEMMA CloseHands ==
  ASSUME IInv, NEW w \in Workers, ServeAndClose(w)
  PROVE  Hands' /\ OneWorkerEach'
<1> USE DEF IInv, TypeOK
<1>1. /\ at' = [at EXCEPT ![connfd[w]] = "closed"]
      /\ connfd' = [connfd EXCEPT ![w] = Free]
      /\ connfd[w] \in Conns
  BY DEF ServeAndClose, Close, At, Hands, HasOne
<1>2. Hands'
  BY <1>1 DEF Hands, HasOne, ServeAndClose, At, Goto, Top
<1>3. ASSUME NEW v \in Workers, connfd'[v] # Free
      PROVE  /\ at'[connfd'[v]] = "accepted"
             /\ \A u \in Workers : connfd'[u] = connfd'[v] => u = v
  BY <1>1, <1>3, WorkersAssumption DEF OneWorkerEach
<1>4. ASSUME NEW c \in Conns, at'[c] = "accepted" PROVE \E v \in Workers : connfd'[v] = c
  BY <1>1, <1>4 DEF OneWorkerEach
<1> QED
  BY <1>2, <1>3, <1>4 DEF OneWorkerEach

\* Every step leaves each accepted connection with one worker.
LEMMA HandsStep == ASSUME IInv, [Next]_vars PROVE Hands' /\ OneWorkerEach'
<1> DEFINE P == Hands' /\ OneWorkerEach'
<1> SUFFICES P
  OBVIOUS
<1>1. CASE UNCHANGED vars
  BY <1>1 DEF IInv, vars, Hands, HasOne, OneWorkerEach
<1>2. ASSUME NEW c \in Conns, Connect(c) \/ Abort(c) PROVE P
  <2>1. Hands'
    BY <1>2 DEF IInv, Hands, HasOne, Connect, Abort
  <2>2. at[c] # "accepted" /\ at'[c] # "accepted"
    BY <1>2 DEF IInv, TypeOK, Connect, Abort
  <2>3. \A d \in Conns : at'[d] = "accepted" <=> at[d] = "accepted"
    BY <1>2, <2>2 DEF IInv, TypeOK, Connect, Abort
  <2>4. UNCHANGED connfd
    BY <1>2 DEF Connect, Abort
  <2> QED
    BY <2>1, <2>3, <2>4 DEF IInv, TypeOK, OneWorkerEach
<1>3. ASSUME NEW w \in Workers, WorkerDoes(w) PROVE P
  <2>1. CASE LockWait(w) \/ SelectWakes(w) \/ Unlock(w) \/ Count(w) \/ Wait(w)
    <3>1. UNCHANGED <<at, connfd>>
      BY <2>1 DEF LockWait, SelectWakes, Unlock, Count, Wait
    <3>2. \A v \in Workers : HasOne(v)' <=> HasOne(v)
      BY <2>1 DEF IInv, TypeOK, HasOne, LockWait, SelectWakes, Unlock, Count, Wait,
                  AfterAccept, Goto, At
    <3> QED
      BY <3>1, <3>2 DEF IInv, Hands, OneWorkerEach
  <2>2. CASE SigTerm(w) \/ Kill(w)
    BY <2>2, DieHands DEF SigTerm, Kill
  <2>3. CASE Accept(w)
    BY <2>3, AcceptHands
  <2>4. CASE ServeAndClose(w)
    BY <2>4, CloseHands
  <2>5. CASE WebChildFails(w)
    BY <2>5, DieHands, EndAllHands DEF WebChildFails
  <2> QED
    BY <1>3, <2>1, <2>2, <2>3, <2>4, <2>5 DEF WorkerDoes
<1>4. CASE SigInt
  <2>1. CASE EndAll
    BY <2>1, EndAllHands
  <2>2. CASE UNCHANGED <<pc, lock, at, connfd>>
    BY <2>2 DEF IInv, Hands, HasOne, OneWorkerEach
  <2> QED
    BY <1>4, <2>1, <2>2 DEF SigInt
<1>5. CASE ExitParent
  BY <1>5 DEF IInv, Hands, HasOne, OneWorkerEach, ExitParent
<1> QED
  BY Steps, <1>1, <1>2, <1>3, <1>4, <1>5

-----------------------------------------------------------------------------
(* The meters                                                                *)

\* The connections that a worker has accepted have left the kernel's queue, and
\* while the meters are exact they have been counted.
MeterInv ==
  /\ \A c \in Conns : by[c] # Free => at[c] \notin {"client", "queued"}
  /\ \A w \in Workers : IsFiniteSet(AcceptedBy(w))
  /\ MetersCount

LEMMA InitMeters == Init => MeterInv
<1> SUFFICES ASSUME Init PROVE MeterInv
  OBVIOUS
<1>1. \A w \in Workers : AcceptedBy(w) = {}
  BY WorkersAssumption DEF Init, AcceptedBy
<1>2. \A w \in Workers : IsFiniteSet(AcceptedBy(w)) /\ Cardinality(AcceptedBy(w)) = 0
  BY <1>1, FS_EmptySet
<1>3. MetersCount
  BY <1>2 DEF Init, MetersCount, Top
<1> QED
  BY <1>2, <1>3 DEF Init, MeterInv

\* Accept gives one more connection to its worker, and to no other.
LEMMA AcceptMeters ==
  ASSUME IInv, MeterInv, NEW w \in Workers, Accept(w)
  PROVE  MeterInv'
<1> USE DEF IInv, TypeOK
<1>1. PICK c \in Conns : /\ at[c] = "queued" /\ at' = [at EXCEPT ![c] = "accepted"]
                         /\ by' = [by EXCEPT ![c] = w]
  BY DEF Accept
<1>2. by[c] = Free
  BY <1>1 DEF MeterInv
<1>3. \A d \in Conns : by'[d] # Free => at'[d] \notin {"client", "queued"}
  BY <1>1 DEF MeterInv
<1>4. AcceptedBy(w)' = AcceptedBy(w) \cup {c} /\ c \notin AcceptedBy(w)
  BY <1>1, <1>2, WorkersAssumption DEF AcceptedBy
<1>5. \A v \in Workers \ {w} : AcceptedBy(v)' = AcceptedBy(v)
  BY <1>1, <1>2, WorkersAssumption DEF AcceptedBy
<1>6. /\ IsFiniteSet(AcceptedBy(w)')
      /\ Cardinality(AcceptedBy(w)') = Cardinality(AcceptedBy(w)) + 1
  BY <1>4, FS_AddElement DEF MeterInv
<1>7. \A v \in Workers : IsFiniteSet(AcceptedBy(v)')
  BY <1>5, <1>6 DEF MeterInv
<1>8. \A v \in Workers : Cardinality(AcceptedBy(v)) \in Nat
  BY FS_CardinalityType DEF MeterInv
<1>9. ASSUME Metered', kills' = 0, parent' = "pause", NEW v \in Workers
      PROVE  cptr'[v] + (IF pc'[v] \in {"unlock", "count"} THEN 1 ELSE 0)
               = Cardinality(AcceptedBy(v)')
  <2>1. /\ Metered /\ UNCHANGED cptr /\ pc[w] = "accept"
        /\ pc' = [pc EXCEPT ![w] = IF Locking THEN "unlock" ELSE "count"]
    BY <1>9 DEF Accept, Metered, Threaded, AfterAccept, At, Goto
  <2>2. \A u \in Workers :
          cptr[u] + (IF pc[u] \in {"unlock", "count"} THEN 1 ELSE 0) = Cardinality(AcceptedBy(u))
    BY <1>9, <2>1 DEF MeterInv, MetersCount, Accept
  <2>3. CASE v = w
    BY <1>6, <1>8, <2>1, <2>2, <2>3
  <2>4. CASE v # w
    BY <1>5, <2>1, <2>2, <2>4
  <2> QED
    BY <2>3, <2>4
<1> QED
  BY <1>3, <1>7, <1>9 DEF MeterInv, MetersCount

\* Where nothing is accepted the sets stay, and no connection goes back to the queue.
LEMMA OtherMeters ==
  ASSUME IInv, MeterInv, UNCHANGED by,
         \A c \in Conns : at'[c] \in {"client", "queued"} => at[c] \in {"client", "queued"},
         MetersCount'
  PROVE  MeterInv'
BY DEF MeterInv, AcceptedBy

\* Every step keeps the meters.
LEMMA MeterStep == ASSUME IInv, MeterInv, [Next]_vars PROVE MeterInv'
<1> USE DEF IInv, TypeOK, meter
<1>1. CASE UNCHANGED vars
  BY <1>1 DEF vars, MeterInv, MetersCount, AcceptedBy, Metered, Threaded
<1>2. ASSUME NEW c \in Conns, Connect(c) \/ Abort(c) PROVE MeterInv'
  <2>1. MetersCount'
    BY <1>2 DEF Connect, Abort, MeterInv, MetersCount, AcceptedBy, Metered, Threaded
  <2> QED
    BY <1>2, <2>1, OtherMeters DEF Connect, Abort
<1>3. ASSUME NEW w \in Workers, WorkerDoes(w) PROVE MeterInv'
  <2>1. CASE LockWait(w) \/ SelectWakes(w) \/ Wait(w)
    <3>1. MetersCount'
      BY <2>1 DEF LockWait, SelectWakes, Wait, At, Goto, MeterInv, MetersCount, AcceptedBy,
                  Metered, Threaded
    <3> QED
      BY <2>1, <3>1, OtherMeters DEF LockWait, SelectWakes, Wait
  <2>2. CASE Unlock(w)
    <3>1. MetersCount'
      BY <2>2 DEF Unlock, AfterAccept, At, Goto, MeterInv, MetersCount, AcceptedBy, Metered,
                  Threaded
    <3> QED
      BY <2>2, <3>1, OtherMeters DEF Unlock
  <2>3. CASE Accept(w)
    BY <2>3, AcceptMeters
  <2>4. CASE Count(w)
    <3>1. MetersCount'
      BY <2>4 DEF Count, At, Goto, MeterInv, MetersCount, AcceptedBy, Metered, Threaded
    <3> QED
      BY <2>4, <3>1, OtherMeters DEF Count
  <2>5. CASE ServeAndClose(w)
    <3>1. MetersCount'
      BY <2>5 DEF ServeAndClose, Top, At, Goto, MeterInv, MetersCount, AcceptedBy, Metered,
                  Threaded
    <3> QED
      BY <2>5, <3>1, OtherMeters DEF ServeAndClose, Close
  <2>6. CASE WebChildFails(w)
    <3>1. MetersCount'
      BY <2>6 DEF WebChildFails, EndAll, Die, At, Goto, MeterInv, MetersCount, AcceptedBy,
                  Metered, Threaded
    <3> QED
      BY <2>6, <3>1, OtherMeters DEF WebChildFails, EndAll, Die
  <2>7. CASE SigTerm(w) \/ Kill(w)
    <3>1. MetersCount'
      BY <2>7 DEF SigTerm, Kill, MetersCount
    <3> QED
      BY <2>7, <3>1, OtherMeters DEF SigTerm, Kill, Die
  <2> QED
    BY <1>3, <2>1, <2>2, <2>3, <2>4, <2>5, <2>6, <2>7 DEF WorkerDoes
<1>4. CASE SigInt
  <2>1. MetersCount'
    BY <1>4 DEF SigInt, EndAll, MetersCount
  <2> QED
    BY <1>4, <2>1, OtherMeters DEF SigInt, EndAll
<1>5. CASE ExitParent
  <2>1. MetersCount'
    BY <1>5 DEF ExitParent, MetersCount
  <2> QED
    BY <1>5, <2>1, OtherMeters DEF ExitParent
<1> QED
  BY Steps, <1>1, <1>2, <1>3, <1>4, <1>5

-----------------------------------------------------------------------------
(* serv05: what the records say of each other                                *)

RecordTypes ==
  /\ fp_parent \in {"running", "no_available_children", "write_fd",
                    "child_terminated", "interrupted"}
  /\ fp_rset \subseteq FP!Children \cup {FP!Listen}
  /\ fp_navail \in Nat /\ fp_status \in [FP!Children -> {0, 1}]
  /\ fp_child \in [FP!Children -> {"read_fd", "web_child", "exiting", "dead"}]
  /\ fp_serving \in [FP!Children -> Nat]
  /\ fp_arrived \in Nat /\ fp_left \in Nat /\ fp_accepted \in Nat /\ fp_closed \subseteq Nat
PipeTypes ==
  /\ fp_toChild \in [FP!Children -> Seq(Nat)]
  /\ fp_toParent \in [FP!Children -> Seq({"ready", "text"})]

\* No more children are ready than navail says; listenfd is watched while navail
\* is positive, and stays so until the connection is accepted.
CountInv ==
  /\ fp_navail >= Cardinality(FP!Available)
  /\ fp_parent = "running" /\ FP!Listen \in fp_rset => fp_navail > 0

\* A child has a connection in hand while web_child serves it.
IdleInv ==
  \A i \in FP!Children : /\ fp_child[i] = "read_fd" => fp_serving[i] = 0
                         /\ fp_child[i] = "web_child" => fp_serving[i] # 0

\* Each pipe holds different connections, and not the one its child serves.
PipeInv ==
  /\ \A i \in FP!Children :
       /\ fp_serving[i] <= fp_accepted
       /\ \A k \in DOMAIN fp_toChild[i] :
            /\ fp_toChild[i][k] \in 1 .. fp_accepted
            /\ fp_toChild[i][k] # fp_serving[i]
            /\ \A l \in DOMAIN fp_toChild[i] : fp_toChild[i][l] = fp_toChild[i][k] => l = k
  /\ fp_closed \subseteq 1 .. fp_accepted

PassInv ==
  /\ RecordTypes /\ PipeTypes /\ CountInv /\ FP!Accounting /\ FP!RunsOutOnlyAfterFailure
  /\ IdleInv /\ PipeInv /\ FP!EveryConnectionPlaced

LEMMA Sizes == ASSUME NEW S PROVE FP!Cardinality(S) = Cardinality(S)
BY DEF FP!Cardinality, Cardinality

\* The children are 0 .. N - 1, and the ready ones are finitely many.
LEMMA FiniteChildren ==
  /\ IsFiniteSet(FP!Children) /\ Cardinality(FP!Children) = N
  /\ IsFiniteSet(FP!Available) /\ Cardinality(FP!Available) \in Nat
  /\ FP!Listen \notin FP!Children
<1>1. IsFiniteSet(FP!Children) /\ Cardinality(FP!Children) = N
  BY FS_Interval, PassingAssumption DEF FP!Children
<1>2. IsFiniteSet(FP!Available)
  BY <1>1, FS_Subset DEF FP!Available
<1> QED
  BY <1>1, <1>2, FS_CardinalityType, PassingAssumption DEF FP!Children, FP!Listen

LEMMA InitPass == FP!Init => PassInv
<1> SUFFICES ASSUME FP!Init PROVE PassInv
  OBVIOUS
<1> USE DEF FP!Init
<1>1. FP!Available = FP!Children
  BY DEF FP!Available
<1>2. RecordTypes /\ PipeTypes
  BY PassingAssumption DEF RecordTypes, PipeTypes
<1>3. CountInv
  BY <1>1, FiniteChildren, PassingAssumption DEF CountInv
<1>4. FP!Accounting
  <2>1. ASSUME NEW i \in FP!Children PROVE fp_status[i] = FP!Holds(i)
    <3>1. fp_toChild[i] = << >> /\ fp_toParent[i] = << >> /\ fp_child[i] = "read_fd"
      OBVIOUS
    <3>2. Len(fp_toChild[i]) = 0 /\ Len(fp_toParent[i]) = 0
      BY <3>1
    <3> QED
      BY <3>1, <3>2 DEF FP!Holds
  <2> QED
    BY <1>1, <2>1, FiniteChildren, Sizes DEF FP!Accounting
<1>5. FP!RunsOutOnlyAfterFailure /\ IdleInv /\ PipeInv
  BY DEF FP!RunsOutOnlyAfterFailure, IdleInv, PipeInv
<1>6. FP!EveryConnectionPlaced
  BY DEF FP!EveryConnectionPlaced
<1> QED
  BY <1>2, <1>3, <1>4, <1>5, <1>6 DEF PassInv

\* An error message is TextBytes bytes.
LEMMA Text ==
  /\ [k \in 1 .. TextBytes |-> "text"] \in Seq({"ready", "text"})
  /\ Len([k \in 1 .. TextBytes |-> "text"]) = TextBytes
<1> DEFINE t == [k \in 1 .. TextBytes |-> "text"]
<1>1. t \in [1 .. TextBytes -> {"ready", "text"}] /\ TextBytes \in Nat
  BY PassingAssumption
<1> HIDE DEF t
<1>2. t \in Seq({"ready", "text"}) /\ DOMAIN t = 1 .. TextBytes
  BY <1>1, SeqDef
<1>3. Len(t) \in Nat /\ 1 .. Len(t) = 1 .. TextBytes
  BY <1>2, LenProperties
<1>4. Len(t) = TextBytes
  BY <1>1, <1>3
<1> QED
  BY <1>2, <1>4 DEF t

\* The steps of the parent and of the children, one by one.
PassSteps ==
  \/ FP!ClientConnects \/ FP!ClientLeaves \/ FP!Select \/ FP!AcceptAndPass \/ FP!Interrupt
  \/ \E i \in FP!Children :
       \/ FP!NewlyAvailable(i) \/ FP!ChildTerminated(i) \/ FP!ReceiveConnection(i)
       \/ FP!ExitChild(i) \/ FP!ReadFdReturnsZero(i) \/ FP!ServeAndReport(i)
       \/ FP!ReportError(i) \/ FP!KilledByClient(i)

LEMMA PassNext == FP!Next => PassSteps
BY DEF FP!Next, FP!ParentStep, FP!ChildStep, FP!ClientStep, PassSteps

\* Every step keeps the types; navail goes down only from a positive number.
LEMMA RecordStep == ASSUME PassInv, FP!Next PROVE RecordTypes'
<1>0. RecordTypes
  BY DEF PassInv
<1> USE <1>0 DEF RecordTypes, FP!parentVars, FP!childVars, FP!clients
<1>1. CASE FP!ClientConnects
  <2>1. /\ fp_arrived' = fp_arrived + 1
        /\ UNCHANGED <<fp_parent, fp_rset, fp_navail, fp_status, fp_accepted, fp_child,
                       fp_serving, fp_closed, fp_left>>
    BY <1>1 DEF FP!ClientConnects
  <2> QED
    BY <2>1
<1>9. CASE FP!ClientLeaves
  <2>1. /\ fp_left' = fp_left + 1
        /\ UNCHANGED <<fp_parent, fp_rset, fp_navail, fp_status, fp_accepted, fp_child,
                       fp_serving, fp_closed, fp_arrived>>
    BY <1>9 DEF FP!ClientLeaves
  <2> QED
    BY <2>1
<1>2. CASE FP!Select
  BY <1>2 DEF FP!Select, FP!Watched, FP!Listen
<1>3. CASE FP!AcceptAndPass
  <2>1. /\ fp_accepted' = fp_accepted + 1 /\ fp_rset' = fp_rset \ {FP!Listen}
        /\ UNCHANGED <<fp_child, fp_serving, fp_closed, fp_arrived, fp_left>>
    BY <1>3 DEF FP!AcceptAndPass
  <2>2. /\ \/ UNCHANGED fp_navail
           \/ fp_navail > 0 /\ fp_navail' = fp_navail - 1
        /\ \/ UNCHANGED fp_status
           \/ \E i \in FP!Children : fp_status' = [fp_status EXCEPT ![i] = 1]
        /\ fp_parent' \in {"running", "no_available_children", "write_fd"}
    BY <1>3 DEF PassInv, CountInv, FP!AcceptAndPass, FP!MarkBusy, FP!Available
  <2>3. fp_accepted' \in Nat /\ fp_navail' \in Nat
    BY <2>1, <2>2
  <2>4. fp_status' \in [FP!Children -> {0, 1}]
    BY <2>2
  <2> QED
    BY <2>1, <2>2, <2>3, <2>4
<1>4. CASE FP!Interrupt
  BY <1>4 DEF FP!Interrupt
<1>5. ASSUME NEW i \in FP!Children, FP!NewlyAvailable(i) \/ FP!ChildTerminated(i)
      PROVE  RecordTypes'
  <2>1. /\ fp_navail' \in {fp_navail, fp_navail + 1}
        /\ fp_status' \in {fp_status, [fp_status EXCEPT ![i] = 0]}
        /\ fp_rset' \subseteq fp_rset /\ fp_parent' \in {fp_parent, "child_terminated"}
        /\ UNCHANGED <<fp_child, fp_serving, fp_accepted, fp_arrived, fp_left, fp_closed>>
    BY <1>5 DEF FP!NewlyAvailable, FP!ChildTerminated, FP!ReadyAgain
  <2>2. fp_navail' \in Nat
    BY <2>1
  <2> QED
    BY <2>1, <2>2
<1>6. ASSUME NEW i \in FP!Children, FP!ReceiveConnection(i) PROVE RecordTypes'
  <2>1. fp_toChild[i] # << >> /\ fp_toChild[i] \in Seq(Nat)
    BY <1>6 DEF FP!ReceiveConnection, FP!ReadFd, PassInv, PipeTypes
  <2>2. Head(fp_toChild[i]) \in Nat
    BY <2>1, HeadTailProperties
  <2> QED
    BY <1>6, <2>2 DEF FP!ReceiveConnection, FP!ReadFd
<1>7. ASSUME NEW i \in FP!Children,
             FP!ExitChild(i) \/ FP!ReadFdReturnsZero(i) \/ FP!KilledByClient(i)
      PROVE  RecordTypes'
  BY <1>7 DEF FP!ExitChild, FP!ReadFdReturnsZero, FP!KilledByClient
<1>8. ASSUME NEW i \in FP!Children, FP!ServeAndReport(i) \/ FP!ReportError(i)
      PROVE  RecordTypes'
  <2>1. /\ fp_child' \in {[fp_child EXCEPT ![i] = x] : x \in {"read_fd", "dead", "exiting"}}
        /\ fp_serving' \in {fp_serving, [fp_serving EXCEPT ![i] = 0]}
        /\ fp_closed' \in {fp_closed, fp_closed \cup {fp_serving[i]}}
        /\ UNCHANGED <<fp_parent, fp_rset, fp_navail, fp_status, fp_accepted, fp_arrived, fp_left>>
    BY <1>8 DEF FP!ServeAndReport, FP!ReportError, FP!CloseServed
  <2> QED
    BY <2>1
<1> QED
  BY PassNext, <1>1, <1>2, <1>3, <1>4, <1>5, <1>6, <1>7, <1>8, <1>9 DEF PassSteps

LEMMA PipeTypeStep == ASSUME PassInv, FP!Next PROVE PipeTypes'
<1>0. PipeTypes
  BY DEF PassInv
<1>1. CASE UNCHANGED <<fp_toChild, fp_toParent>>
  BY <1>0, <1>1 DEF PipeTypes
<1>2. CASE FP!AcceptAndPass
  <2>0. fp_accepted' = fp_accepted + 1 /\ UNCHANGED fp_toParent
    BY <1>2 DEF FP!AcceptAndPass
  <2>1. fp_accepted' \in Nat
    BY <2>0 DEF PassInv, RecordTypes
  <2>2. \/ UNCHANGED fp_toChild
        \/ \E i \in FP!Children :
             fp_toChild' = [fp_toChild EXCEPT ![i] = Append(@, fp_accepted')]
    BY <1>2 DEF FP!AcceptAndPass, FP!WriteFd, FP!Available
  <2>3. ASSUME NEW i \in FP!Children,
               fp_toChild' = [fp_toChild EXCEPT ![i] = Append(@, fp_accepted')]
        PROVE  PipeTypes'
    <3>1. Append(fp_toChild[i], fp_accepted') \in Seq(Nat)
      BY <1>0, <2>1, AppendProperties DEF PipeTypes
    <3> QED
      BY <1>0, <2>0, <2>3, <3>1 DEF PipeTypes
  <2> QED
    BY <1>0, <2>0, <2>2, <2>3 DEF PipeTypes
<1>3. ASSUME NEW i \in FP!Children, FP!NewlyAvailable(i) PROVE PipeTypes'
  <2>1. fp_toParent[i] \in Seq({"ready", "text"}) /\ fp_toParent[i] # << >>
    BY <1>0, <1>3 DEF PipeTypes, FP!NewlyAvailable, FP!EndOfFile
  <2>2. SubSeq(fp_toParent[i], 2, Len(fp_toParent[i])) \in Seq({"ready", "text"})
    BY <2>1
  <2> QED
    BY <1>0, <1>3, <2>2 DEF PipeTypes, FP!NewlyAvailable
<1>4. ASSUME NEW i \in FP!Children, FP!ReceiveConnection(i) PROVE PipeTypes'
  <2>1. Tail(fp_toChild[i]) \in Seq(Nat)
    BY <1>0, <1>4 DEF PipeTypes, FP!ReceiveConnection, FP!ReadFd
  <2> QED
    BY <1>0, <1>4, <2>1 DEF PipeTypes, FP!ReceiveConnection, FP!ReadFd
<1>5. ASSUME NEW i \in FP!Children, FP!ServeAndReport(i) PROVE PipeTypes'
  <2>1. Append(fp_toParent[i], "ready") \in Seq({"ready", "text"})
    BY <1>0 DEF PipeTypes
  <2> QED
    BY <1>0, <1>5, <2>1 DEF PipeTypes, FP!ServeAndReport
<1>6. ASSUME NEW i \in FP!Children, FP!ReportError(i) PROVE PipeTypes'
  <2>1. fp_toParent[i] \o [k \in 1 .. TextBytes |-> "text"] \in Seq({"ready", "text"})
    BY <1>0, Text, ConcatProperties DEF PipeTypes
  <2> QED
    BY <1>0, <1>6, <2>1 DEF PipeTypes, FP!ReportError
<1> QED
  BY PassNext, <1>1, <1>2, <1>3, <1>4, <1>5, <1>6
  DEF PassSteps, FP!ClientConnects, FP!ClientLeaves, FP!Select, FP!Interrupt, FP!ChildTerminated,
      FP!ExitChild,
      FP!ReadFdReturnsZero, FP!KilledByClient

-----------------------------------------------------------------------------
(* serv05: navail, child_status and the children                             *)

AllSound == \A i \in FP!Children : FP!Sound(i)

\* A child that has failed never serves again.
LEMMA FailureLasts ==
  ASSUME PassInv, FP!Next, NEW i \in FP!Children, FP!Sound(i)'
  PROVE  FP!Sound(i)
BY PassNext
DEF PassInv, RecordTypes, FP!Sound, PassSteps, FP!ClientConnects, FP!ClientLeaves, FP!Select,
    FP!AcceptAndPass,
    FP!Interrupt, FP!NewlyAvailable, FP!ChildTerminated, FP!ReceiveConnection, FP!ExitChild,
    FP!ReadFdReturnsZero, FP!ServeAndReport, FP!ReportError, FP!KilledByClient, FP!parentVars,
    FP!childVars, FP!clients

\* Where the parent's records stay, what a busy child holds must stay too.
LEMMA QuietRecords ==
  ASSUME PassInv, FP!Next, UNCHANGED <<fp_navail, fp_status>>,
         fp_parent' = "running" => fp_parent = "running",
         fp_parent' = "running" /\ FP!Listen \in fp_rset' => fp_navail > 0,
         fp_parent' = "no_available_children" => fp_parent = "no_available_children",
         AllSound' => \A i \in FP!Children : FP!Holds(i)' = FP!Holds(i)
  PROVE  CountInv' /\ FP!Accounting' /\ FP!RunsOutOnlyAfterFailure'
<1>1. FP!Available' = FP!Available
  BY DEF FP!Available
<1>2. CountInv'
  BY <1>1 DEF PassInv, CountInv
<1>3. AllSound' => AllSound
  BY FailureLasts DEF AllSound
<1>4. FP!Accounting'
  BY <1>1, <1>3 DEF PassInv, FP!Accounting, AllSound
<1>5. FP!RunsOutOnlyAfterFailure'
  BY FailureLasts DEF PassInv, FP!RunsOutOnlyAfterFailure
<1> QED
  BY <1>2, <1>4, <1>5

\* A new connection takes one child from the ready ones, and navail down by one.
LEMMA AcceptCount ==
  ASSUME PassInv, FP!AcceptAndPass, FP!Next
  PROVE  CountInv' /\ FP!Accounting' /\ FP!RunsOutOnlyAfterFailure'
<1>1. /\ fp_parent = "running" /\ fp_navail > 0
      /\ fp_rset' = fp_rset \ {FP!Listen}
      /\ UNCHANGED <<fp_child, fp_toParent>>
  BY DEF FP!AcceptAndPass, FP!childVars, FP!clients, PassInv, CountInv
<1>2. FP!Listen \notin fp_rset'
  BY <1>1
<1>3. AllSound' => AllSound
  BY FailureLasts DEF AllSound
<1>4. CASE FP!Available = {}
  <2>1. /\ fp_parent' = "no_available_children"
        /\ UNCHANGED <<fp_navail, fp_status>>
    BY <1>4 DEF FP!AcceptAndPass
  <2>2. FP!Available' = FP!Available
    BY <2>1 DEF FP!Available
  <2>3. ~AllSound
    <3>1. Cardinality(FP!Available) = 0
      BY <1>4, FS_EmptySet
    <3> QED
      BY <1>1, <3>1, Sizes DEF PassInv, FP!Accounting, AllSound
  <2>4. \E i \in FP!Children : ~FP!Sound(i)'
    BY <1>1, <2>3 DEF AllSound, FP!Sound
  <2> QED
    BY <1>2, <2>1, <2>2, <2>4
    DEF PassInv, CountInv, FP!Accounting, FP!RunsOutOnlyAfterFailure
<1>5. CASE FP!Available # {}
  <2>1. PICK i \in FP!Available :
          /\ fp_navail' = fp_navail - 1
          /\ fp_status' = [fp_status EXCEPT ![i] = 1]
          /\ \/ /\ fp_toChild' = [fp_toChild EXCEPT ![i] = Append(@, fp_accepted')]
                /\ UNCHANGED fp_parent
             \/ fp_child[i] = "dead" /\ fp_parent' = "write_fd"
    BY <1>5 DEF FP!AcceptAndPass, FP!MarkBusy, FP!WriteFd
  <2>2. i \in FP!Children /\ fp_status[i] = 0
    BY DEF FP!Available
  <2>3. FP!Available' = FP!Available \ {i}
    BY <2>1, <2>2 DEF FP!Available, PassInv, RecordTypes
  <2>4. Cardinality(FP!Available') = Cardinality(FP!Available) - 1
    BY <2>3, FiniteChildren, FS_RemoveElement
  <2>5. CountInv'
    BY <1>2, <2>1, <2>4, FiniteChildren DEF PassInv, RecordTypes, CountInv
  <2>6. FP!RunsOutOnlyAfterFailure'
    BY <1>1, <2>1 DEF FP!RunsOutOnlyAfterFailure
  <2>7. ASSUME fp_parent' = "running", AllSound'
        PROVE  /\ fp_navail' = Cardinality(FP!Available')
               /\ \A j \in FP!Children : fp_status'[j] = FP!Holds(j)'
    <3>1. /\ fp_navail = Cardinality(FP!Available)
          /\ \A j \in FP!Children : fp_status[j] = FP!Holds(j)
      BY <1>1, <1>3, <2>7, Sizes DEF PassInv, FP!Accounting, AllSound
    <3>2. fp_navail' = Cardinality(FP!Available')
      BY <2>1, <2>4, <3>1
    <3>3. fp_toChild' = [fp_toChild EXCEPT ![i] = Append(@, fp_accepted')]
      BY <2>1, <2>7
    <3>4. fp_toChild[i] \in Seq(Nat) /\ fp_toChild'[i] = Append(fp_toChild[i], fp_accepted')
      BY <2>2, <3>3 DEF PassInv, PipeTypes
    <3>5. Len(fp_toChild'[i]) = Len(fp_toChild[i]) + 1 /\ Len(fp_toChild[i]) \in Nat
      BY <3>4, AppendProperties, RecordStep DEF RecordTypes
    <3>6. fp_toParent[i] \in Seq({"ready", "text"}) /\ Len(fp_toParent[i]) \in Nat
      BY <2>2 DEF PassInv, PipeTypes
    <3>7. FP!Holds(i)' = FP!Holds(i) + 1
      <4>1. PICK b \in Nat : b = IF fp_child[i] = "web_child" THEN 1 ELSE 0
        OBVIOUS
      <4>2. /\ FP!Holds(i) = Len(fp_toChild[i]) + b + Len(fp_toParent[i])
            /\ FP!Holds(i)' = Len(fp_toChild'[i]) + b + Len(fp_toParent[i])
        BY <1>1, <4>1 DEF FP!Holds
      <4>3. ASSUME NEW x \in Nat, NEW y \in Nat
            PROVE  (x + 1) + b + y = (x + b + y) + 1
        OBVIOUS
      <4>4. Len(fp_toChild'[i]) + b + Len(fp_toParent[i])
              = (Len(fp_toChild[i]) + b + Len(fp_toParent[i])) + 1
        BY <3>5, <3>6, <4>3
      <4> QED
        BY <4>2, <4>4
    <3>8. fp_status'[i] = 1
      BY <2>1, <2>2 DEF PassInv, RecordTypes
    <3>9. ASSUME NEW j \in FP!Children \ {i} PROVE fp_status'[j] = FP!Holds(j)'
      <4>1. fp_status'[j] = fp_status[j] /\ fp_toChild'[j] = fp_toChild[j]
        BY <2>1, <3>3 DEF PassInv, RecordTypes, PipeTypes
      <4> QED
        BY <1>1, <3>1, <4>1 DEF FP!Holds
    <3> QED
      BY <2>2, <3>1, <3>2, <3>7, <3>8, <3>9
  <2> QED
    BY <2>5, <2>6, <2>7, Sizes DEF FP!Accounting, AllSound
<1> QED
  BY <1>4, <1>5

\* A byte in a child's pipe makes the child ready, once more than navail says if the
\* child was ready before: then the byte was not a report.
LEMMA ReadyCount ==
  ASSUME PassInv, FP!Next, NEW i \in FP!Children, FP!NewlyAvailable(i)
  PROVE  CountInv' /\ FP!Accounting' /\ FP!RunsOutOnlyAfterFailure'
<1>1. /\ fp_parent = "running" /\ fp_toParent[i] # << >>
      /\ fp_toParent' = [fp_toParent EXCEPT ![i] = SubSeq(@, 2, Len(@))]
      /\ fp_status' = [fp_status EXCEPT ![i] = 0]
      /\ fp_navail' = fp_navail + 1
      /\ UNCHANGED <<fp_parent, fp_child, fp_toChild>>
  BY DEF FP!NewlyAvailable, FP!Scanning, FP!EndOfFile, FP!ReadyAgain, FP!childVars, FP!clients
<1>2. FP!Available' = FP!Available \cup {i}
  BY <1>1 DEF FP!Available, PassInv, RecordTypes
<1>3. Cardinality(FP!Available') =
        IF i \in FP!Available THEN Cardinality(FP!Available) ELSE Cardinality(FP!Available) + 1
  BY <1>2, FiniteChildren, FS_AddElement
<1>4. CountInv'
  BY <1>1, <1>3, FiniteChildren DEF PassInv, RecordTypes, CountInv
<1>5. FP!RunsOutOnlyAfterFailure'
  BY <1>1 DEF FP!RunsOutOnlyAfterFailure
<1>6. ASSUME AllSound'
      PROVE  /\ fp_navail' = Cardinality(FP!Available')
             /\ \A j \in FP!Children : fp_status'[j] = FP!Holds(j)'
  <2>1. /\ fp_navail = Cardinality(FP!Available)
        /\ \A j \in FP!Children : fp_status[j] = FP!Holds(j)
    BY <1>1, <1>6, FailureLasts, Sizes DEF PassInv, FP!Accounting, AllSound
  <2>2. fp_status[i] \in {0, 1} /\ fp_status'[i] = 0
    BY <1>1 DEF PassInv, RecordTypes
  <2>3. fp_toParent[i] \in Seq({"ready", "text"})
    BY DEF PassInv, PipeTypes
  <2>4. Len(fp_toParent[i]) \in Nat \ {0}
    BY ONLY <1>1, <2>3, EmptySeq
  <2>5. Len(fp_toChild[i]) \in Nat
    BY DEF PassInv, PipeTypes
  <2>6. fp_toParent'[i] = SubSeq(fp_toParent[i], 2, Len(fp_toParent[i]))
    BY <1>1 DEF PassInv, PipeTypes
  <2>7. Len(fp_toParent'[i]) = Len(fp_toParent[i]) - 1
    BY ONLY <2>3, <2>4, <2>6, SubSeqProperties, ElementOfSeq
  <2>8. FP!Holds(i)' = FP!Holds(i) - 1 /\ FP!Holds(i) \in Nat \ {0}
    <3>1. PICK b \in Nat : b = IF fp_child[i] = "web_child" THEN 1 ELSE 0
      OBVIOUS
    <3>2. /\ FP!Holds(i) = Len(fp_toChild[i]) + b + Len(fp_toParent[i])
          /\ FP!Holds(i)' = Len(fp_toChild[i]) + b + Len(fp_toParent'[i])
      BY <1>1, <3>1 DEF FP!Holds
    <3>3. ASSUME NEW x \in Nat, NEW y \in Nat \ {0}
          PROVE  x + b + (y - 1) = (x + b + y) - 1 /\ x + b + y \in Nat \ {0}
      OBVIOUS
    <3>4. /\ Len(fp_toChild[i]) + b + Len(fp_toParent'[i])
               = (Len(fp_toChild[i]) + b + Len(fp_toParent[i])) - 1
          /\ Len(fp_toChild[i]) + b + Len(fp_toParent[i]) \in Nat \ {0}
      BY <2>4, <2>5, <2>7, <3>3
    <3> QED
      BY <3>2, <3>4
  <2>9. fp_status[i] = 1 /\ FP!Holds(i)' = 0
    BY <2>1, <2>2, <2>8
  <2>10. i \notin FP!Available
    BY <2>9 DEF FP!Available
  <2>11. ASSUME NEW j \in FP!Children \ {i} PROVE fp_status'[j] = FP!Holds(j)'
    <3>1. fp_status'[j] = fp_status[j] /\ fp_toParent'[j] = fp_toParent[j]
      BY <1>1 DEF PassInv, RecordTypes, PipeTypes
    <3> QED
      BY <1>1, <2>1, <3>1 DEF FP!Holds
  <2> QED
    BY <1>1, <1>3, <2>1, <2>2, <2>9, <2>10, <2>11
<1> QED
  BY <1>4, <1>5, <1>6, Sizes DEF FP!Accounting, AllSound

\* A child takes its connection from the pipe into its hands.
LEMMA ReceiveHolds ==
  ASSUME PassInv, NEW i \in FP!Children, FP!ReceiveConnection(i)
  PROVE  \A j \in FP!Children : FP!Holds(j)' = FP!Holds(j)
<1>1. /\ fp_child[i] = "read_fd" /\ fp_toChild[i] # << >>
      /\ fp_toChild' = [fp_toChild EXCEPT ![i] = Tail(@)]
      /\ fp_child' = [fp_child EXCEPT ![i] = "web_child"]
      /\ UNCHANGED fp_toParent
  BY DEF FP!ReceiveConnection, FP!ReadFd
<1>2. ASSUME NEW j \in FP!Children \ {i} PROVE FP!Holds(j)' = FP!Holds(j)
  BY <1>1 DEF PassInv, RecordTypes, PipeTypes, FP!Holds
<1>3. fp_toChild[i] \in Seq(Nat) /\ fp_toChild'[i] = Tail(fp_toChild[i])
  BY <1>1 DEF PassInv, PipeTypes
<1>4. Len(fp_toChild[i]) \in Nat \ {0} /\ Len(fp_toChild'[i]) = Len(fp_toChild[i]) - 1
  BY <1>1, <1>3, EmptySeq, HeadTailProperties
<1>5. Len(fp_toParent[i]) \in Nat
  BY DEF PassInv, PipeTypes
<1>6. /\ FP!Holds(i) = Len(fp_toChild[i]) + 0 + Len(fp_toParent[i])
      /\ FP!Holds(i)' = Len(fp_toChild'[i]) + 1 + Len(fp_toParent[i])
  BY <1>1 DEF PassInv, RecordTypes, FP!Holds
<1>7. FP!Holds(i)' = FP!Holds(i)
  BY ONLY <1>4, <1>5, <1>6
<1> QED
  BY <1>2, <1>7

\* Its report takes the place of the connection that it has served.
LEMMA ReportHolds ==
  ASSUME PassInv, NEW i \in FP!Children, FP!ServeAndReport(i), ~FP!PipeAbandoned(i)
  PROVE  \A j \in FP!Children : FP!Holds(j)' = FP!Holds(j)
<1>1. /\ fp_child[i] = "web_child"
      /\ fp_toParent' = [fp_toParent EXCEPT ![i] = Append(@, "ready")]
      /\ fp_child' = [fp_child EXCEPT ![i] = "read_fd"]
      /\ UNCHANGED fp_toChild
  BY DEF FP!ServeAndReport
<1>2. ASSUME NEW j \in FP!Children \ {i} PROVE FP!Holds(j)' = FP!Holds(j)
  BY <1>1 DEF PassInv, RecordTypes, PipeTypes, FP!Holds
<1>3. /\ fp_toParent[i] \in Seq({"ready", "text"})
      /\ fp_toParent'[i] = Append(fp_toParent[i], "ready")
  BY <1>1 DEF PassInv, PipeTypes
<1>4. Len(fp_toParent[i]) \in Nat /\ Len(fp_toParent'[i]) = Len(fp_toParent[i]) + 1
  BY <1>3, LenProperties, AppendProperties
<1>5. Len(fp_toChild[i]) \in Nat
  BY DEF PassInv, PipeTypes
<1>6. /\ FP!Holds(i) = Len(fp_toChild[i]) + 1 + Len(fp_toParent[i])
      /\ FP!Holds(i)' = Len(fp_toChild[i]) + 0 + Len(fp_toParent'[i])
  BY <1>1 DEF PassInv, RecordTypes, FP!Holds
<1>7. ASSUME NEW a \in Nat, NEW b \in Nat, NEW c \in Nat, c = b + 1
      PROVE  a + 0 + c = a + 1 + b
  BY <1>7
<1>8. Len(fp_toParent'[i]) \in Nat
  BY <1>4
<1>9. Len(fp_toChild[i]) + 0 + Len(fp_toParent'[i]) = Len(fp_toChild[i]) + 1 + Len(fp_toParent[i])
  BY <1>4, <1>5, <1>7, <1>8
<1>10. FP!Holds(i)' = FP!Holds(i)
  BY <1>6, <1>9
<1> QED
  BY <1>2, <1>10

\* Every step keeps the parent's records in agreement with the children.
LEMMA CountStep ==
  ASSUME PassInv, FP!Next
  PROVE  CountInv' /\ FP!Accounting' /\ FP!RunsOutOnlyAfterFailure'
<1> DEFINE P == CountInv' /\ FP!Accounting' /\ FP!RunsOutOnlyAfterFailure'
<1> SUFFICES P
  OBVIOUS
<1> USE DEF FP!parentVars, FP!childVars, FP!clients
<1>1. fp_parent = "running" /\ FP!Listen \in fp_rset => fp_navail > 0
  BY DEF PassInv, CountInv
<1>2. CASE FP!ClientConnects \/ FP!ClientLeaves
  BY <1>1, <1>2, QuietRecords DEF FP!ClientConnects, FP!ClientLeaves, FP!Holds
<1>3. CASE FP!Select
  <2>1. FP!Listen \in fp_rset' => fp_navail > 0
    BY <1>3, FiniteChildren DEF FP!Select, FP!Watched, PassInv, RecordTypes
  <2> QED
    BY <1>3, <2>1, QuietRecords DEF FP!Select, FP!Holds
<1>4. CASE FP!AcceptAndPass
  BY <1>4, AcceptCount
<1>5. CASE FP!Interrupt
  BY <1>5, QuietRecords, FiniteChildren, PassingAssumption
  DEF FP!Interrupt, AllSound, FP!Sound, FP!Children
<1>6. ASSUME NEW i \in FP!Children, FP!NewlyAvailable(i) PROVE P
  BY <1>6, ReadyCount
<1>7. ASSUME NEW i \in FP!Children, FP!ChildTerminated(i) PROVE P
  BY <1>7, QuietRecords DEF FP!ChildTerminated, FP!Holds
<1>8. ASSUME NEW i \in FP!Children, FP!ReceiveConnection(i) PROVE P
  <2>1. UNCHANGED <<fp_parent, fp_rset, fp_navail, fp_status>>
    BY <1>8 DEF FP!ReceiveConnection
  <2> QED
    BY <1>1, <1>8, <2>1, QuietRecords, ReceiveHolds
<1>9. ASSUME NEW i \in FP!Children, FP!ServeAndReport(i) PROVE P
  <2>1. UNCHANGED <<fp_parent, fp_rset, fp_navail, fp_status>>
    BY <1>9 DEF FP!ServeAndReport
  <2>2. CASE ~FP!PipeAbandoned(i)
    BY <1>1, <1>9, <2>1, <2>2, QuietRecords, ReportHolds
  <2>3. CASE FP!PipeAbandoned(i)
    <3>1. ~FP!Sound(i)'
      BY <1>9, <2>3 DEF FP!ServeAndReport, FP!Sound, PassInv, RecordTypes
    <3> QED
      BY <1>1, <2>1, <3>1, QuietRecords DEF AllSound
  <2> QED
    BY <2>2, <2>3
<1>10. ASSUME NEW i \in FP!Children,
              \/ FP!ReportError(i) \/ FP!KilledByClient(i) \/ FP!ExitChild(i)
              \/ FP!ReadFdReturnsZero(i)
       PROVE  P
  <2>1. UNCHANGED <<fp_parent, fp_rset, fp_navail, fp_status>>
    BY <1>10 DEF FP!ReportError, FP!KilledByClient, FP!ExitChild, FP!ReadFdReturnsZero
  <2>2. ~FP!Sound(i)'
    BY <1>10 DEF FP!ReportError, FP!KilledByClient, FP!ExitChild, FP!ReadFdReturnsZero,
                 FP!Sound, PassInv, RecordTypes
  <2> QED
    BY <1>1, <2>1, <2>2, QuietRecords DEF AllSound
<1> QED
  BY PassNext, <1>2, <1>3, <1>4, <1>5, <1>6, <1>7, <1>8, <1>9, <1>10 DEF PassSteps

-----------------------------------------------------------------------------
(* serv05: the descriptors                                                   *)

\* Connection c is on its way to child i or in its hands.
Has(i, c) == fp_serving[i] = c \/ \E k \in DOMAIN fp_toChild[i] : fp_toChild[i][k] = c

LEMMA PlacesHave == ASSUME NEW c PROVE FP!Places(c) = {i \in FP!Children : Has(i, c)}
BY DEF FP!Places, Has

\* A child reads with nothing in hand and serves with something in hand.
LEMMA IdleStep == ASSUME PassInv, FP!Next PROVE IdleInv'
<1> USE DEF PassInv, RecordTypes, IdleInv, FP!childVars, FP!clients
<1>1. CASE UNCHANGED <<fp_child, fp_serving>>
  BY <1>1
<1>2. CASE FP!Interrupt
  BY <1>2 DEF FP!Interrupt
<1>3. ASSUME NEW i \in FP!Children, FP!ReceiveConnection(i) PROVE IdleInv'
  <2>1. fp_toChild[i] \in Seq(Nat) /\ fp_toChild[i] # << >>
    BY <1>3 DEF FP!ReceiveConnection, FP!ReadFd, PipeTypes
  <2>2. 1 \in DOMAIN fp_toChild[i] /\ Head(fp_toChild[i]) = fp_toChild[i][1]
    BY ONLY <2>1
  <2>3. Head(fp_toChild[i]) # 0
    BY <2>2 DEF PipeInv
  <2> QED
    BY <1>3, <2>3 DEF FP!ReceiveConnection, FP!ReadFd
<1>4. ASSUME NEW i \in FP!Children, FP!ServeAndReport(i) PROVE IdleInv'
  BY <1>4 DEF FP!ServeAndReport
<1>5. ASSUME NEW i \in FP!Children,
             \/ FP!ReportError(i) \/ FP!KilledByClient(i) \/ FP!ExitChild(i)
             \/ FP!ReadFdReturnsZero(i)
      PROVE  IdleInv'
  BY <1>5 DEF FP!ReportError, FP!KilledByClient, FP!ExitChild, FP!ReadFdReturnsZero
<1> QED
  BY PassNext, <1>1, <1>2, <1>3, <1>4, <1>5
  DEF PassSteps, FP!ClientConnects, FP!ClientLeaves, FP!Select, FP!AcceptAndPass, FP!NewlyAvailable,
      FP!ChildTerminated

\* What passing one more descriptor does to the pipes.
LEMMA AcceptPlaces ==
  ASSUME PassInv, FP!AcceptAndPass
  PROVE  PipeInv' /\ FP!EveryConnectionPlaced'
<1>1. /\ fp_parent = "running" /\ fp_accepted' = fp_accepted + 1
      /\ UNCHANGED <<fp_serving, fp_closed>>
  BY DEF FP!AcceptAndPass, FP!childVars, FP!clients
<1>2. fp_accepted \in Nat /\ fp_accepted' \in Nat
  BY <1>1 DEF PassInv, RecordTypes
<1>3. \A c \in 1 .. fp_accepted :
        \/ (\E i \in FP!Children : FP!Places(c) = {i}) /\ c \notin fp_closed
        \/ FP!Places(c) = {} /\ c \in fp_closed
  BY <1>1 DEF PassInv, FP!EveryConnectionPlaced
<1>4. fp_closed \subseteq 1 .. fp_accepted /\ fp_accepted' \notin fp_closed
  BY <1>1, <1>2 DEF PassInv, PipeInv
<1>5. \A i \in FP!Children : ~Has(i, fp_accepted')
  BY <1>1, <1>2 DEF PassInv, RecordTypes, PipeInv, Has
<1>6. \A c \in 1 .. fp_accepted' : c \in 1 .. fp_accepted \/ c = fp_accepted'
  BY <1>1, <1>2
<1>7. CASE UNCHANGED fp_toChild /\ fp_parent' \in {"no_available_children", "write_fd"}
  <2>1. PipeInv'
    BY <1>1, <1>2, <1>7 DEF PassInv, RecordTypes, PipeInv
  <2>2. \A c : FP!Places(c)' = FP!Places(c)
    BY <1>1, <1>7 DEF FP!Places
  <2>3. FP!Places(fp_accepted') = {}
    BY <1>5, PlacesHave
  <2>4. FP!EveryConnectionPlaced'
    BY <1>1, <1>3, <1>6, <1>7, <2>2, <2>3 DEF FP!EveryConnectionPlaced
  <2> QED
    BY <2>1, <2>4
<1>8. ASSUME NEW i \in FP!Children,
             fp_toChild' = [fp_toChild EXCEPT ![i] = Append(@, fp_accepted')]
      PROVE  PipeInv' /\ FP!EveryConnectionPlaced'
  <2> DEFINE s == fp_toChild[i]
             n == Len(s)
  <2>1. s \in Seq(Nat) /\ n \in Nat /\ DOMAIN s = 1 .. n
    BY DEF PassInv, PipeTypes
  <2>2. fp_toChild'[i] = Append(s, fp_accepted')
    BY <1>8 DEF PassInv, PipeTypes
  <2>3. /\ DOMAIN fp_toChild'[i] = 1 .. n + 1
        /\ \A k \in 1 .. n : fp_toChild'[i][k] = s[k]
        /\ fp_toChild'[i][n + 1] = fp_accepted'
    BY <1>2, <2>1, <2>2, AppendProperties
  <2>4. \A j \in FP!Children \ {i} : fp_toChild'[j] = fp_toChild[j]
    BY <1>8 DEF PassInv, PipeTypes
  <2> HIDE DEF s, n
  <2>5. \A k \in 1 .. n : s[k] \in 1 .. fp_accepted /\ s[k] # fp_serving[i]
    BY <2>1 DEF PassInv, PipeInv, s
  <2>6. \A k, l \in 1 .. n : s[l] = s[k] => l = k
    BY <2>1 DEF PassInv, PipeInv, s
  <2>7. ASSUME NEW k \in DOMAIN fp_toChild'[i]
        PROVE  /\ fp_toChild'[i][k] \in 1 .. fp_accepted'
               /\ fp_toChild'[i][k] # fp_serving[i]
               /\ \A l \in DOMAIN fp_toChild'[i] : fp_toChild'[i][l] = fp_toChild'[i][k] => l = k
    <3>1. k \in 1 .. n \/ k = n + 1
      BY <2>1, <2>3
    <3>2. fp_serving[i] \in Nat /\ fp_serving[i] <= fp_accepted
      BY DEF PassInv, RecordTypes, PipeInv
    <3>3. fp_toChild'[i][k] \in 1 .. fp_accepted' /\ fp_toChild'[i][k] # fp_serving[i]
      BY <1>1, <1>2, <2>3, <2>5, <3>1, <3>2
    <3>4. ASSUME NEW l \in DOMAIN fp_toChild'[i], fp_toChild'[i][l] = fp_toChild'[i][k]
          PROVE  l = k
      <4>1. l \in 1 .. n \/ l = n + 1
        BY <2>1, <2>3
      <4> QED
        BY <1>1, <1>2, <2>3, <2>5, <2>6, <3>1, <3>4, <4>1
    <3> QED
      BY <3>3, <3>4
  <2>8. ASSUME NEW j \in FP!Children \ {i}, NEW k \in DOMAIN fp_toChild[j]
        PROVE  /\ fp_toChild[j][k] \in 1 .. fp_accepted'
               /\ fp_toChild[j][k] # fp_serving[j]
               /\ \A l \in DOMAIN fp_toChild[j] : fp_toChild[j][l] = fp_toChild[j][k] => l = k
    BY <1>1, <1>2 DEF PassInv, PipeInv
  <2>9. \A j \in FP!Children : fp_serving'[j] <= fp_accepted'
    BY <1>1, <1>2 DEF PassInv, RecordTypes, PipeInv
  <2>10. fp_closed' \subseteq 1 .. fp_accepted'
    BY <1>1, <1>2, <1>4
  <2>11. PipeInv'
    BY <1>1, <2>4, <2>7, <2>8, <2>9, <2>10 DEF PipeInv
  <2>12. ASSUME NEW c \in 1 .. fp_accepted, NEW j \in FP!Children PROVE Has(j, c)' <=> Has(j, c)
    <3>1. CASE j = i
      <4>1. c # fp_accepted'
        BY <1>1, <1>2
      <4>2. (\E k \in DOMAIN fp_toChild'[i] : fp_toChild'[i][k] = c)
              <=> (\E k \in DOMAIN s : s[k] = c)
        BY <2>1, <2>3, <4>1
      <4> QED
        BY <1>1, <3>1, <4>2 DEF Has, s
    <3>2. CASE j # i
      BY <1>1, <2>4, <3>2 DEF Has
    <3> QED
      BY <3>1, <3>2
  <2>13. ASSUME NEW c \in 1 .. fp_accepted PROVE FP!Places(c)' = FP!Places(c)
    <3>1. FP!Places(c)' = {j \in FP!Children : Has(j, c)'}
      BY DEF FP!Places, Has
    <3> QED
      BY <2>12, <3>1, PlacesHave
  <2>14. PICK c : c = fp_accepted'
    OBVIOUS
  <2>15. FP!Places(c)' = {i}
    <3>1. FP!Places(c)' = {j \in FP!Children : Has(j, c)'}
      BY DEF FP!Places, Has
    <3>2. Has(i, c)'
      BY <2>1, <2>3, <2>14 DEF Has
    <3>3. \A j \in FP!Children \ {i} : ~Has(j, c)'
      BY <1>1, <1>5, <2>4, <2>14 DEF Has
    <3> QED
      BY <3>1, <3>2, <3>3
  <2>16. FP!EveryConnectionPlaced'
    BY <1>1, <1>3, <1>4, <1>6, <2>13, <2>14, <2>15 DEF FP!EveryConnectionPlaced
  <2> QED
    BY <2>11, <2>16
<1> QED
  BY <1>7, <1>8 DEF FP!AcceptAndPass, FP!Available, FP!WriteFd

\* read_fd moves the first descriptor of a pipe into the child's hands.
LEMMA ReceivePlaces ==
  ASSUME PassInv, NEW i \in FP!Children, FP!ReceiveConnection(i)
  PROVE  PipeInv' /\ FP!EveryConnectionPlaced'
<1>1. /\ fp_child[i] = "read_fd" /\ fp_toChild[i] # << >>
      /\ fp_serving' = [fp_serving EXCEPT ![i] = Head(fp_toChild[i])]
      /\ fp_toChild' = [fp_toChild EXCEPT ![i] = Tail(@)]
      /\ UNCHANGED <<fp_parent, fp_accepted, fp_closed>>
  BY DEF FP!ReceiveConnection, FP!ReadFd, FP!parentVars
<1> DEFINE s == fp_toChild[i]
           n == Len(s)
<1>2. s \in Seq(Nat) /\ n \in Nat \ {0} /\ DOMAIN s = 1 .. n
  BY <1>1, EmptySeq DEF PassInv, PipeTypes
<1>3. fp_serving'[i] = s[1]
  BY <1>1, <1>2 DEF PassInv, RecordTypes
<1>4. fp_toChild'[i] = Tail(s) /\ DOMAIN Tail(s) = 1 .. n - 1
  BY <1>1, <1>2, HeadTailProperties DEF PassInv, PipeTypes
<1>5. \A k \in 1 .. n - 1 : fp_toChild'[i][k] = s[k + 1]
  BY <1>1, <1>2, <1>4, HeadTailProperties
<1>6. \A j \in FP!Children \ {i} : fp_toChild'[j] = fp_toChild[j] /\ fp_serving'[j] = fp_serving[j]
  BY <1>1 DEF PassInv, RecordTypes, PipeTypes
<1> HIDE DEF s, n
<1>7. \A k \in 1 .. n : s[k] \in 1 .. fp_accepted
  BY <1>2 DEF PassInv, PipeInv, s
<1>8. \A k, l \in 1 .. n : s[l] = s[k] => l = k
  BY <1>2 DEF PassInv, PipeInv, s
<1>9. 1 \in 1 .. n /\ \A k \in 1 .. n - 1 : k + 1 \in 1 .. n /\ k + 1 # 1
  BY <1>2
<1>10. fp_serving[i] = 0 /\ fp_accepted \in Nat
  BY <1>1 DEF PassInv, RecordTypes, IdleInv
<1>11. ASSUME NEW k \in DOMAIN fp_toChild'[i]
       PROVE  /\ fp_toChild'[i][k] \in 1 .. fp_accepted
              /\ fp_toChild'[i][k] # fp_serving'[i]
              /\ \A l \in DOMAIN fp_toChild'[i] : fp_toChild'[i][l] = fp_toChild'[i][k] => l = k
  <2>1. k \in 1 .. n - 1
    BY <1>4
  <2>2. ASSUME NEW l \in DOMAIN fp_toChild'[i], fp_toChild'[i][l] = fp_toChild'[i][k]
        PROVE  l = k
    <3>1. l \in 1 .. n - 1
      BY <1>4
    <3>2. l + 1 = k + 1
      BY <1>5, <1>8, <1>9, <2>1, <2>2, <3>1
    <3> QED
      BY <2>1, <3>1, <3>2, <1>2
  <2> QED
    BY <1>3, <1>5, <1>7, <1>8, <1>9, <2>1, <2>2
<1>12. fp_serving'[i] <= fp_accepted
  BY <1>3, <1>7, <1>9, <1>10
<1>13. PipeInv'
  BY <1>1, <1>6, <1>11, <1>12 DEF PassInv, PipeInv
<1>14. ASSUME NEW c \in 1 .. fp_accepted, NEW j \in FP!Children PROVE Has(j, c)' <=> Has(j, c)
  <2>1. CASE j # i
    BY <1>6, <2>1 DEF Has
  <2>2. CASE j = i
    <3>1. fp_serving[i] # c
      BY <1>10
    <3>2. ASSUME NEW k \in 1 .. n, s[k] = c
          PROVE  fp_serving'[i] = c \/ \E l \in DOMAIN fp_toChild'[i] : fp_toChild'[i][l] = c
      <4>1. CASE k = 1
        BY <1>3, <3>2, <4>1
      <4>2. CASE k # 1
        <5>1. k - 1 \in 1 .. n - 1 /\ (k - 1) + 1 = k
          BY <1>2, <4>2
        <5> QED
          BY <1>4, <1>5, <3>2, <5>1
      <4> QED
        BY <4>1, <4>2
    <3>3. Has(i, c) => Has(i, c)'
      BY <1>2, <3>1, <3>2 DEF Has, s
    <3>4. Has(i, c)' => \E k \in 1 .. n : s[k] = c
      BY <1>3, <1>4, <1>5, <1>9 DEF Has
    <3> QED
      BY <1>2, <2>2, <3>3, <3>4 DEF Has, s
  <2> QED
    BY <2>1, <2>2
<1>15. ASSUME NEW c \in 1 .. fp_accepted PROVE FP!Places(c)' = FP!Places(c)
  <2>1. FP!Places(c)' = {j \in FP!Children : Has(j, c)'}
    BY DEF FP!Places, Has
  <2> QED
    BY <1>14, <2>1, PlacesHave
<1>16. FP!EveryConnectionPlaced'
  BY <1>1, <1>15 DEF PassInv, FP!EveryConnectionPlaced
<1> QED
  BY <1>13, <1>16

\* A child closes the connection that it alone has.
LEMMA ServePlaces ==
  ASSUME PassInv, NEW i \in FP!Children, FP!ServeAndReport(i)
  PROVE  PipeInv' /\ FP!EveryConnectionPlaced'
<1>0. PICK d : d = fp_serving[i]
  OBVIOUS
<1>1. /\ fp_child[i] = "web_child"
      /\ fp_serving' = [fp_serving EXCEPT ![i] = 0]
      /\ fp_closed' = fp_closed \cup {d}
      /\ UNCHANGED <<fp_parent, fp_accepted, fp_toChild>>
  BY <1>0 DEF FP!ServeAndReport, FP!CloseServed, FP!parentVars
<1>2. fp_accepted \in Nat /\ d \in 1 .. fp_accepted
  BY <1>0, <1>1 DEF PassInv, RecordTypes, IdleInv, PipeInv
<1>3. fp_serving'[i] = 0 /\ \A j \in FP!Children \ {i} : fp_serving'[j] = fp_serving[j]
  BY <1>1 DEF PassInv, RecordTypes
<1>4. PipeInv'
  <2>1. \A k \in DOMAIN fp_toChild[i] : fp_toChild[i][k] # 0
    BY <1>2 DEF PassInv, PipeInv
  <2>2. fp_closed' \subseteq 1 .. fp_accepted
    <3>1. fp_closed \subseteq 1 .. fp_accepted
      BY DEF PassInv, PipeInv
    <3> QED
      BY <1>1, <1>2, <3>1
  <2>3. \A j \in FP!Children : fp_serving'[j] <= fp_accepted
    BY <1>2, <1>3 DEF PassInv, PipeInv
  <2>4. \A j \in FP!Children : \A k \in DOMAIN fp_toChild[j] : fp_toChild[j][k] # fp_serving'[j]
    BY <1>3, <2>1 DEF PassInv, PipeInv
  <2> QED
    BY <1>1, <2>2, <2>3, <2>4 DEF PassInv, PipeInv
<1>5. ASSUME NEW c \in 1 .. fp_accepted, NEW j \in FP!Children
      PROVE  Has(j, c)' <=> Has(j, c) /\ ~(j = i /\ c = d)
  <2>1. CASE j # i
    BY <1>1, <1>3, <2>1 DEF Has
  <2>2. CASE j = i
    <3>1. c # 0 /\ \A k \in DOMAIN fp_toChild[i] : fp_toChild[i][k] # d
      BY <1>0 DEF PassInv, PipeInv
    <3> QED
      BY <1>0, <1>1, <1>3, <2>2, <3>1 DEF Has
  <2> QED
    BY <2>1, <2>2
<1>6. ASSUME NEW c \in 1 .. fp_accepted
      PROVE  FP!Places(c)' = IF c = d THEN FP!Places(c) \ {i} ELSE FP!Places(c)
  <2>1. FP!Places(c)' = {j \in FP!Children : Has(j, c)'}
    BY DEF FP!Places, Has
  <2> QED
    BY <1>5, <2>1, PlacesHave
<1>7. FP!Places(d)' = {} /\ d \in fp_closed'
  <2>1. i \in FP!Places(d)
    BY <1>0 DEF FP!Places
  <2>2. \E j \in FP!Children : FP!Places(d) = {j}
    BY <1>2, <2>1 DEF PassInv, FP!EveryConnectionPlaced
  <2> QED
    BY <1>1, <1>2, <1>6, <2>1, <2>2
<1>8. FP!EveryConnectionPlaced'
  BY <1>1, <1>6, <1>7 DEF PassInv, FP!EveryConnectionPlaced
<1> QED
  BY <1>4, <1>8

\* No step loses or duplicates a descriptor.
LEMMA PlacedStep == ASSUME PassInv, FP!Next PROVE PipeInv' /\ FP!EveryConnectionPlaced'
<1> DEFINE P == PipeInv' /\ FP!EveryConnectionPlaced'
<1> SUFFICES P
  OBVIOUS
<1>1. ASSUME UNCHANGED <<fp_serving, fp_toChild, fp_accepted, fp_closed>>,
             fp_parent' = fp_parent \/ fp_parent = "running"
      PROVE  P
  <2>1. PipeInv'
    BY <1>1 DEF PassInv, PipeInv
  <2>2. \A c : FP!Places(c)' = FP!Places(c)
    BY <1>1 DEF FP!Places
  <2>3. FP!EveryConnectionPlaced'
    BY <1>1, <2>2 DEF PassInv, FP!EveryConnectionPlaced
  <2> QED
    BY <2>1, <2>3
<1>2. CASE FP!AcceptAndPass
  BY <1>2, AcceptPlaces
<1>3. ASSUME NEW i \in FP!Children, FP!ReceiveConnection(i) PROVE P
  BY <1>3, ReceivePlaces
<1>4. ASSUME NEW i \in FP!Children, FP!ServeAndReport(i) PROVE P
  BY <1>4, ServePlaces
<1> QED
  BY PassNext, <1>1, <1>2, <1>3, <1>4
  DEF PassSteps, FP!ClientConnects, FP!ClientLeaves, FP!Select, FP!Interrupt, FP!NewlyAvailable,
      FP!Scanning,
      FP!ChildTerminated, FP!ExitChild, FP!ReadFdReturnsZero, FP!ReportError,
      FP!KilledByClient, FP!parentVars, FP!childVars, FP!clients

-----------------------------------------------------------------------------
(* The theorems                                                              *)

\* The invariant that the next four theorems follow from is inductive.
THEOREM Invariance == Spec => []IInv
<1>1. IInv /\ [Next]_vars => IInv'
  BY TypeStep, LockStep, HandsStep DEF IInv
<1> QED
  BY InitInv, <1>1, PTL DEF Spec

\* The places, the lock, the queues of connections and the meters stay what the
\* programs' types allow.
THEOREM Typing == Spec => []TypeOK
<1>1. IInv => TypeOK
  BY DEF IInv
<1> QED
  BY Invariance, <1>1, PTL

\* serv03, serv04 and serv07: the owner of the lock is the worker in accept.
THEOREM LockAgrees == Spec => []LockMatchesPlace
<1>1. IInv => LockMatchesPlace
  BY DEF IInv
<1> QED
  BY Invariance, <1>1, PTL

\* No two of their workers are in accept together.
THEOREM Exclusion == Spec => []OneInAccept
<1>1. IInv => OneInAccept
  BY DEF IInv, LockMatchesPlace, OneInAccept
<1> QED
  BY Invariance, <1>1, PTL

\* With a lock or without, every accepted connection has one worker.
THEOREM OwnConnections == Spec => []OneWorkerEach
<1>1. IInv => OneWorkerEach
  BY DEF IInv
<1> QED
  BY Invariance, <1>1, PTL

\* Each worker's meter is the number of connections it has accepted, in the versions
\* that count them, as long as nobody kills a worker.
THEOREM Metering == Spec => []MetersCount
<1>1. IInv /\ MeterInv /\ [Next]_vars => IInv' /\ MeterInv'
  BY TypeStep, LockStep, HandsStep, MeterStep DEF IInv
<1>2. MeterInv => MetersCount
  BY DEF MeterInv
<1> QED
  BY InitInv, InitMeters, <1>1, <1>2, PTL DEF Spec

\* Whichever of the programs runs: the meters count what was accepted; in serv05 navail
\* and child_status agree with the children, the parent runs out of children only after
\* one has failed, and no descriptor is lost or duplicated.
THEOREM PreforkConsistent == SumSpec => []Consistent
<1> DEFINE J == IInv /\ MeterInv /\ PassInv
<1>1. SumInit => J
  BY InitInv, InitMeters, InitPass DEF SumInit
<1>2. J /\ [SumNext]_all => J'
  <2> SUFFICES ASSUME J, [SumNext]_all PROVE J'
    OBVIOUS
  <2>1. ASSUME [Next]_vars PROVE IInv' /\ MeterInv'
    BY <2>1, TypeStep, LockStep, HandsStep, MeterStep DEF IInv
  <2>2. ASSUME FP!Next PROVE PassInv'
    BY <2>2, RecordStep, PipeTypeStep, CountStep, IdleStep, PlacedStep DEF PassInv
  <2>3. ASSUME UNCHANGED fp_vars PROVE PassInv'
    <3>1. RecordTypes' /\ PipeTypes' /\ IdleInv' /\ PipeInv'
      BY <2>3 DEF fp_vars, PassInv, RecordTypes, PipeTypes, IdleInv, PipeInv
    <3>2. FP!Available' = FP!Available
      BY <2>3 DEF fp_vars, FP!Available
    <3>3. CountInv'
      BY <2>3, <3>2 DEF fp_vars, PassInv, CountInv
    <3>4. FP!Accounting' /\ FP!RunsOutOnlyAfterFailure'
      BY <2>3, <3>2 DEF fp_vars, PassInv, FP!Accounting, FP!Holds, FP!Sound,
                        FP!RunsOutOnlyAfterFailure
    <3>5. FP!EveryConnectionPlaced'
      BY <2>3 DEF fp_vars, PassInv, FP!Places, FP!EveryConnectionPlaced
    <3> QED
      BY <3>1, <3>3, <3>4, <3>5 DEF PassInv
  <2>4. CASE Accepting /\ Next
    BY <2>1, <2>3, <2>4 DEF Accepting
  <2>5. CASE Passing /\ FP!Next
    BY <2>1, <2>2, <2>5 DEF Passing
  <2>6. CASE UNCHANGED all
    BY <2>1, <2>3, <2>6 DEF all
  <2> QED
    BY <2>4, <2>5, <2>6 DEF SumNext
<1>3. J => Consistent
  BY DEF PassInv, RecordTypes, PipeTypes, MeterInv, Consistent, FP!Consistent, FP!TypeOK
<1> QED
  BY <1>1, <1>2, <1>3, PTL DEF SumSpec
==============================================================================
