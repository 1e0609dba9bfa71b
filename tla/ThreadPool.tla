------------------------------ MODULE ThreadPool ------------------------------
(* server/serv08.c with pthread08.c: the main thread accepts connections into *)
(* the ring clifd[MAXNCLI]; a fixed pool of threads takes them out and serves *)
(* them.  One mutex and one condition variable guard the ring.  Connections   *)
(* are numbered in the order accept returns them.                             *)
EXTENDS Integers, FiniteSets

CONSTANTS Threads,    \* the pool
          Main,       \* the thread that accepts
          None,       \* no thread
          MAXNCLI,    \* #define MAXNCLI, the slots of the ring
          MaxConns    \* bound: connections clients ever make

ASSUME PoolAssumption == /\ IsFiniteSet(Threads)
                         /\ Main \notin Threads /\ None \notin Threads
                         /\ Main # None
ASSUME RingAssumption == MAXNCLI \in Nat \ {0}
ASSUME MaxConnsAssumption == MaxConns \in Nat

VARIABLES
  status,      \* "running", or "ended" by err_quit, err_sys or SIGINT
  mutex,       \* the owner of clifd_mutex, or None
  mpc,         \* the main thread's place in serv08.c
  pc,          \* each thread's place in thread_main; "cond_wait" is waiting on
               \* clifd_cond, "relock" woken and not yet owner of the mutex
  clifd, iget, iput,
  connfd,      \* each thread's connfd
  accepted,    \* connections accepted
  taken,       \* the connection taken out of the ring last
  closed       \* connections closed

ring == <<clifd, iget, iput>>
vars == <<status, mutex, mpc, pc, ring, connfd, accepted, taken, closed>>

Slots == 0 .. MAXNCLI - 1

\* ++i, back to 0 at MAXNCLI
SuccMutant(i) == IF i = MAXNCLI THEN 0 ELSE i + 1
Succ(i) == IF i + 1 = MAXNCLI THEN 0 ELSE i + 1

Init ==
  /\ status = "running" /\ mutex = None
  /\ mpc = "accept" /\ pc = [t \in Threads |-> "lock"]
  /\ clifd = [i \in Slots |-> 0] /\ iget = 0 /\ iput = 0
  /\ connfd = [t \in Threads |-> 0]
  /\ accepted = 0 /\ taken = 0 /\ closed = {}

-----------------------------------------------------------------------------
MainAt(place)   == status = "running" /\ mpc = place
At(t, place)    == status = "running" /\ pc[t] = place
Goto(t, place)  == pc' = [pc EXCEPT ![t] = place]

\* pthread_mutex_lock by thread t: it waits while another thread is the owner.
Lock(t) == mutex = None /\ mutex' = t

-----------------------------------------------------------------------------
(* The main thread                                                           *)

Accept ==
  /\ MainAt("accept") /\ mpc' = "lock"
  /\ accepted < MaxConns
  /\ accepted' = accepted + 1
  /\ UNCHANGED <<status, mutex, pc, ring, connfd, taken, closed>>

MainLock ==
  /\ MainAt("lock") /\ mpc' = "store"
  /\ Lock(Main)
  /\ UNCHANGED <<status, pc, ring, connfd, accepted, taken, closed>>

Store ==
  /\ MainAt("store") /\ mpc' = "advance"
  /\ clifd' = [clifd EXCEPT ![iput] = accepted]
  /\ UNCHANGED <<status, mutex, pc, iget, iput, connfd, accepted, taken, closed>>

\* An index that catches up with iget ends the process with err_quit.
AdvancePutMutant ==
  /\ MainAt("advance") /\ mpc' = "signal"
  /\ iput' = Succ(iput)
  /\ UNCHANGED <<status, mutex, pc, clifd, iget, connfd, accepted, taken, closed>>
AdvancePut ==
  /\ MainAt("advance") /\ mpc' = "signal"
  /\ iput' = Succ(iput)
  /\ status' = IF iput' = iget THEN "ended" ELSE status
  /\ UNCHANGED <<mutex, pc, clifd, iget, connfd, accepted, taken, closed>>

\* pthread_cond_signal wakes one waiter, if there is any.
SignalMutant ==
  /\ MainAt("signal") /\ mpc' = "unlock"
  /\ UNCHANGED <<status, mutex, pc, ring, connfd, accepted, taken, closed>>
Signal ==
  /\ MainAt("signal") /\ mpc' = "unlock"
  /\ \/ \E t \in Threads : pc[t] = "cond_wait" /\ Goto(t, "relock")
     \/ (\A t \in Threads : pc[t] # "cond_wait") /\ UNCHANGED pc
  /\ UNCHANGED <<status, mutex, ring, connfd, accepted, taken, closed>>

MainUnlock ==
  /\ MainAt("unlock") /\ mpc' = "accept"
  /\ mutex' = None
  /\ UNCHANGED <<status, pc, ring, connfd, accepted, taken, closed>>

-----------------------------------------------------------------------------
(* A thread of the pool                                                      *)

ThreadLock(t) ==
  /\ At(t, "lock") /\ Goto(t, "test")
  /\ Lock(t)
  /\ UNCHANGED <<status, mpc, ring, connfd, accepted, taken, closed>>

\* The end of pthread_cond_wait: the waiter owns the mutex again, and tests again.
RelockMutant(t) ==
  /\ At(t, "relock") /\ Goto(t, "take")
  /\ Lock(t)
  /\ UNCHANGED <<status, mpc, ring, connfd, accepted, taken, closed>>
Relock(t) ==
  /\ At(t, "relock") /\ Goto(t, "test")
  /\ Lock(t)
  /\ UNCHANGED <<status, mpc, ring, connfd, accepted, taken, closed>>

\* A condition variable may wake a waiter nobody signalled.
SpuriousWakeup(t) ==
  /\ At(t, "cond_wait") /\ Goto(t, "relock")
  /\ UNCHANGED <<status, mutex, mpc, ring, connfd, accepted, taken, closed>>

\* while (iget == iput) pthread_cond_wait: the wait releases the mutex.
Wait(t) ==
  /\ At(t, "test") /\ Goto(t, "cond_wait")
  /\ iget = iput
  /\ mutex' = None
  /\ UNCHANGED <<status, mpc, ring, connfd, accepted, taken, closed>>

TestSucceeds(t) ==
  /\ At(t, "test") /\ Goto(t, "take")
  /\ iget # iput
  /\ UNCHANGED <<status, mutex, mpc, ring, connfd, accepted, taken, closed>>

Take(t) ==
  /\ At(t, "take") /\ Goto(t, "advance")
  /\ connfd' = [connfd EXCEPT ![t] = clifd[iget]]
  /\ taken' = clifd[iget]
  /\ UNCHANGED <<status, mutex, mpc, ring, accepted, closed>>

AdvanceGet(t) ==
  /\ At(t, "advance") /\ Goto(t, "unlock")
  /\ iget' = Succ(iget)
  /\ UNCHANGED <<status, mutex, mpc, clifd, iput, connfd, accepted, taken, closed>>

ThreadUnlock(t) ==
  /\ At(t, "unlock") /\ Goto(t, "web_child")
  /\ mutex' = None
  /\ UNCHANGED <<status, mpc, ring, connfd, accepted, taken, closed>>

\* web_child returns when the client closes its end, and not before.
ServeAndCloseMutant(t) ==
  /\ At(t, "web_child") /\ Goto(t, "lock")
  /\ connfd' = [connfd EXCEPT ![t] = 0]
  /\ UNCHANGED <<status, mutex, mpc, ring, accepted, taken, closed>>
ServeAndClose(t) ==
  /\ At(t, "web_child") /\ Goto(t, "lock")
  /\ closed' = closed \cup {connfd[t]}
  /\ connfd' = [connfd EXCEPT ![t] = 0]
  /\ UNCHANGED <<status, mutex, mpc, ring, accepted, taken>>

\* err_quit for a bad request, err_sys of Readline, Writen or Accept, SIGINT:
\* each ends the process, with every thread.
EndProcess ==
  /\ status = "running" /\ status' = "ended"
  /\ mpc = "accept" \/ \E t \in Threads : pc[t] = "web_child"
  /\ UNCHANGED <<mutex, mpc, pc, ring, connfd, accepted, taken, closed>>

-----------------------------------------------------------------------------
MainStep == MainLock \/ Store \/ AdvancePut \/ Signal \/ MainUnlock
ThreadStep(t) ==
  \/ ThreadLock(t) \/ Relock(t) \/ Wait(t) \/ TestSucceeds(t)
  \/ Take(t) \/ AdvanceGet(t) \/ ThreadUnlock(t)

Next == \/ Accept \/ MainStep \/ EndProcess
        \/ \E t \in Threads : ThreadStep(t) \/ SpuriousWakeup(t) \/ ServeAndClose(t)

\* Each thread is scheduled and every thread that keeps asking for the mutex
\* gets it.  No fairness for clients: they need not connect, nor ever close.
FairSpec ==
  /\ Init /\ [][Next]_vars
  /\ WF_vars(MainStep) /\ SF_vars(MainLock)
  /\ \A t \in Threads : WF_vars(ThreadStep(t))
                          /\ SF_vars(ThreadLock(t) \/ Relock(t))
Spec == Init /\ [][Next]_vars

-----------------------------------------------------------------------------
(* Properties                                                                *)

InMutex == {"test", "take", "advance", "unlock"}

TypeOK ==
  /\ status \in {"running", "ended"}
  /\ mutex \in Threads \cup {Main, None}
  /\ mpc \in {"accept", "lock", "store", "advance", "signal", "unlock"}
  /\ pc \in [Threads -> InMutex \cup {"lock", "cond_wait", "relock", "web_child"}]
  /\ clifd \in [Slots -> Nat] /\ iget \in Slots /\ iput \in Slots
  /\ connfd \in [Threads -> Nat]
  /\ accepted \in Nat /\ taken \in Nat /\ closed \subseteq Nat

\* A thread that has read clifd[iget] has not yet moved iget past it.
Pending == IF \E t \in Threads : pc[t] = "advance" THEN 1 ELSE 0

\* The connections on the ring: iget up to iput, and the one the main thread
\* has stored without moving iput.
Queued == {clifd[i] : i \in {j \in Slots :
             IF iget <= iput THEN iget <= j /\ j < iput ELSE j >= iget \/ j < iput}}

\* No accepted descriptor is lost, taken twice or left open: each is on its way
\* into the ring, in the ring, in the hands of one thread, or closed.
Owners(c) == {t \in Threads : connfd[t] = c}
OneOwner ==
  status = "running" =>
    \A c \in 1 .. accepted :
      LET inMain == c = accepted /\ mpc \in {"lock", "store", "advance"}
          inRing == c \in Queued /\ ~(c = taken /\ Pending = 1)
      IN  /\ Cardinality(Owners(c)) <= 1
          /\ inMain \/ inRing \/ Owners(c) # {} \/ c \in closed
          /\ ~(inRing /\ (Owners(c) # {} \/ c \in closed))
          /\ ~(Owners(c) # {} /\ c \in closed)

\* The wakeups are enough: while some thread waits on clifd_cond, each
\* connection on the ring has a thread on its way to it (one is still owed
\* until the main thread has signalled).
Awake == {t \in Threads : pc[t] \in {"lock", "relock", "test", "take", "advance"}}
EnoughAwake ==
  status = "running" /\ (\E t \in Threads : pc[t] = "cond_wait")
    => Cardinality(Queued) <=
         Cardinality(Awake) + (IF mpc = "signal" THEN 1 ELSE 0)

\* Connections are served once each, in the order accept returned them.
Fifo == INSTANCE FifoService WITH served <- taken, server <- status
ServesInOrder == Fifo!ServiceSpec

\* An accepted connection does not stay on the ring while a thread is free: it
\* is taken, or every thread is in web_child, or the process ends.
Dispatched ==
  \A c \in 1 .. MaxConns :
    accepted >= c ~> \/ taken >= c
                     \/ status = "ended"
                     \/ \A t \in Threads : pc[t] = "web_child"

\* Types, and nobody sleeps while there is work (pthread08.c:21-28).
Consistent == TypeOK /\ EnoughAwake
==============================================================================
