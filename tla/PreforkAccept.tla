---------------------------- MODULE PreforkAccept ----------------------------
(* The servers whose workers call accept themselves on one listening socket: *)
(* server/serv02.c, child02l.c and Paradigm-2 of my-src (select before        *)
(* accept), serv03.c (a file lock around accept), serv04.c (a mutex in shared *)
(* memory), serv07.c and serv09.c (threads, with and without a mutex); serv02m.c *)
(* and serv03m.c with counters in shared memory.                              *)
EXTENDS Integers, FiniteSets

CONSTANTS Workers,   \* the children or the threads
          Conns,     \* connections that clients ever make
          Free,      \* no owner of the lock, no connection in a worker's hands
          MaxKills   \* bound: workers killed by somebody else than sig_int

ASSUME WorkersAssumption == IsFiniteSet(Workers) /\ Free \notin Workers \cup Conns
ASSUME MaxKillsAssumption == MaxKills \in Nat

VARIABLES
  version,  \* the program
  parent,   \* "pause", "wait" in sig_int, "exited"
  pc,       \* each worker's place, "dead" when it has ended
  lock,     \* the owner of the file lock or the mutex, or Free
  at,       \* where each connection is: "client", "queued" in the kernel,
            \* "accepted", "closed", or "aborted" by its client
  connfd,   \* the connection each worker serves
  reaped,   \* children that wait has returned
  kills,    \* kills so far
  cptr,     \* connections counted for each worker, in the versions with a meter
  by        \* the worker that accepted each connection, or Free (history)

meter == <<cptr, by>>
vars == <<version, parent, pc, lock, at, connfd, reaped, kills, meter>>

Versions == {"serv02", "serv02m", "Paradigm-2", "serv03", "serv03m", "serv04", "serv07", "serv09"}
Locking  == version \in {"serv03", "serv03m", "serv04", "serv07"}
Threaded == version \in {"serv07", "serv09"}
FileLock == version \in {"serv03", "serv03m"}
Metered  == Threaded \/ version \in {"serv02m", "serv03m", "Paradigm-2"}

\* The first statement of each worker's loop.
Top == IF Locking THEN "lock"
       ELSE IF version = "Paradigm-2" THEN "select" ELSE "accept"

Init ==
  /\ version \in Versions
  /\ parent = "pause" /\ reaped = {} /\ kills = 0 /\ cptr = [w \in Workers |-> 0]
  /\ by = [c \in Conns |-> Free]
  /\ pc = [w \in Workers |-> Top] /\ lock = Free
  /\ at = [c \in Conns |-> "client"]
  /\ connfd = [w \in Workers |-> Free]

At(w, place)   == pc[w] = place
Goto(w, place) == pc' = [pc EXCEPT ![w] = place]

-----------------------------------------------------------------------------
(* Clients                                                                   *)

Connect(c) ==
  /\ at[c] = "client" /\ at' = [at EXCEPT ![c] = "queued"]
  /\ UNCHANGED <<version, parent, pc, lock, connfd, reaped, kills, meter>>

\* A reset takes a connection off the queue; Accept goes on waiting.
Abort(c) ==
  /\ at[c] = "queued" /\ at' = [at EXCEPT ![c] = "aborted"]
  /\ UNCHANGED <<version, parent, pc, lock, connfd, reaped, kills, meter>>

-----------------------------------------------------------------------------
(* child_main and thread_main                                                *)

\* fcntl with F_SETLKW, pthread_mutex_lock: both wait while there is an owner.
LockWait(w) ==
  /\ At(w, "lock") /\ Goto(w, "accept")
  /\ lock = Free /\ lock' = w
  /\ UNCHANGED <<version, parent, at, connfd, reaped, kills, meter>>

\* select wakes every child for one connection.
SelectWakes(w) ==
  /\ At(w, "select") /\ Goto(w, "accept")
  /\ \E c \in Conns : at[c] = "queued"
  /\ UNCHANGED <<version, parent, lock, at, connfd, reaped, kills, meter>>

AfterAccept == IF Metered THEN "count" ELSE "web_child"
Accept(w) ==
  /\ At(w, "accept") /\ Goto(w, IF Locking THEN "unlock" ELSE AfterAccept)
  /\ \E c \in Conns : /\ at[c] = "queued" /\ at' = [at EXCEPT ![c] = "accepted"]
                      /\ connfd' = [connfd EXCEPT ![w] = c] /\ by' = [by EXCEPT ![c] = w]
  /\ UNCHANGED <<version, parent, lock, reaped, kills, cptr>>

UnlockMutant(w) ==
  /\ At(w, "unlock") /\ Goto(w, AfterAccept)
  /\ UNCHANGED <<version, parent, lock, at, connfd, reaped, kills, meter>>
Unlock(w) ==
  /\ At(w, "unlock") /\ Goto(w, AfterAccept)
  /\ lock' = Free
  /\ UNCHANGED <<version, parent, at, connfd, reaped, kills, meter>>

CountMutant(w) == At(w, "count") /\ Goto(w, "web_child") /\ UNCHANGED <<version, parent, lock, at, connfd, reaped, kills, meter>>
\* cptr[i]++, thread_count++.
Count(w) ==
  /\ At(w, "count") /\ Goto(w, "web_child") /\ cptr' = [cptr EXCEPT ![w] = @ + 1]
  /\ UNCHANGED <<version, parent, lock, at, connfd, reaped, kills, by>>

CloseMutant(w) == UNCHANGED at
Close(w) == at' = [at EXCEPT ![connfd[w]] = "closed"]

\* web_child returns when its client has closed.
ServeAndClose(w) ==
  /\ At(w, "web_child") /\ Goto(w, Top)
  /\ Close(w)
  /\ connfd' = [connfd EXCEPT ![w] = Free]
  /\ UNCHANGED <<version, parent, lock, reaped, kills, meter>>

-----------------------------------------------------------------------------
(* Ends                                                                      *)

\* The end of a process: the kernel closes its descriptors and drops its file
\* lock.  Nobody releases a mutex in shared memory for it.
DieMutant(w) ==
  /\ Goto(w, "dead")
  /\ UNCHANGED <<lock, at, connfd>>
Die(w) ==
  /\ Goto(w, "dead")
  /\ lock' = IF lock = w /\ FileLock THEN Free ELSE lock
  /\ at' = [c \in Conns |-> IF connfd[w] = c THEN "closed" ELSE at[c]]
  /\ connfd' = [connfd EXCEPT ![w] = Free]

\* The end of a process with threads is the end of all of them.
EndAll ==
  /\ parent' = "exited" /\ pc' = [w \in Workers |-> "dead"]
  /\ at' = [c \in Conns |-> IF at[c] = "accepted" THEN "closed" ELSE at[c]]
  /\ connfd' = [w \in Workers |-> Free]
  /\ UNCHANGED lock

\* err_quit for a bad request, an error or SIGPIPE on a connection that the
\* client has reset: the parent notices nothing and makes no new child.
WebChildFails(w) ==
  /\ At(w, "web_child")
  /\ \/ Threaded /\ EndAll
     \/ ~Threaded /\ Die(w) /\ UNCHANGED parent
  /\ UNCHANGED <<version, reaped, kills, meter>>

\* Somebody kills a child, wherever it is.
Kill(w) ==
  /\ ~Threaded /\ ~At(w, "dead") /\ kills < MaxKills /\ kills' = kills + 1
  /\ Die(w)
  /\ UNCHANGED <<version, parent, reaped, meter>>

\* sig_int: SIGTERM to every child, or exit of the process with the threads.
SigInt ==
  /\ parent = "pause"
  /\ \/ Threaded /\ EndAll
     \/ ~Threaded /\ parent' = "wait" /\ UNCHANGED <<pc, lock, at, connfd>>
  /\ UNCHANGED <<version, reaped, kills, meter>>

\* The children handle no SIGTERM: it ends them in accept and in fcntl, in the
\* mutex's wait and in web_child.
SigTermMutant(w) ==
  /\ parent = "wait" /\ pc[w] \notin {"dead", "lock"} /\ Die(w)
  /\ UNCHANGED <<version, parent, reaped, kills, meter>>
SigTerm(w) ==
  /\ parent = "wait" /\ ~At(w, "dead") /\ Die(w)
  /\ UNCHANGED <<version, parent, reaped, kills, meter>>

Wait(w) ==
  /\ parent = "wait" /\ At(w, "dead") /\ w \notin reaped
  /\ reaped' = reaped \cup {w}
  /\ UNCHANGED <<version, parent, pc, lock, at, connfd, kills, meter>>

\* wait fails with ECHILD.
ExitParent ==
  /\ parent = "wait" /\ reaped = Workers /\ parent' = "exited"
  /\ UNCHANGED <<version, pc, lock, at, connfd, reaped, kills, meter>>

-----------------------------------------------------------------------------
WorkerStep(w) ==
  LockWait(w) \/ SelectWakes(w) \/ Accept(w) \/ Unlock(w) \/ Count(w)
Stopping == ExitParent \/ \E w \in Workers : SigTerm(w) \/ Wait(w)

\* The programs: what a worker does in each, and the parent.
Serve(w)     == ServeAndClose(w) \/ WebChildFails(w)
Child02(w)   == version = "serv02" /\ (Accept(w) \/ Serve(w))
Child02m(w)  == version = "serv02m" /\ (Accept(w) \/ Count(w) \/ Serve(w))
Paradigm2(w) == version = "Paradigm-2" /\ (SelectWakes(w) \/ Accept(w) \/ Count(w) \/ Serve(w))
Child03(w)   == version = "serv03" /\ (LockWait(w) \/ Accept(w) \/ Unlock(w) \/ Serve(w))
Child03m(w)  ==
  version = "serv03m" /\ (LockWait(w) \/ Accept(w) \/ Unlock(w) \/ Count(w) \/ Serve(w))
Child04(w)   == version = "serv04" /\ (LockWait(w) \/ Accept(w) \/ Unlock(w) \/ Serve(w))
Thread07(w)  ==
  version = "serv07" /\ (LockWait(w) \/ Accept(w) \/ Unlock(w) \/ Count(w) \/ Serve(w))
Thread09(w)  == version = "serv09" /\ (Accept(w) \/ Count(w) \/ Serve(w))

Parent  == SigInt \/ Stopping
Serv02  == version = "serv02" /\ Parent
Serv02m == version = "serv02m" /\ Parent
MyServ  == version = "Paradigm-2" /\ Parent
Serv03  == version = "serv03" /\ Parent
Serv03m == version = "serv03m" /\ Parent
Serv04  == version = "serv04" /\ Parent
Serv07  == version = "serv07" /\ SigInt
Serv09  == version = "serv09" /\ SigInt

Next ==
  \/ \E c \in Conns : Connect(c) \/ Abort(c)
  \/ \E w \in Workers :
       \/ Child02(w) \/ Child02m(w) \/ Paradigm2(w) \/ Child03(w) \/ Child03m(w)
       \/ Child04(w) \/ Thread07(w) \/ Thread09(w) \/ Kill(w)
  \/ Serv02 \/ Serv02m \/ MyServ \/ Serv03 \/ Serv03m \/ Serv04 \/ Serv07 \/ Serv09

Spec == Init /\ [][Next]_vars

\* Every worker is scheduled and the lock is granted to one that keeps asking;
\* signals are delivered and children reaped.  Clients owe nothing.
FairSpec ==
  /\ Spec /\ WF_vars(Stopping)
  /\ \A w \in Workers : WF_vars(WorkerStep(w)) /\ SF_vars(LockWait(w))

-----------------------------------------------------------------------------
(* Properties                                                                *)

TypeOK ==
  /\ version \in Versions
  /\ parent \in {"pause", "wait", "exited"}
  /\ pc \in [Workers -> {"lock", "select", "accept", "unlock", "count",
                         "web_child", "dead"}]
  /\ lock \in Workers \cup {Free}
  /\ at \in [Conns -> {"client", "queued", "accepted", "closed", "aborted"}]
  /\ connfd \in [Workers -> Conns \cup {Free}]
  /\ reaped \subseteq Workers /\ kills \in Nat /\ cptr \in [Workers -> Nat]
  /\ by \in [Conns -> Workers \cup {Free}]

\* A dead owner still has the mutex in shared memory.
Orphaned == version = "serv04" /\ \E w \in Workers : lock = w /\ pc[w] = "dead"

\* The lock and the workers' places agree (child03.c:28-30, pthread07.c:26-28):
\* whoever is between lock and unlock is the owner, and the owner is there,
\* unless it died with the mutex of serv04 or the whole process has ended.
LockMatchesPlace ==
  \A w \in Workers :
    /\ Locking /\ pc[w] \in {"accept", "unlock"} => lock = w
    /\ lock = w => \/ pc[w] \in {"accept", "unlock"}
                   \/ pc[w] = "dead" /\ (version = "serv04" \/ parent = "exited")

\* In the versions with a lock one worker at a time is in accept (child03.c:28-30).
OneInAccept ==
  Locking => \A v, w \in Workers :
    pc[v] \in {"accept", "unlock"} /\ pc[w] \in {"accept", "unlock"} => v = w

\* What accept has returned is in the hands of one worker (child02.c:31-34): of no
\* other, and not of none.
OneWorkerEach ==
  /\ \A w \in Workers : connfd[w] # Free =>
       /\ at[connfd[w]] = "accepted"
       /\ \A v \in Workers : connfd[v] = connfd[w] => v = w
  /\ \A c \in Conns : at[c] = "accepted" => \E w \in Workers : connfd[w] = c

\* While nobody is killed each worker's meter counts every connection that it has
\* accepted, each once (child02m.c:29-30): but for the one just accepted.
AcceptedBy(w) == {c \in Conns : by[c] = w}
MetersCount ==
  Metered /\ kills = 0 /\ parent = "pause" =>
    \A w \in Workers :
      cptr[w] + (IF pc[w] \in {"unlock", "count"} THEN 1 ELSE 0) = Cardinality(AcceptedBy(w))

\* A connection does not wait while a worker could take it: it is accepted or
\* aborted, or every worker is busy or dead, or the server stops, or the mutex
\* of serv04 has died with its owner (lock_pthread.c:29).
Accepted ==
  \A c \in Conns :
    at[c] = "queued" ~>
      \/ at[c] # "queued" \/ parent # "pause" \/ Orphaned
      \/ \A w \in Workers : pc[w] \in {"web_child", "dead"}

\* sig_int ends all workers in every version, the ones that wait for a lock
\* whose owner is dead included, and then the parent (serv02.c:42-50).
StopsAll ==
  parent = "wait" ~> parent = "exited" /\ \A w \in Workers : pc[w] = "dead"
==============================================================================
