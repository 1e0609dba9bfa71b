---------------------------- MODULE BoundedBuffer ----------------------------
(* threads/example03.c: a producer and a consumer over a circular buffer, one  *)
(* mutex, two condition variables.  A wait may also end without a signal.      *)
EXTENDS Integers

CONSTANTS NLOOP, BUFFSIZE,
          Nobody   \* no owner of b_mutex

VARIABLES
  b_buf, b_nitems, b_nextget, b_nextput,
  b_mutex,   \* its owner, or Nobody
  waiting,   \* the threads in Pthread_cond_wait, each on its own variable
  pc,        \* each thread's place: "lock", "test", "signal", "unlock", "done"
  i,         \* each thread's loop counter
  val        \* what consume returned last, -1 before the first

vars == <<b_buf, b_nitems, b_nextget, b_nextput, b_mutex, waiting, pc, i, val>>
buffer == <<b_buf, b_nitems, b_nextget, b_nextput>>

Tids == {"producer", "consumer"}
Other(t) == CHOOSE u \in Tids : u # t

Init ==
  /\ b_buf = [n \in 0 .. BUFFSIZE - 1 |-> 0]
  /\ b_nitems = 0 /\ b_nextget = 0 /\ b_nextput = 0
  /\ b_mutex = Nobody /\ waiting = {}
  /\ pc = [t \in Tids |-> "lock"] /\ i = [t \in Tids |-> 0] /\ val = -1

Move(t, from, to) == pc[t] = from /\ pc' = [pc EXCEPT ![t] = to]

\* Pthread_mutex_lock at the top, and the one at the end of Pthread_cond_wait.
Lock(t) ==
  /\ Move(t, "lock", "test") /\ t \notin waiting
  /\ b_mutex = Nobody /\ b_mutex' = t
  /\ UNCHANGED <<buffer, waiting, i, val>>

\* b_nitems >= BUFFSIZE in produce, b_nitems <= 0 in consume.
MustWaitMutant(t) == IF t = "producer" THEN b_nitems > BUFFSIZE ELSE b_nitems <= 0
MustWait(t) == IF t = "producer" THEN b_nitems >= BUFFSIZE ELSE b_nitems <= 0

CondWait(t) ==
  /\ Move(t, "test", "lock") /\ MustWait(t)
  /\ b_mutex' = Nobody /\ waiting' = waiting \cup {t}
  /\ UNCHANGED <<buffer, i, val>>

Spurious(t) ==
  /\ t \in waiting /\ waiting' = waiting \ {t}
  /\ UNCHANGED <<buffer, b_mutex, pc, i, val>>

After(n) == IF n + 1 >= BUFFSIZE THEN 0 ELSE n + 1

Produce(t) ==
  /\ t = "producer" /\ Move(t, "test", "signal") /\ ~MustWait(t)
  /\ b_buf' = [b_buf EXCEPT ![b_nextput] = i[t]]
  /\ b_nextput' = After(b_nextput) /\ b_nitems' = b_nitems + 1
  /\ UNCHANGED <<b_nextget, b_mutex, waiting, i, val>>

Consume(t) ==
  /\ t = "consumer" /\ Move(t, "test", "signal") /\ ~MustWait(t)
  /\ val' = b_buf[b_nextget]
  /\ b_nextget' = After(b_nextget) /\ b_nitems' = b_nitems - 1
  /\ UNCHANGED <<b_buf, b_nextput, b_mutex, waiting, i>>

\* Pthread_cond_signal of the other's variable.
CondSignalMutant(t) ==
  /\ Move(t, "signal", "unlock")
  /\ waiting' = waiting \ {t}
  /\ UNCHANGED <<buffer, b_mutex, i, val>>
CondSignal(t) ==
  /\ Move(t, "signal", "unlock") /\ waiting' = waiting \ {Other(t)}
  /\ UNCHANGED <<buffer, b_mutex, i, val>>

Unlock(t) ==
  /\ i' = [i EXCEPT ![t] = @ + 1] /\ Move(t, "unlock", IF i[t] + 1 < NLOOP THEN "lock" ELSE "done")
  /\ b_mutex' = Nobody
  /\ UNCHANGED <<buffer, waiting, val>>

Thread(t) == \/ Lock(t) \/ CondWait(t) \/ Produce(t) \/ Consume(t)
             \/ CondSignal(t) \/ Unlock(t)

Next == \E t \in Tids : Thread(t) \/ Spurious(t)

-----------------------------------------------------------------------------
(* Properties                                                                *)

Produced == i["producer"] + (IF pc["producer"] \in {"signal", "unlock"} THEN 1 ELSE 0)

\* Values come out of the buffer once each, in the order in which they went in,
\* across its wrap-around (lines 75-76 and 98-99): the abstract service of a
\* queue.
Queue == INSTANCE FifoService
           WITH accepted <- Produced, served <- val + 1, server <- "running"
ServedInOrder == Queue!ServiceSpec

\* Both threads finish, also when no wait ever ends without a signal: none is
\* missed (lines 81 and 103).
Finished == \A t \in Tids : pc[t] = "done"
==============================================================================
