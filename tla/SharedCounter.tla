---------------------------- MODULE SharedCounter ----------------------------
(* threads/example01.c and example02.c: two threads increment counter NLOOP    *)
(* times each, without and with counter_mutex.                                 *)
EXTENDS Integers

CONSTANTS NLOOP,
          Nobody   \* no owner of counter_mutex

VARIABLES
  version,  \* the program
  counter,
  mutex,    \* the owner of counter_mutex, or Nobody
  pc,       \* each thread's place in doit: "loop", "load", "store", "unlock", "done"
  i, val,   \* locals of doit
  steps     \* stores that did not follow on the value before them

vars == <<version, counter, mutex, pc, i, val, steps>>

Tids == {"A", "B"}
Locking == version = "example02"

Init ==
  /\ version \in {"example01", "example02"}
  /\ counter = 0 /\ mutex = Nobody
  /\ pc = [t \in Tids |-> "loop"]
  /\ i = [t \in Tids |-> 0] /\ val = [t \in Tids |-> 0] /\ steps = 0

Move(t, from, to) == pc[t] = from /\ pc' = [pc EXCEPT ![t] = to]

\* The test of the loop, and Pthread_mutex_lock.
LoopMutant(t) ==
  /\ Move(t, "loop", IF i[t] < NLOOP THEN "load" ELSE "done")
  /\ UNCHANGED <<version, counter, mutex, i, val, steps>>
Loop(t) ==
  /\ Move(t, "loop", IF i[t] < NLOOP THEN "load" ELSE "done")
  /\ IF Locking /\ i[t] < NLOOP
     THEN mutex = Nobody /\ mutex' = t
     ELSE UNCHANGED mutex
  /\ UNCHANGED <<version, counter, i, val, steps>>

\* val = counter; between this and the store is the printf.
Load(t) ==
  /\ Move(t, "load", "store") /\ val' = [val EXCEPT ![t] = counter]
  /\ UNCHANGED <<version, counter, mutex, i, steps>>

Store(t) ==
  /\ Move(t, "store", IF Locking THEN "unlock" ELSE "loop")
  /\ counter' = val[t] + 1
  /\ steps' = IF counter' = counter + 1 THEN steps ELSE steps + 1
  /\ i' = [i EXCEPT ![t] = IF Locking THEN @ ELSE @ + 1]
  /\ UNCHANGED <<version, mutex, val>>

Unlock(t) ==
  /\ Move(t, "unlock", "loop") /\ mutex' = Nobody
  /\ i' = [i EXCEPT ![t] = @ + 1]
  /\ UNCHANGED <<version, counter, val, steps>>

Next == \E t \in Tids : Loop(t) \/ Load(t) \/ Store(t) \/ Unlock(t)

-----------------------------------------------------------------------------
(* Properties                                                                *)

\* "The value of the counter should increase monotonically" (example01.c:31,
\* example02.c:31): true of example02, which also ends at 2 * NLOOP.  example01
\* steps back and loses updates; all that is left of the count is that it ends
\* at 2 or more, not even at NLOOP.
Total ==
  \A t \in Tids : pc[t] = "done"
CounterCounts ==
  /\ Locking => steps = 0
  /\ Total => IF Locking THEN counter = 2 * NLOOP
              ELSE /\ counter \in 2 .. 2 * NLOOP
                   /\ counter < 2 * NLOOP => steps > 0
==============================================================================
