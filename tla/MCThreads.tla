----------------------------- MODULE MCThreads ------------------------------
(* Programs with threads in one run: serv08 (ThreadPool), the examples        *)
(* (SharedCounter, BoundedBuffer), and the functions that read lines, with    *)
(* one buffer or a buffer per thread (Readline); program says which of them   *)
(* runs.                                                                      *)
EXTENDS ThreadPool

CONSTANTS CountLoop, BufferLoop, BUFFSIZE, Readers, MAXLINE, BufSize, Rounds,
          MaxSignals, TextLength, Newlines

ASSUME ReadersAssumption ==
  /\ IsFiniteSet(Readers) /\ Readers # {} /\ {MAXLINE, BufSize, Rounds} \subseteq Nat \ {0}
  /\ MaxSignals \in Nat /\ TextLength \in Nat /\ Newlines # {} /\ MAXLINE > 1

\* Each thread counts more than once.
ASSUME CountAssumption == CountLoop \in Nat /\ CountLoop > 1 /\ None \notin {"A", "B"}

\* What the descriptors have: a text is told by the places of its newlines.
Text(S) == [k \in 1 .. TextLength |-> IF k \in S THEN "nl" ELSE "x"]
Texts   == {Text(S) : S \in Newlines}

VARIABLES
  program,  \* the one that runs
  sc_version, sc_counter, sc_mutex, sc_pc, sc_i, sc_val, sc_steps,
  bb_b_buf, bb_b_nitems, bb_b_nextget, bb_b_nextput, bb_b_mutex, bb_waiting,
  bb_pc, bb_i, bb_val,
  rl_version, rl_text, rl_pc, rl_at, rl_read_cnt, rl_read_ptr, rl_read_buf,
  rl_line, rl_n, rl_got, rl_stream, rl_round, rl_signals, rl_ended

SC ==
  INSTANCE SharedCounter WITH NLOOP <- CountLoop, Nobody <- None,
                              version <- sc_version, counter <- sc_counter,
                              mutex <- sc_mutex, pc <- sc_pc, i <- sc_i,
                              val <- sc_val, steps <- sc_steps
BB ==
  INSTANCE BoundedBuffer WITH NLOOP <- BufferLoop, Nobody <- None,
                              b_buf <- bb_b_buf, b_nitems <- bb_b_nitems,
                              b_nextget <- bb_b_nextget,
                              b_nextput <- bb_b_nextput, b_mutex <- bb_b_mutex,
                              waiting <- bb_waiting, pc <- bb_pc, i <- bb_i,
                              val <- bb_val
RL ==
  INSTANCE Readline WITH Threads <- Readers, version <- rl_version,
                         text <- rl_text, pc <- rl_pc, at <- rl_at,
                         read_cnt <- rl_read_cnt, read_ptr <- rl_read_ptr,
                         read_buf <- rl_read_buf, line <- rl_line, n <- rl_n,
                         got <- rl_got, stream <- rl_stream, round <- rl_round,
                         signals <- rl_signals, ended <- rl_ended

sc_vars == <<sc_version, sc_counter, sc_mutex, sc_pc, sc_i, sc_val, sc_steps>>
bb_vars == <<bb_b_buf, bb_b_nitems, bb_b_nextget, bb_b_nextput, bb_b_mutex,
             bb_waiting, bb_pc, bb_i, bb_val>>
rl_vars == <<rl_version, rl_text, rl_pc, rl_at, rl_read_cnt, rl_read_ptr,
             rl_read_buf, rl_line, rl_n, rl_got, rl_stream, rl_round,
             rl_signals, rl_ended>>
all == <<vars, sc_vars, bb_vars, rl_vars, program>>

\* One program runs; the others do not.
Pool == program = "serv08" /\ UNCHANGED <<sc_vars, bb_vars, rl_vars, program>>
Counter == program = "counter" /\ UNCHANGED <<vars, bb_vars, rl_vars, program>>
Buffer == program = "buffer" /\ UNCHANGED <<vars, sc_vars, rl_vars, program>>
Reading == program = "readline" /\ UNCHANGED <<vars, sc_vars, bb_vars, program>>

Programs == {"serv08", "counter", "buffer", "readline"}

\* What does not run starts in one state.
SumInit ==
  /\ program \in Programs /\ Init /\ SC!Init /\ BB!Init /\ RL!Init
  /\ program # "counter" => sc_version = "example01"
  /\ program # "readline" => rl_version = "lib" /\ rl_text = CHOOSE x \in Texts : TRUE

SumNext ==
  \/ Pool /\ Next
  \/ Counter /\ SC!Next
  \/ Buffer /\ BB!Next
  \/ Reading /\ RL!Next

\* FairSpec of ThreadPool; the other programs' threads and clients are scheduled,
\* and the mutex is granted to whoever keeps asking.
SumSpec ==
  /\ SumInit /\ [][SumNext]_all
  /\ WF_all(Pool /\ MainStep) /\ SF_all(Pool /\ MainLock)
  /\ \A t \in Threads : /\ WF_all(Pool /\ ThreadStep(t))
                        /\ SF_all(Pool /\ (ThreadLock(t) \/ Relock(t)))
  /\ \A t \in BB!Tids : /\ WF_all(Buffer /\ BB!Thread(t))
                           /\ SF_all(Buffer /\ BB!Lock(t))
  /\ \A t \in Readers : WF_all(Reading /\ RL!Step(t))

-----------------------------------------------------------------------------
(* Properties                                                                *)

\* serv08.c: the ring, the mutex and the descriptors agree (ThreadPool);
\* example02.c: the counter counts every increment (SharedCounter); the threads of
\* test04.c read their own lines (Readline).
RecordsAgree == Consistent /\ SC!CounterCounts /\ RL!ReadsTheStream

\* No signal is lost: a connection on the ring is taken while a thread is free;
\* example03.c's buffer is a queue, and producer and consumer both finish; the
\* readers come to the end of the file.
EverythingServed ==
  /\ Dispatched /\ BB!ServedInOrder
  /\ <>((program = "buffer" => BB!Finished) /\ (program = "readline" => RL!AllRead))
==============================================================================
