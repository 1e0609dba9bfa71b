------------------------------- MODULE Readline -------------------------------
(* The repository's functions that read lines, and readn, each called until it *)
(* returns 0: lib/readline.c with one static buffer, threads/readline.c with a *)
(* buffer per thread, server/readline.c and test/readline1.c byte by byte,     *)
(* test/readline2.c, readline_r of server/ and test/, lib/readn.c.  The bytes  *)
(* of a thread's descriptor are <<thread, 1>>, <<thread, 2>>, ...              *)
EXTENDS Integers, Sequences, SequencesExt

CONSTANTS Threads,    \* that read, in test04g; the other programs are the first one
          Texts,      \* what the descriptor has, sequences of "x" and "nl"
          MAXLINE,    \* of the caller, and readn's n
          BufSize,    \* sizeof(read_buf), MAXLINE too
          Rounds,     \* times the file is opened: 5 in test04
          MaxSignals  \* bound: reads that a signal interrupts

VARIABLES
  version, text,
  pc,                \* "idle", "loop", "read", "take", "done"
  at,                \* bytes read from the descriptor
  read_cnt, read_ptr, read_buf,    \* rl_cnt, rl_bufptr, rl_buf
  line, n,           \* the bytes stored by the call that runs, its counter
  got, stream,       \* what was returned since the file was opened: calls, bytes
  round, signals, ended

buffer == <<read_cnt, read_ptr, read_buf>>
call   == <<line, n>>
input  == <<version, text>>
returned == <<got, stream>>
vars == <<input, pc, at, buffer, call, returned, round, signals, ended>>

Buffered   == {"lib", "threads", "readline2", "server_r", "readline3"}
Unbuffered == {"server", "readline1"}
Versions   == Buffered \union Unbuffered \union {"readn"}

\* "EOF, some data was read" leaves the loop as a newline does.
BreaksAtEof == {"server", "server_r"}

Callers == IF version = "threads" THEN Threads ELSE {CHOOSE t \in Threads : TRUE}

\* Thread-specific data, or what the caller keeps.
PlaceMutant(t) == CHOOSE x \in Threads : TRUE
Place(t) == t

Init ==
  /\ version \in Versions /\ text \in Texts
  /\ pc = [t \in Threads |-> "idle"] /\ at = [t \in Threads |-> 0]
  /\ read_cnt = [t \in Threads |-> 0] /\ read_ptr = [t \in Threads |-> 1]
  /\ read_buf = [t \in Threads |-> <<>>]
  /\ line = [t \in Threads |-> <<>>] /\ n = [t \in Threads |-> 1]
  /\ got = [t \in Threads |-> <<>>] /\ stream = [t \in Threads |-> <<>>]
  /\ round = [t \in Threads |-> 1]
  /\ signals = 0 /\ ended = FALSE

Running(t) == ~ended /\ t \in Callers
At(t, place)   == Running(t) /\ pc[t] = place
Goto(t, place) == pc' = [pc EXCEPT ![t] = place]

Bytes(t, i, k) == [j \in 1 .. k |-> <<t, i + j>>]    \* k of them after the ith
IsNewline(c)   == c[2] > 0 /\ text[c[2]] = "nl"
Left(t)        == Len(text) - at[t]

Call(t) ==
  /\ At(t, "idle") /\ Goto(t, "loop")
  /\ line' = [line EXCEPT ![t] = <<>>] /\ n' = [n EXCEPT ![t] = 1]
  /\ UNCHANGED <<input, at, buffer, returned, round, signals, ended>>

\* What the caller has when the call returns k; it calls no more after 0.
Return(t, bytes, k) ==
  /\ got' = [got EXCEPT ![t] = Append(@, [bytes |-> bytes, n |-> k])]
  /\ stream' = [stream EXCEPT ![t] = @ \o bytes]
  /\ Goto(t, IF k = 0 THEN "done" ELSE "idle")

\* -1, and err_sys.
Fail == ended' = TRUE /\ UNCHANGED <<pc, returned>>

\* A signal's handler returns: the read is made again, or -1 returned.
Retries == version \notin {"server", "readline2"}
Interrupted(t) ==
  /\ signals < MaxSignals /\ signals' = signals + 1
  /\ IF Retries THEN UNCHANGED <<pc, returned, ended>> ELSE Fail
  /\ UNCHANGED <<input, at, call, round>>

-----------------------------------------------------------------------------
(* readline                                                                  *)

\* for (n = 1; n < maxlen; n++)
Loop(t) == pc[t] = "loop" /\ n[t] < MAXLINE

LineFull(t) ==
  /\ At(t, "loop") /\ ~Loop(t) /\ version # "readn"
  /\ Return(t, line[t], n[t])
  /\ UNCHANGED <<input, at, buffer, call, round, signals, ended>>

\* my_read: the buffer is read from first.
MyRead(t) ==
  /\ Running(t) /\ Loop(t) /\ version \in Buffered
  /\ Goto(t, IF read_cnt[Place(t)] <= 0 THEN "read" ELSE "take")
  /\ UNCHANGED <<input, at, buffer, call, returned, round, signals, ended>>

\* read(fd, read_buf, sizeof(read_buf)) returns what is there.
Fill(t) ==
  /\ At(t, "read") /\ Goto(t, "take")
  /\ \E k \in 1 .. BufSize :
       /\ k <= Left(t)
       /\ read_buf' = [read_buf EXCEPT ![Place(t)] = Bytes(t, at[t], k)]
       /\ read_cnt' = [read_cnt EXCEPT ![Place(t)] = k]
       /\ at' = [at EXCEPT ![t] = @ + k]
  /\ read_ptr' = [read_ptr EXCEPT ![Place(t)] = 1]
  /\ UNCHANGED <<input, call, returned, round, signals, ended>>

FillInterrupted(t) ==
  /\ At(t, "read") /\ Interrupted(t)
  /\ read_cnt' = [read_cnt EXCEPT ![Place(t)] = -1] /\ UNCHANGED <<read_ptr, read_buf>>

\* End of file: n - 1, or n where the loop is only left.
AtEofMutant(t) == Return(t, <<>>, 0)
AtEof(t) ==
  Return(t, line[t], IF version \in BreaksAtEof /\ n[t] > 1 THEN n[t] ELSE n[t] - 1)

FillEof(t) ==
  /\ At(t, "read") /\ Left(t) = 0
  /\ read_cnt' = [read_cnt EXCEPT ![Place(t)] = 0]
  /\ AtEof(t)
  /\ UNCHANGED <<input, at, read_ptr, read_buf, call, round, signals, ended>>

\* c is stored; a newline ends the line.
Store(t, c) ==
  /\ line' = [line EXCEPT ![t] = Append(@, c)]
  /\ IF IsNewline(c)
     THEN Return(t, Append(line[t], c), n[t]) /\ UNCHANGED n
     ELSE n' = [n EXCEPT ![t] = @ + 1] /\ Goto(t, "loop") /\ UNCHANGED returned

Take(t) ==
  /\ At(t, "take")
  /\ LET p == Place(t)
     IN  /\ Store(t, IF read_ptr[p] \in DOMAIN read_buf[p]
                     THEN read_buf[p][read_ptr[p]] ELSE <<t, 0>>)
         /\ read_cnt' = [read_cnt EXCEPT ![p] = @ - 1]
         /\ read_ptr' = [read_ptr EXCEPT ![p] = @ + 1]
  /\ UNCHANGED <<input, at, read_buf, round, signals, ended>>

\* read(fd, &c, 1)
ReadByte(t) ==
  /\ Running(t) /\ Loop(t) /\ version \in Unbuffered
  /\ IF Left(t) = 0
     THEN AtEof(t) /\ UNCHANGED <<at, call>>
     ELSE Store(t, <<t, at[t] + 1>>) /\ at' = [at EXCEPT ![t] = @ + 1]
  /\ UNCHANGED <<input, buffer, round, signals, ended>>

ReadInterrupted(t) ==
  /\ Running(t) /\ pc[t] = "loop" /\ version \in Unbuffered \union {"readn"}
  /\ Interrupted(t) /\ UNCHANGED buffer

-----------------------------------------------------------------------------
(* readn                                                                     *)

Nleft(t) == MAXLINE - Len(line[t])

ReadSome(t) ==
  /\ At(t, "loop") /\ version = "readn" /\ Nleft(t) > 0 /\ Left(t) > 0
  /\ \E k \in 1 .. Nleft(t) :
       /\ k <= Left(t)
       /\ line' = [line EXCEPT ![t] = @ \o Bytes(t, at[t], k)]
       /\ at' = [at EXCEPT ![t] = @ + k]
  /\ UNCHANGED <<input, pc, buffer, n, returned, round, signals, ended>>

ReadnReturns(t) ==
  /\ At(t, "loop") /\ version = "readn" /\ (Nleft(t) = 0 \/ Left(t) = 0)
  /\ Return(t, line[t], MAXLINE - Nleft(t))
  /\ UNCHANGED <<input, at, buffer, call, round, signals, ended>>

-----------------------------------------------------------------------------

\* test04: Close, and Open again.
Reopen(t) ==
  /\ At(t, "done") /\ version = "threads" /\ round[t] < Rounds
  /\ round' = [round EXCEPT ![t] = @ + 1]
  /\ at' = [at EXCEPT ![t] = 0] /\ got' = [got EXCEPT ![t] = <<>>]
  /\ stream' = [stream EXCEPT ![t] = <<>>]
  /\ Goto(t, "idle")
  /\ UNCHANGED <<input, buffer, call, signals, ended>>

Step(t) ==
  \/ Call(t) \/ LineFull(t) \/ MyRead(t) \/ Fill(t) \/ FillEof(t) \/ Take(t)
  \/ ReadByte(t) \/ ReadSome(t) \/ ReadnReturns(t) \/ Reopen(t)

Next == \E t \in Threads : Step(t) \/ FillInterrupted(t) \/ ReadInterrupted(t)

Spec == Init /\ [][Next]_vars

\* The threads are scheduled, and the input ends.
FairSpec == Spec /\ \A t \in Threads : WF_vars(Step(t))

-----------------------------------------------------------------------------
(* Properties                                                                *)

Unread(t) ==      \* readlinebuf
  SubSeq(read_buf[Place(t)], read_ptr[Place(t)], read_ptr[Place(t)] + read_cnt[Place(t)] - 1)
Unfinished(t) == IF pc[t] \in {"loop", "read", "take"} THEN line[t] ELSE <<>>

\* lib/readline.c:7-26, threads/readline.c:28-44: every byte that was read from a
\* descriptor is, once and in order, in what its reader got or still in its buffer.
NothingMixed ==
  \A t \in Callers :
    stream[t] \o Unfinished(t) \o Unread(t) = Bytes(t, 0, at[t])

\* Where a call may stop: after the first newline, when the buffer is full, at end
\* of file; a record of readn only when it is full or at end of file.
EndsRightly(t, b) ==
  /\ version # "readn" => \A i \in 1 .. Len(b) - 1 : ~IsNewline(b[i])
  /\ \/ version # "readn" /\ b # <<>> /\ IsNewline(Last(b))
     \/ Len(b) = (IF version = "readn" THEN MAXLINE ELSE MAXLINE - 1)
     \/ b = <<>> \/ Last(b)[2] = Len(text)

\* The result counts the bytes; but a line that fills the buffer has one less
\* (lib/readline.c:34-47), and so has what server/readline.c and readline_r return
\* at end of file (server/readline.c:19-26).
ResultOf(t, b) ==
  IF \/ version # "readn" /\ Len(b) = MAXLINE - 1 /\ ~IsNewline(Last(b))
     \/ version \in BreaksAtEof /\ b # <<>> /\ ~IsNewline(Last(b))
  THEN Len(b) + 1 ELSE Len(b)

LinesAreRight ==
  \A t \in Callers : \A i \in DOMAIN got[t] :
    /\ EndsRightly(t, got[t][i].bytes)
    /\ got[t][i].n = ResultOf(t, got[t][i].bytes)

ReadsTheStream == NothingMixed /\ LinesAreRight

\* Every caller comes to the end of its input, unless a signal makes read fail.
AllRead == ended \/ \A t \in Callers : pc[t] = "done" /\ at[t] = Len(text)
=============================================================================
