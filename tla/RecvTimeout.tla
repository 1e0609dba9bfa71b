----------------------------- MODULE RecvTimeout -----------------------------
(* Clients that give up waiting for datagrams: bcast/dgclibcast1 to 6.c         *)
(* collect the answers to a broadcast until SIGALRM ends the wait, and         *)
(* advio/dgclitimeo*.c wait for one answer and no longer than five seconds.    *)
(* bcast4 calls the pselect of the system, bcast4hack the one of               *)
(* lib/pselect.c.  An answer is the number of the line it answers.             *)
EXTENDS Integers, Sequences

CONSTANTS MaxLines,   \* bound: lines typed
          MaxAnswers  \* bound: answers to one line, from several servers or
                      \* repeated by the network

VARIABLES
  version,   \* the program
  pc,        \* its place in dg_cli; "call" is before a system call that may wait
             \* and "recv", "select", "pselect" in it; "undefined" after a jump
             \* through a jmpbuf that was never set
  line,      \* lines read from fp
  result,    \* of the last call: "none", "answer", "EINTR"
  sock,      \* answers in the socket buffer
  owed,      \* answers to each line that have not arrived
  alarm,     \* the line whose alarm is set, or 0
  pending,   \* the line whose SIGALRM is blocked and pending, or 0
  blocked,   \* is SIGALRM blocked
  jmpbuf,    \* has sigsetjmp been called
  pipe,      \* bytes that the handler of bcast6 wrote: lines of their alarms
  ended,     \* the line whose alarm ended the last wait, or 0
  timeouts,  \* waits given up
  copies,    \* answers beyond the first to a line
  astray     \* has an answer been printed under another line

vars == <<version, pc, line, result, sock, owed, alarm, pending, blocked, jmpbuf,
          pipe, ended, timeouts, copies, astray>>
net    == <<owed, copies>>
signal == <<alarm, pending, blocked, jmpbuf, pipe>>
past   == <<ended, timeouts, astray>>

Lines == 1 .. MaxLines
Broadcast == {"bcast1", "bcast2", "bcast3", "bcast4", "bcast4hack", "bcast5", "bcast6"}
Versions  == Broadcast \cup {"timeo", "timeo1", "timeo2", "timeo3"}
UsesAlarm == Broadcast \cup {"timeo3"}

Init ==
  /\ version \in Versions /\ pc = "fgets"
  /\ line = 0 /\ result = "none" /\ sock = <<>>
  /\ owed = [n \in Lines |-> 0]
  /\ alarm = 0 /\ pending = 0 /\ blocked = FALSE /\ jmpbuf = FALSE /\ pipe = <<>>
  /\ ended = 0 /\ timeouts = 0 /\ copies = 0 /\ astray = FALSE

Move(from, to) == pc = from /\ pc' = to

\* The statement at the top of the inner loop, where answers are waited for.
Top == CASE version \in {"bcast1", "bcast2", "timeo", "timeo1", "timeo2", "timeo3"} -> "call"
         [] version = "bcast3"                -> "unblock"
         [] version = "bcast4"                -> "pselect"
         [] version = "bcast4hack"            -> "unblock"
         [] version = "bcast5"                -> "setjmp"
         [] version = "bcast6"                -> "select"

-----------------------------------------------------------------------------
(* Reading and sending a line                                                *)

Fgets ==
  /\ Move("fgets", "sendto") /\ line < MaxLines /\ line' = line + 1
  /\ ended' = 0
  /\ UNCHANGED <<version, result, sock, net, signal, timeouts, astray>>

\* The line goes out; some number of answers to it will come, or be lost.
Sendto ==
  /\ Move("sendto", IF version \notin UsesAlarm THEN Top
                    ELSE IF version \in {"bcast4", "bcast4hack"} THEN "block" ELSE "alarm")
  /\ \E n \in 0 .. MaxAnswers :
       /\ owed' = [owed EXCEPT ![line] = n]
       /\ copies' = IF n > 1 THEN copies + n - 1 ELSE copies
  /\ UNCHANGED <<version, line, result, sock, signal, past>>

\* alarm(5) replaces an alarm that is still set.
SetAlarm ==
  /\ Move("alarm", Top) /\ alarm' = line
  /\ UNCHANGED <<version, line, result, sock, net, pending, blocked, jmpbuf, pipe, past>>

-----------------------------------------------------------------------------
(* The signal                                                                *)

\* What recvfrom_alarm, run for the alarm of line n, does to the program:
\* nothing beyond the interruption of a call, a jump (bcast5), a byte (bcast6).
Handle(n) ==
  CASE version = "bcast5" ->
         /\ pc' = IF jmpbuf THEN "fgets" ELSE "undefined"
         /\ ended' = n /\ timeouts' = timeouts + 1
         /\ UNCHANGED <<result, pipe>>
    [] version = "bcast6" ->
         /\ pipe' = Append(pipe, n)
         /\ UNCHANGED <<pc, result, ended, timeouts>>
    [] OTHER ->
         /\ IF pc \in {"recv", "hackselect"}
            THEN /\ pc' = CASE version \in {"bcast3", "bcast4hack"} -> "reblock"
                            [] OTHER -> "test"
                 /\ result' = "EINTR"
            ELSE UNCHANGED <<pc, result>>
         /\ ended' = IF pc \in {"recv", "hackselect"} THEN n ELSE ended
         /\ UNCHANGED <<pipe, timeouts>>

SigAlrm ==
  /\ alarm # 0 /\ pc # "undefined" /\ alarm' = 0
  /\ IF blocked
     THEN /\ pending' = alarm
          /\ UNCHANGED <<pc, result, pipe, ended, timeouts>>
     ELSE /\ Handle(alarm)
          /\ UNCHANGED pending
  /\ UNCHANGED <<version, line, sock, net, blocked, jmpbuf, astray>>

\* bcast4 blocks the signal around its loop.
Block ==
  /\ Move("block", "alarm") /\ blocked' = TRUE
  /\ UNCHANGED <<version, line, result, sock, net, alarm, pending, jmpbuf, pipe, past>>

\* Sigprocmask(SIG_UNBLOCK), and the first sigprocmask of lib/pselect.c: a
\* pending signal is handled before the call that could be interrupted begins.
Unblock ==
  /\ Move("unblock", "call") /\ blocked' = FALSE /\ pending' = 0
  /\ UNCHANGED <<version, line, result, sock, net, alarm, jmpbuf, pipe, past>>

\* The mask back, in bcast3 after recvfrom and in lib/pselect.c after select.
Reblock ==
  /\ Move("reblock", "test") /\ blocked' = TRUE
  /\ UNCHANGED <<version, line, result, sock, net, alarm, pending, jmpbuf, pipe, past>>

SetJmp ==
  /\ Move("setjmp", "call") /\ jmpbuf' = TRUE
  /\ UNCHANGED <<version, line, result, sock, net, alarm, pending, blocked, pipe, past>>

-----------------------------------------------------------------------------
(* Waiting                                                                   *)

\* The call is entered: from here a signal interrupts it.
Call ==
  /\ Move("call", IF version = "bcast4hack" THEN "hackselect" ELSE "recv")
  /\ UNCHANGED <<version, line, result, sock, net, signal, past>>

\* recvfrom takes the next answer, and the program prints it.
Take ==
  /\ sock # <<>> /\ sock' = Tail(sock)
  /\ astray' = (astray \/ Head(sock) # line)

Recvfrom ==
  /\ pc = "recv" /\ Take
  /\ pc' = CASE version = "bcast3" -> "reblock"
             [] version = "timeo3" -> "alarm0"
             [] version \in {"timeo", "timeo1", "timeo2"} -> "fgets"
             [] OTHER -> Top
  /\ result' = "answer"
  /\ UNCHANGED <<version, line, net, signal, ended, timeouts>>

\* if (n < 0 && errno == EINTR) break;
Test ==
  /\ pc = "test"
  /\ pc' = IF result = "EINTR" THEN "fgets"
           ELSE IF version = "bcast4hack" THEN "recv2" ELSE Top
  /\ timeouts' = IF result = "EINTR" THEN timeouts + 1 ELSE timeouts
  /\ UNCHANGED <<version, line, result, sock, net, signal, ended, astray>>

\* The Recvfrom after pselect has returned 1.
RecvReady ==
  /\ pc = "recv2" /\ pc' = Top /\ Take /\ result' = "answer"
  /\ UNCHANGED <<version, line, net, signal, ended, timeouts>>

\* pselect of the system: the signal is unblocked only inside the call, so a
\* pending one, or one that comes while waiting, makes it return EINTR.
Pselect ==
  /\ pc = "pselect"
  /\ \/ /\ pending # 0 /\ pc' = "fgets" /\ pending' = 0
        /\ ended' = pending /\ timeouts' = timeouts + 1
     \/ /\ sock # <<>> /\ pc' = "recv2"
        /\ UNCHANGED <<pending, ended, timeouts>>
  /\ UNCHANGED <<version, line, result, sock, net, alarm, blocked, jmpbuf, pipe, astray>>

\* select of lib/pselect.c.
HackSelect ==
  /\ Move("hackselect", "reblock") /\ sock # <<>> /\ result' = "answer"
  /\ UNCHANGED <<version, line, sock, net, signal, past>>

\* bcast6: select on the socket and the pipe; what was ready is acted on, the
\* socket first.  A select that the handler interrupts is called again.
Select6 ==
  /\ pc = "select"
  /\ \/ sock # <<>> /\ pc' = IF pipe # <<>> THEN "recvpipe" ELSE "recv"
     \/ sock = <<>> /\ pipe # <<>> /\ pc' = "readpipe"
  /\ UNCHANGED <<version, line, result, sock, net, signal, past>>

RecvThenPipe ==
  /\ pc = "recvpipe" /\ pc' = "readpipe" /\ Take /\ result' = "answer"
  /\ UNCHANGED <<version, line, net, signal, ended, timeouts>>

\* Read(pipefd[0], &n, 1): timer expired.
ReadPipeMutant ==
  /\ Move("readpipe", "fgets") /\ pipe # <<>>
  /\ ended' = Head(pipe) /\ timeouts' = timeouts + 1
  /\ UNCHANGED <<version, line, result, sock, net, alarm, pending, blocked, jmpbuf, pipe, astray>>
ReadPipe ==
  /\ Move("readpipe", "fgets") /\ pipe # <<>> /\ pipe' = Tail(pipe)
  /\ ended' = Head(pipe) /\ timeouts' = timeouts + 1
  /\ UNCHANGED <<version, line, result, sock, net, alarm, pending, blocked, jmpbuf, astray>>

\* Readable_timeo returns 0; SO_RCVTIMEO makes recvfrom fail with EWOULDBLOCK.
\* Both only when nothing has come.
TimeoutMutant ==
  /\ FALSE
  /\ UNCHANGED vars
Timeout ==
  /\ version \in {"timeo", "timeo1", "timeo2"} /\ Move("recv", "fgets")
  /\ sock = <<>> /\ timeouts' = timeouts + 1
  /\ UNCHANGED <<version, line, result, sock, net, signal, ended, astray>>

\* alarm(0) of dgclitimeo3, before the answer is printed.
Alarm0 ==
  /\ Move("alarm0", "fgets") /\ alarm' = 0
  /\ UNCHANGED <<version, line, result, sock, net, pending, blocked, jmpbuf, pipe, past>>

-----------------------------------------------------------------------------
\* An answer arrives, in any order and as late as it likes.
Arrive ==
  /\ \E n \in Lines : /\ owed[n] > 0 /\ owed' = [owed EXCEPT ![n] = @ - 1]
                      /\ sock' = Append(sock, n)
  /\ UNCHANGED <<version, pc, line, result, copies, signal, past>>

\* The programs.
Asks == Fgets \/ Sendto
Bcast1 == version = "bcast1" /\ (Asks \/ SetAlarm \/ Call \/ Recvfrom \/ Test)
\* With a sleep that lets the alarm go off between two calls.
Bcast2 == version = "bcast2" /\ (Asks \/ SetAlarm \/ Call \/ Recvfrom \/ Test)
Bcast3 == version = "bcast3" /\ \/ Asks \/ SetAlarm
                                \/ Unblock \/ Call \/ Recvfrom \/ Reblock \/ Test
Bcast4 == version = "bcast4" /\ (Asks \/ Block \/ SetAlarm \/ Pselect \/ RecvReady)
Bcast4Hack == version = "bcast4hack" /\ \/ Asks \/ Block \/ SetAlarm \/ Unblock \/ Call
                                        \/ HackSelect \/ Reblock \/ Test \/ RecvReady
Bcast5 == version = "bcast5" /\ (Asks \/ SetAlarm \/ SetJmp \/ Call \/ Recvfrom)
Bcast6 == version = "bcast6" /\ (Asks \/ SetAlarm \/ Select6 \/ Recvfrom \/ RecvThenPipe \/ ReadPipe)
Timeo  == version = "timeo" /\ (Asks \/ Call \/ Recvfrom \/ Timeout)
Timeo1 == version = "timeo1" /\ (Asks \/ Call \/ Recvfrom \/ Timeout)
Timeo2 == version = "timeo2" /\ (Asks \/ Call \/ Recvfrom \/ Timeout)
Timeo3 == version = "timeo3" /\ (Asks \/ SetAlarm \/ Call \/ Recvfrom \/ Alarm0 \/ Test)
Step == \/ Bcast1 \/ Bcast2 \/ Bcast3 \/ Bcast4 \/ Bcast4Hack \/ Bcast5 \/ Bcast6
        \/ Timeo \/ Timeo1 \/ Timeo2 \/ Timeo3

Next == Step \/ SigAlrm \/ Arrive

\* The program runs and alarms go off.  No answer is owed by anybody.
FairSpec == Init /\ [][Next]_vars /\ WF_vars(Step) /\ WF_vars(SigAlrm)

-----------------------------------------------------------------------------
(* Properties                                                                *)

\* The alarm that ends a wait was set for that wait (the break after EINTR, the
\* jump, the byte in the pipe): none is left over for a later line.
OwnAlarmEndsWait == ended \in {0, line}

\* The clients without sequence numbers (dgclitimeo*.c) print an answer under
\* another line only after a wait was given up or an answer was repeated.
OutOfStepOnlyAfterTimeout ==
  version \notin Broadcast /\ astray => timeouts + copies > 0

\* SIGALRM came when no call could be interrupted: bcast1, bcast3, dgclitimeo3
\* and lib/pselect.c then wait without any alarm.
Overslept ==
  /\ version \in {"bcast1", "bcast2", "bcast3", "bcast4hack", "timeo3"}
  /\ pc \in {"call", "unblock", "recv", "hackselect"}
  /\ alarm = 0 /\ ~(pending # 0 /\ pc # "unblock")

\* Every wait ends, but for the lost SIGALRM and the jump of bcast5 before its
\* first sigsetjmp: system pselect, the pipe, select's and the socket's own time
\* limit lose nothing.
WaitEnds == pc = "sendto" ~> pc \in {"fgets", "undefined"} \/ Overslept
==============================================================================
