-------------------------------- MODULE StrCli --------------------------------
(* str_cli, the client's copy from standard input to the server and from the   *)
(* server to standard output, in five forms, with the echo server str_echo and *)
(* the finite buffers of the connection between them:                          *)
(*   "str_cli"   one line at a time          my-src/Chapter-05/str_cli.c        *)
(*   "select01"  select with stdio           my-src/Chapter-06/strcliselect01.c *)
(*   "select02"  select, read, shutdown      my-src/Chapter-06/strcliselect02.c *)
(*   "nonb"      nonblocking descriptors     nonblock/strclinonb.c              *)
(*   "fork"      a process, or a thread, for each direction: nonblock/strclifork.c, *)
(*               threads/strclithread.c                                        *)
(* A unit of data stands for a line.                                           *)
EXTENDS Naturals, Sequences

CONSTANTS Lines,     \* bound: the lines typed
          MAXLINE,   \* the lines a buffer of the client or the server holds
          SockBuf,   \* the lines each direction of the connection holds
          Stdout     \* the lines the terminal takes before a write blocks

ASSUME SizeAssumption == {Lines, MAXLINE, SockBuf, Stdout} \subseteq Nat \ {0}

VARIABLES
  version,
  typed, eof,        \* lines typed, and whether the input has ended
  stdinq,            \* the descriptor's input that has not been read
  cli,               \* where the client is; in "fork" the process reading stdin
  child,             \* where the process reading the socket is, in "fork"
  stdineof,
  inbuf,             \* select01: lines in stdio's buffer
  to, toi,           \* what is to be written to the socket, and toiptr - to
  fr, fri,           \* what was read from the socket, and friptr - fr
  rset, wset,
  c2s, fin,          \* client to server, and whether it was shut down
  server, sbuf, s2c, \* str_echo, its buffer, server to client
  out, shown         \* lines written to stdout, and how many the terminal has taken

input == <<typed, eof, stdinq>>
user  == <<stdineof, inbuf, to, toi, fr, fri>>
sets  == <<rset, wset>>
peer  == <<server, sbuf>>
screen == <<out, shown>>
vars  == <<version, input, cli, child, user, sets, c2s, fin, peer, s2c, screen>>

Select == version \in {"select01", "select02"}
Stdio  == version \in {"str_cli", "select01", "fork"}
Ended  == {"returned", "terminated prematurely", "killed"}

Init ==
  /\ version \in {"str_cli", "select01", "select02", "nonb", "fork"}
  /\ typed = 0 /\ eof = "no" /\ stdinq = <<>>
  /\ cli = (IF version \in {"str_cli", "fork"} THEN "fgets" ELSE "select")
  /\ child = (IF version = "fork" THEN "readline" ELSE "none")
  /\ stdineof = 0 /\ inbuf = <<>> /\ to = <<>> /\ toi = 0 /\ fr = <<>> /\ fri = 0
  /\ rset = {} /\ wset = {} /\ c2s = <<>> /\ fin = "no"
  /\ server = "read" /\ sbuf = <<>> /\ s2c = <<>>
  /\ out = <<>> /\ shown = 0

Running == cli \notin Ended

-----------------------------------------------------------------------------
(* The terminal                                                              *)

Type ==
  /\ eof = "no" /\ typed < Lines
  /\ typed' = typed + 1 /\ stdinq' = Append(stdinq, typed')
  /\ UNCHANGED <<version, eof, cli, child, user, sets, c2s, fin, peer, s2c, screen>>

EndInput ==
  /\ eof = "no" /\ eof' = "yes"
  /\ UNCHANGED <<version, typed, stdinq, cli, child, user, sets, c2s, fin, peer, s2c,
                 screen>>

Show ==
  /\ shown < Len(out) /\ shown' = shown + 1
  /\ UNCHANGED <<version, input, cli, child, user, sets, c2s, fin, peer, s2c, out>>

Room(n) == Len(out) + n - shown <= Stdout

-----------------------------------------------------------------------------
(* str_echo                                                                  *)

UpTo(n, s)  == SubSeq(s, 1, IF n < Len(s) THEN n ELSE Len(s))
After(n, s) == SubSeq(s, n + 1, Len(s))

EchoRead ==
  /\ server = "read" /\ c2s # <<>>
  /\ server' = "write" /\ sbuf' = UpTo(MAXLINE, c2s) /\ c2s' = After(MAXLINE, c2s)
  /\ UNCHANGED <<version, input, cli, child, user, sets, fin, s2c, screen>>

EchoWrite ==
  /\ server = "write" /\ Len(s2c) < SockBuf
  /\ s2c' = Append(s2c, Head(sbuf)) /\ sbuf' = Tail(sbuf)
  /\ server' = IF sbuf' = <<>> THEN "read" ELSE "write"
  /\ UNCHANGED <<version, input, cli, child, user, sets, c2s, fin, screen>>

EchoEnd ==
  /\ server = "read" /\ c2s = <<>> /\ fin = "yes"
  /\ server' = "ended"
  /\ UNCHANGED <<version, input, cli, child, user, sets, c2s, fin, sbuf, s2c, screen>>

\* The server's process is terminated, and with it its end of the connection.
EchoCrash ==
  /\ server \in {"read", "write"} /\ server' = "crashed"
  /\ c2s' = <<>> /\ sbuf' = <<>>
  /\ UNCHANGED <<version, input, cli, child, user, sets, fin, s2c, screen>>

-----------------------------------------------------------------------------
(* Client: from standard input to the socket                                 *)

AtInput == \/ version \in {"str_cli", "fork"} /\ cli = "fgets"
           \/ Select /\ cli = "stdin" /\ "stdin" \in rset

\* Fgets: stdio reads what is there into its buffer and returns a line of it.
\* select02 reads all that is there.
ReadInput ==
  /\ AtInput
  /\ IF Stdio
     THEN /\ inbuf # <<>> \/ stdinq # <<>>
          /\ LET b == IF inbuf # <<>> THEN inbuf ELSE stdinq
             IN  to' = <<Head(b)>> /\ inbuf' = Tail(b)
          /\ stdinq' = IF inbuf # <<>> THEN stdinq ELSE <<>>
     ELSE /\ stdinq # <<>>
          /\ to' = UpTo(MAXLINE, stdinq) /\ stdinq' = After(MAXLINE, stdinq)
          /\ UNCHANGED inbuf
  /\ cli' = "writen"
  /\ UNCHANGED <<version, typed, eof, child, stdineof, toi, fr, fri, sets, c2s, fin,
                 peer, s2c, screen>>

AtEof == AtInput /\ inbuf = <<>> /\ stdinq = <<>> /\ eof = "yes"

ShutdownMutant == cli' = "returned" /\ UNCHANGED fin
Shutdown == cli' = "pause" /\ fin' = "yes"

\* str_cli and select01 return; main then exits, which closes the socket.
ReadEof ==
  /\ AtEof
  /\ CASE version \in {"str_cli", "select01"} -> cli' = "returned" /\ fin' = "yes"
       [] version = "fork"                    -> Shutdown
       [] version = "select02"                -> cli' = "select" /\ fin' = "yes"
  /\ stdineof' = 1
  /\ UNCHANGED <<version, input, child, inbuf, to, toi, fr, fri, sets, c2s, peer, s2c,
                 screen>>

AfterWriten == CASE version = "str_cli" -> "readline"
                 [] version = "fork"    -> "fgets"
                 [] OTHER               -> "select"

\* Writen blocks while the connection is full.
Writen ==
  /\ cli = "writen" /\ Len(c2s) < SockBuf /\ server # "crashed"
  /\ c2s' = Append(c2s, Head(to)) /\ to' = Tail(to)
  /\ cli' = IF to' = <<>> THEN AfterWriten ELSE "writen"
  /\ UNCHANGED <<version, input, child, stdineof, inbuf, toi, fr, fri, sets, fin, peer,
                 s2c, screen>>

\* A write after the server is gone: SIGPIPE, at the second at the latest.
BrokenPipe ==
  /\ cli = "writen" \/ (cli = "write" /\ "sock" \in wset)
  /\ to # <<>> /\ server = "crashed"
  /\ cli' = "killed"
  /\ UNCHANGED <<version, input, child, user, sets, c2s, fin, peer, s2c, screen>>

-----------------------------------------------------------------------------
(* Client: from the socket to standard output                                *)

ServerClosed == server \in {"ended", "crashed"}
Readable == s2c # <<>> \/ ServerClosed
AtSocket == \/ version = "str_cli" /\ cli = "readline"
            \/ Select /\ cli = "sock" /\ "sock" \in rset
            \/ version = "fork" /\ child = "readline" /\ Running

ReaderGoto(place) == IF version = "fork" THEN child' = place /\ UNCHANGED cli
                     ELSE cli' = place /\ UNCHANGED child

\* Readline's buffer takes what is there, fr; Read of select02 too.
ReadSocket ==
  /\ AtSocket
  /\ IF Stdio /\ fr # <<>> THEN UNCHANGED <<fr, s2c>>
     ELSE s2c # <<>> /\ fr' = UpTo(MAXLINE, s2c) /\ s2c' = After(MAXLINE, s2c)
  /\ ReaderGoto("fputs")
  /\ UNCHANGED <<version, input, stdineof, inbuf, to, toi, fri, sets, c2s, fin, peer,
                 screen>>

\* End of file: normal for select02 after its own, and for "fork", which then
\* ends both processes (SIGTERM to the parent; return from main).
ReadSocketEof ==
  /\ AtSocket /\ s2c = <<>> /\ ServerClosed /\ (Stdio => fr = <<>>)
  /\ cli' = IF cli \in Ended THEN cli
            ELSE IF version = "fork" \/ (version = "select02" /\ stdineof = 1) THEN "returned"
            ELSE "terminated prematurely"
  /\ child' = IF version = "fork" THEN "exited" ELSE child
  /\ UNCHANGED <<version, input, user, sets, c2s, fin, peer, s2c, screen>>

AfterFputs == CASE version = "str_cli" -> "fgets"
                [] version = "fork"    -> "readline"
                [] OTHER               -> "stdin"

Fputs ==
  /\ IF version = "fork" THEN child = "fputs" ELSE cli = "fputs"
  /\ LET n == IF Stdio THEN 1 ELSE Len(fr)
     IN  /\ Room(1)
         /\ out' = out \o UpTo(n, fr) /\ fr' = After(n, fr)
  /\ ReaderGoto(AfterFputs)
  /\ UNCHANGED <<version, input, stdineof, inbuf, to, toi, fri, sets, c2s, fin, peer,
                 s2c, shown>>

-----------------------------------------------------------------------------
(* Client: the select loops                                                  *)

WatchInput == version = "select01" \/ stdineof = 0

SelectReturns ==
  /\ Select /\ cli = "select"
  /\ rset' = {d \in {"stdin", "sock"} :
                IF d = "sock" THEN Readable
                ELSE WatchInput /\ (stdinq # <<>> \/ eof = "yes")}
  /\ rset' # {}
  /\ cli' = "sock"
  /\ UNCHANGED <<version, input, child, user, wset, c2s, fin, peer, s2c, screen>>

NotSet ==
  /\ Select
  /\ \/ cli = "sock" /\ "sock" \notin rset /\ cli' = "stdin"
     \/ cli = "stdin" /\ "stdin" \notin rset /\ cli' = "select"
  /\ UNCHANGED <<version, input, child, user, sets, c2s, fin, peer, s2c, screen>>

-----------------------------------------------------------------------------
(* Client: strclinonb.c, one action per block of its loop                    *)

Nonb(from, to_) == version = "nonb" /\ cli = from /\ cli' = to_

NonbSelect ==
  /\ Nonb("select", "stdin")
  /\ rset' = {d \in {"stdin", "sock"} :
                IF d = "sock" THEN fri < MAXLINE /\ Readable
                ELSE stdineof = 0 /\ toi < MAXLINE /\ (stdinq # <<>> \/ eof = "yes")}
  /\ wset' = {d \in {"stdout", "sock"} :
                IF d = "sock" THEN to # <<>> /\ (Len(c2s) < SockBuf \/ server = "crashed")
                ELSE fr # <<>> /\ Room(1)}
  /\ rset' \union wset' # {}
  /\ UNCHANGED <<version, input, child, user, c2s, fin, peer, s2c, screen>>

FinAtEofMutant == "yes"
FinAtEof == IF to = <<>> THEN "yes" ELSE fin

NonbStdin ==
  /\ Nonb("stdin", "sock")
  /\ IF "stdin" \notin rset THEN UNCHANGED <<stdinq, stdineof, to, toi, wset, fin>>
     ELSE IF stdinq = <<>>
     THEN /\ stdineof' = 1
          /\ fin' = FinAtEof
          /\ UNCHANGED <<stdinq, to, toi, wset>>
     ELSE /\ LET read == UpTo(MAXLINE - toi, stdinq)
             IN  /\ to' = to \o read /\ toi' = toi + Len(read)
                 /\ stdinq' = After(Len(read), stdinq)
          /\ wset' = wset \union {"sock"}
          /\ UNCHANGED <<stdineof, fin>>
  /\ UNCHANGED <<version, typed, eof, child, inbuf, fr, fri, rset, c2s, peer, s2c, screen>>

NonbSocket ==
  /\ version = "nonb" /\ cli = "sock"
  /\ IF "sock" \in rset /\ s2c = <<>> /\ ServerClosed
     THEN /\ cli' = IF stdineof = 1 THEN "returned" ELSE "terminated prematurely"
          /\ UNCHANGED <<fr, fri, wset, s2c>>
     ELSE /\ cli' = "stdout"
          /\ LET read == IF "sock" \in rset THEN UpTo(MAXLINE - fri, s2c) ELSE <<>>
             IN  /\ fr' = fr \o read /\ fri' = fri + Len(read)
                 /\ s2c' = After(Len(read), s2c)
                 /\ wset' = IF read = <<>> THEN wset ELSE wset \union {"stdout"}
  /\ UNCHANGED <<version, input, child, stdineof, inbuf, to, toi, rset, c2s, fin, peer,
                 screen>>

UnwrittenMutant(n) == <<>>
Unwritten(n) == After(n, fr)

\* A write takes what there is room for, or returns EWOULDBLOCK.
NonbStdout ==
  /\ Nonb("stdout", "write")
  /\ LET n == IF "stdout" \in wset THEN Stdout - (Len(out) - shown) ELSE 0
     IN  /\ out' = out \o UpTo(n, fr) /\ fr' = Unwritten(n)
         /\ fri' = IF fr' = <<>> THEN 0 ELSE fri
  /\ UNCHANGED <<version, input, child, stdineof, inbuf, to, toi, sets, c2s, fin, peer,
                 s2c, shown>>

ToEmptiedMutant == UNCHANGED fin
ToEmptied == fin' = IF stdineof = 1 THEN "yes" ELSE fin

NonbWrite ==
  /\ Nonb("write", "select")
  /\ (server = "crashed" /\ "sock" \in wset => to = <<>>)
  /\ LET n == IF "sock" \in wset THEN SockBuf - Len(c2s) ELSE 0
     IN  /\ c2s' = c2s \o UpTo(n, to) /\ to' = After(n, to)
         /\ IF to # <<>> /\ to' = <<>> THEN toi' = 0 /\ ToEmptied
            ELSE UNCHANGED <<toi, fin>>
  /\ UNCHANGED <<version, input, child, stdineof, inbuf, fr, fri, sets, peer, s2c, screen>>

-----------------------------------------------------------------------------
Server == EchoRead \/ EchoWrite \/ EchoEnd
Copy   == \/ ReadInput \/ ReadEof \/ Writen \/ BrokenPipe
          \/ SelectReturns \/ NotSet
          \/ NonbSelect \/ NonbStdin \/ NonbSocket \/ NonbStdout \/ NonbWrite
Back   == ReadSocket \/ ReadSocketEof \/ Fputs
Next   == Type \/ EndInput \/ Show \/ Server \/ EchoCrash \/ Copy \/ Back

Spec == Init /\ [][Next]_vars

\* Both processes run and the terminal shows what it is given; nobody has to type.
FairSpec == /\ Spec /\ WF_vars(Server) /\ WF_vars(Copy) /\ WF_vars(Back)
            /\ WF_vars(Show)

-----------------------------------------------------------------------------
(* Properties                                                                *)

Typed == [n \in 1 .. typed |-> n]

\* Nothing is lost, repeated or reordered on its way through the buffers of the
\* client, the connection and the server.
Pipeline ==
  server # "crashed" =>
    out \o fr \o s2c \o sbuf \o c2s \o to \o inbuf \o stdinq = Typed

\* A client that ends normally has shown the echo of all its input.  select01
\* returns as soon as its input ends, nonb while fr holds echoes not yet written.
CompleteAtReturn ==
  cli = "returned" /\ server # "crashed" =>
    \/ out = Typed
    \/ version = "select01"
    \/ version = "nonb" /\ out \o fr = Typed

\* The server is told that the input has ended when all of it has been written.
FinAfterInput ==
  fin = "yes" => to = <<>> /\ inbuf = <<>> /\ stdinq = <<>> /\ eof = "yes"

\* Client and server each wait for the other to read.
BothWriting ==
  cli = "writen" /\ Len(c2s) = SockBuf /\ server = "write" /\ Len(s2c) = SockBuf

\* When the input has ended the client ends.  Only the forms that write with a
\* blocking Writen in the loop that also reads can stop in BothWriting.
Ends == eof = "yes" ~> ~Running \/ (Select /\ BothWriting)

\* Everything typed arrives before the FIN and is shown before the end
\* (strclinonb.c:39-122), in the forms and with the exceptions stated above.
Delivered == Pipeline /\ CompleteAtReturn /\ FinAfterInput
==============================================================================
