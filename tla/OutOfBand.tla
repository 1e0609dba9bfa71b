------------------------------ MODULE OutOfBand ------------------------------
(* The receivers of TCP out-of-band data, oob/tcprecv01 to 06 and 03p and the  *)
(* ones of my-src/Chapter-24, against the senders tcpsend01 to 06.  TCP is     *)
(* external: one urgent pointer per direction that may run ahead of the data,  *)
(* a one-byte buffer, reads that stop at the mark, an exceptional condition    *)
(* that lasts until a read has passed the mark.                                *)
EXTENDS Integers, Sequences, FiniteSetsExt

\* What a sender writes: where each of its writes ends in the stream of bytes.
\* Every second write is one byte with MSG_OOB.
Tcpsend01 == <<3, 4, 6, 7, 9>>
Tcpsend04 == <<3, 4, 5>>
Tcpsend05 == <<4, 5, 6>>        \* the first write in units of 4096 bytes
Tcpsend06 == <<3, 4, 5, 6, 7>>

VARIABLES
  version,  \* the receiver
  script,   \* the sender
  writes,   \* how many of its writes the sender has done
  arrived,  \* bytes that have arrived
  mark,     \* the urgent pointer that has arrived: the number of the byte, or 0
  oob,      \* the byte at the mark: "none", "coming", "here", "taken"
  pulled,   \* bytes taken out of the stream for the one-byte buffer
  pos,      \* bytes that the program has read past
  pending,  \* SIGURG generated and not handled
  merged,   \* did an urgent pointer come while another's SIGURG was unfinished
  missed,   \* the urgent pointer that came before F_SETOWN, or 0
  pc,       \* main's place: "setown", "select", "xset", "rset", "atmark",
            \* "read", "pause", "eof" and, after a failed Recv, "error"
  handler,  \* is sig_urg before its Recv
  ready,    \* what select or poll returned: [x, r]
  justreadoob,
  oobpos,   \* pos when the last out-of-band byte was read
  got,      \* bytes that Recv(MSG_OOB) returned
  errno     \* of the failed Recv

vars == <<version, script, writes, arrived, mark, oob, pulled, pos, pending, merged,
          missed, pc, handler, ready, justreadoob, oobpos, got, errno>>
sender == <<version, script, writes>>
stream == <<arrived, mark, pulled>>
notice == <<pending, merged, missed>>

\* The receivers; the last five are those of Chapter-24.
Versions  == {"tcprecv01", "tcprecv02", "tcprecv03", "tcprecv03p", "tcprecv04", "tcprecv05",
              "tcprecv06", "receiver", "select_receiver", "select_receiver2",
              "receiver04", "receiver05"}
Pauses    == version \in {"tcprecv05", "receiver05"}
Signalled == Pauses \/ version \in {"tcprecv01", "receiver"}
Inline    == version \in {"tcprecv04", "tcprecv06", "receiver04"}
OneShot   == version \in {"tcprecv03", "tcprecv03p", "select_receiver2"}  \* have justreadoob

Start == IF Signalled THEN "setown" ELSE IF Inline THEN "atmark" ELSE "select"

Init ==
  /\ version \in Versions
  /\ script \in {Tcpsend01, Tcpsend04, Tcpsend05, Tcpsend06}
  /\ writes = 0 /\ arrived = 0 /\ mark = 0 /\ oob = "none" /\ pulled = {} /\ pos = 0
  /\ pending = FALSE /\ merged = FALSE /\ missed = 0
  /\ pc = Start /\ handler = FALSE /\ ready = [x |-> FALSE, r |-> FALSE]
  /\ justreadoob = 0 /\ oobpos = -1 /\ got = {} /\ errno = "none"

-----------------------------------------------------------------------------
(* The sender and TCP                                                        *)

Written   == IF writes = 0 THEN 0 ELSE script[writes]
UrgentSent == {script[i] : i \in {j \in 1 .. writes : j % 2 = 0}}
Finished  == writes = Len(script) /\ arrived = Written

Write ==
  /\ writes < Len(script) /\ writes' = writes + 1
  /\ UNCHANGED <<version, script, stream, oob, pos, notice, pc, handler, ready,
                 justreadoob, oobpos, got, errno>>

\* tcprecv05 and receiver05 never read, and their receive buffer is full before tcpsend05's
\* first write is over.
WindowOpen(n) == Pauses /\ script = Tcpsend05 => n <= 1

\* A segment: data up to n and the urgent pointer m.  A new urgent pointer
\* raises SIGURG for the owner; its byte may come later; an earlier byte that
\* nobody took is gone.
Deliver ==
  /\ pc \notin {"error", "eof"}
  /\ \E n \in arrived .. Written, m \in UrgentSent \cup {mark} :
       /\ <<n, m>> # <<arrived, mark>> /\ m >= mark /\ WindowOpen(n)
       /\ \A u \in UrgentSent : u <= n => u <= m
       /\ arrived' = n /\ mark' = m
       /\ oob' = IF m > mark \/ oob = "coming"
                 THEN IF m <= n THEN "here" ELSE "coming"
                 ELSE oob
       /\ pulled' = IF oob' = "here" /\ ~Inline THEN pulled \cup {m} ELSE pulled
       /\ IF m > mark /\ Signalled
          THEN IF pc = "setown"
               THEN missed' = m /\ UNCHANGED <<pending, merged>>
               ELSE /\ pending' = TRUE /\ merged' = (merged \/ pending \/ handler)
                    /\ UNCHANGED missed
          ELSE UNCHANGED notice
       /\ UNCHANGED <<sender, pos, pc, handler, ready, justreadoob, oobpos, got, errno>>

\* Data that a read would return: up to the mark, or, from the mark on, past it.
Limit == IF pos < mark - 1 /\ mark <= arrived THEN mark - 1 ELSE arrived
InBand      == (pos + 1 .. Limit) \ pulled
EndOfStream == Finished /\ (pos + 1 .. arrived) \subseteq pulled
Exceptional == mark # 0 /\ pos < mark

-----------------------------------------------------------------------------
(* The receivers                                                             *)

\* sig_urg runs on top of main, and before main's system call returns.
MainRuns == ~pending /\ ~handler

\* Signal and Fcntl(F_SETOWN).
SetOwner ==
  /\ pc = "setown" /\ pc' = IF Pauses THEN "pause" ELSE "read"
  /\ UNCHANGED <<sender, stream, oob, pos, notice, handler, ready, justreadoob,
                 oobpos, got, errno>>

\* Recv(MSG_OOB); err_sys ends the program.  next: where it goes on.
RecvOob(next) ==
  IF oob = "here"
  THEN /\ got' = got \cup {mark} /\ oob' = "taken" /\ oobpos' = pos
       /\ pc' = next /\ UNCHANGED errno
  ELSE /\ errno' = IF oob = "coming" THEN "EWOULDBLOCK" ELSE "EINVAL"
       /\ pc' = "error" /\ UNCHANGED <<got, oob, oobpos>>

SigUrg ==
  /\ pending /\ ~handler /\ pc \notin {"error", "eof"}
  /\ handler' = TRUE /\ pending' = FALSE
  /\ UNCHANGED <<sender, stream, oob, pos, merged, missed, pc, ready, justreadoob,
                 oobpos, got, errno>>

HandlerRecv ==
  /\ handler /\ handler' = FALSE /\ RecvOob(pc)
  /\ UNCHANGED <<sender, stream, pos, notice, ready, justreadoob>>

\* With POLLRDBAND in events, or the descriptor in xset.
WatchesExceptionsMutant == TRUE
WatchesExceptions == OneShot => justreadoob = 0

Select ==
  /\ pc = "select" /\ pc' = "xset"
  /\ ready' = [x |-> Exceptional /\ WatchesExceptions,
               r |-> InBand # {} \/ EndOfStream]
  /\ ready'.x \/ ready'.r
  /\ UNCHANGED <<sender, stream, oob, pos, notice, handler, justreadoob, oobpos,
                 got, errno>>

TestXset ==
  /\ pc = "xset"
  /\ IF ready.x
     THEN RecvOob("rset") /\ justreadoob' = IF OneShot THEN 1 ELSE 0
     ELSE pc' = "rset" /\ UNCHANGED <<oob, oobpos, got, errno, justreadoob>>
  /\ UNCHANGED <<sender, stream, pos, notice, handler, ready>>

Sockatmark ==
  /\ pc = "atmark" /\ pc' = "read"
  /\ UNCHANGED <<sender, stream, oob, pos, notice, handler, ready, justreadoob,
                 oobpos, got, errno>>

\* justreadoob = 0 after Read.
AfterReadMutant == UNCHANGED justreadoob
AfterRead       == justreadoob' = 0

Loop == IF Signalled THEN "read" ELSE Start

Read ==
  /\ \/ pc = "read"
     \/ pc = "rset" /\ ready.r
  /\ MainRuns
  /\ IF InBand # {}
     THEN pc' = Loop /\ pos' = Limit /\ AfterRead
     ELSE EndOfStream /\ pc' = "eof" /\ UNCHANGED <<pos, justreadoob>>
  /\ UNCHANGED <<sender, stream, oob, notice, handler, ready, oobpos, got, errno>>

NotReadable ==
  /\ pc = "rset" /\ ~ready.r /\ pc' = "select"
  /\ UNCHANGED <<sender, stream, oob, pos, notice, handler, ready, justreadoob,
                 oobpos, got, errno>>

\* The programs.
BySignal == SetOwner \/ SigUrg \/ HandlerRecv \/ Read
BySelect == Select \/ TestXset \/ Read \/ NotReadable
AtMark   == Sockatmark \/ Read
OnlyOob  == SetOwner \/ SigUrg \/ HandlerRecv

Tcprecv01  == version = "tcprecv01" /\ BySignal
Tcprecv02  == version = "tcprecv02" /\ BySelect
Tcprecv03  == version = "tcprecv03" /\ BySelect
Tcprecv03p == version = "tcprecv03p" /\ BySelect    \* with poll
Tcprecv04  == version = "tcprecv04" /\ AtMark
Tcprecv05  == version = "tcprecv05" /\ OnlyOob
Tcprecv06  == version = "tcprecv06" /\ AtMark

UrgReceiver     == version = "receiver" /\ BySignal
SelectReceiver  == version = "select_receiver" /\ BySelect
SelectReceiver2 == version = "select_receiver2" /\ BySelect
Receiver04      == version = "receiver04" /\ AtMark
Receiver05      == version = "receiver05" /\ OnlyOob

Receiver ==
  \/ Tcprecv01 \/ Tcprecv02 \/ Tcprecv03 \/ Tcprecv03p \/ Tcprecv04 \/ Tcprecv05
  \/ Tcprecv06 \/ UrgReceiver \/ SelectReceiver \/ SelectReceiver2 \/ Receiver04
  \/ Receiver05

Next == Write \/ Deliver \/ Receiver

-----------------------------------------------------------------------------
(* Properties                                                                *)

\* The last urgent byte of the stream reaches the program as such before end of
\* file, whatever was overtaken earlier, in the select and poll loops
\* (tcprecv03.c:28-44) and by signal, unless its SIGURG came before F_SETOWN
\* (tcprecv01.c:22-23).
LastUrgentByteRead ==
  pc = "eof" /\ ~Inline => mark \in got \/ missed = mark

\* Recv(MSG_OOB) fails with EINVAL, the byte being gone, when select reports
\* the mark again before it is passed (tcprecv02.c:27); with justreadoob only
\* after normal data was read and still ended at the mark (tcprecv03.c:36-43);
\* in sig_urg only when a second urgent pointer came before the first one's
\* SIGURG was through (tcprecv01.c:42).
SecondRecvOnlyAtMark ==
  errno = "EINVAL" =>
    \/ version \in {"tcprecv02", "select_receiver"} /\ pos < mark
    \/ OneShot /\ oobpos < pos /\ pos = mark - 1
    \/ Signalled /\ merged
==============================================================================
