---------------------------- MODULE ConnectTimeout ----------------------------
(* lib/connect_timeo.c, called by advio/tcpcli01.c, and lib/connect_nonb.c,    *)
(* called by nonblock/daytimetcpcli.c: connect with a time limit, by SIGALRM   *)
(* and by select.                                                              *)
EXTENDS Naturals

VARIABLES
  version,   \* "timeo", "nonb", "nonb0": nonb without a limit, nsec = 0
  pc,        \* the next statement
  handler,   \* of SIGALRM: the caller's, "connect_alarm"
  alarm,     \* what the clock holds: "off", "caller", "nsec"
  sock,      \* "open", "closed"
  flags,     \* of sock: "blocking", "nonblocking"
  tcp,       \* "closed", "syn_sent", "established", "failed"
  n, errno,  \* of connect, getsockopt and the functions themselves
  late       \* the limit passed before connect was called

vars == <<version, pc, handler, alarm, sock, flags, tcp, n, errno, late>>

Init ==
  /\ version \in {"timeo", "nonb", "nonb0"}
  /\ pc = (IF version = "timeo" THEN "signal" ELSE "fcntl")
  /\ handler = "caller" /\ alarm \in {"off", "caller"}
  /\ sock = "open" /\ flags = "blocking" /\ tcp = "closed"
  /\ n = 0 /\ errno = "none" /\ late = FALSE

At(place)   == pc = place
Goto(place) == pc' = place

\* The SYN's answer, or none until the kernel gives up.
Tcp ==
  /\ tcp = "syn_sent" /\ sock = "open"
  /\ tcp' \in {"established", "failed"}
  /\ UNCHANGED <<version, pc, handler, alarm, sock, flags, n, errno, late>>

-----------------------------------------------------------------------------
(* connect_timeo                                                             *)

Signal ==
  /\ At("signal") /\ Goto("alarm")
  /\ handler' = "connect_alarm"
  /\ UNCHANGED <<version, alarm, sock, flags, tcp, n, errno, late>>

\* An alarm that was set is replaced, after a message.
AlarmAfterMutant == alarm
AlarmAfter == "nsec"

SetAlarm ==
  /\ At("alarm") /\ Goto("connect")
  /\ alarm' = AlarmAfter
  /\ UNCHANGED <<version, handler, sock, flags, tcp, n, errno, late>>

Connect ==
  /\ At("connect") /\ Goto("connecting")
  /\ tcp' = "syn_sent"
  /\ UNCHANGED <<version, handler, alarm, sock, flags, n, errno, late>>

\* connect returns; if it failed the socket is closed.
Connected ==
  /\ At("connecting") /\ version = "timeo"
  /\ \/ /\ tcp = "established" /\ n' = 0 /\ Goto("alarm0") /\ UNCHANGED errno
     \/ /\ tcp = "failed" /\ n' = 1 /\ errno' = "tcp" /\ Goto("close")
  /\ UNCHANGED <<version, handler, alarm, sock, flags, tcp, late>>

EintrMutant == "EINTR"
Eintr == "ETIMEDOUT"

Close ==
  /\ At("close") /\ Goto("alarm0")
  /\ sock' = "closed" /\ errno' = IF errno = "EINTR" THEN Eintr ELSE errno
  /\ UNCHANGED <<version, handler, alarm, flags, tcp, n, late>>

Alarm0 ==
  /\ At("alarm0") /\ Goto("restore")
  /\ alarm' = "off"
  /\ UNCHANGED <<version, handler, sock, flags, tcp, n, errno, late>>

Restore ==
  /\ At("restore") /\ Goto("returned")
  /\ handler' = "caller"
  /\ UNCHANGED <<version, alarm, sock, flags, tcp, n, errno, late>>

\* SIGALRM, the caller's or the limit's: connect_alarm only interrupts, and only connect.
SigAlrm ==
  /\ version = "timeo" /\ alarm # "off" /\ ~At("returned")
  /\ alarm' = "off"
  /\ IF At("connecting")
     THEN n' = 1 /\ errno' = "EINTR" /\ Goto("close") ELSE UNCHANGED <<n, errno, pc>>
  /\ late' = (late \/ (alarm = "nsec" /\ At("connect")))
  /\ UNCHANGED <<version, handler, sock, flags, tcp>>

-----------------------------------------------------------------------------
(* connect_nonb                                                              *)

Nonblock ==
  /\ At("fcntl") /\ Goto("connect_nonb")
  /\ flags' = "nonblocking"
  /\ UNCHANGED <<version, handler, alarm, sock, tcp, n, errno, late>>

\* Done at once, or the error is returned at once, or EINPROGRESS.
ConnectNonb ==
  /\ At("connect_nonb")
  /\ \/ tcp' = "established" /\ Goto("done") /\ UNCHANGED <<n, errno>>
     \/ tcp' = "failed" /\ n' = 1 /\ errno' = "tcp" /\ Goto("returned")
     \/ tcp' = "syn_sent" /\ Goto("select") /\ UNCHANGED <<n, errno>>
  /\ UNCHANGED <<version, handler, alarm, sock, flags, late>>

\* Readable or writable: getsockopt has the error, or (Solaris) fails with it.
SelectReady ==
  /\ At("select") /\ tcp \in {"established", "failed"}
  /\ \/ /\ errno' = IF tcp = "failed" THEN "tcp" ELSE errno
        /\ Goto("done") /\ UNCHANGED n
     \/ tcp = "failed" /\ n' = 1 /\ errno' = "tcp" /\ Goto("returned")
  /\ UNCHANGED <<version, handler, alarm, sock, flags, tcp, late>>

SelectTimeout ==
  /\ At("select") /\ version = "nonb"
  /\ sock' = "closed" /\ n' = 1 /\ errno' = "ETIMEDOUT" /\ Goto("returned")
  /\ UNCHANGED <<version, handler, alarm, flags, tcp, late>>

\* The flags are restored; an error closes the socket.
Done ==
  /\ At("done") /\ Goto("returned")
  /\ flags' = "blocking"
  /\ IF errno # "none" THEN sock' = "closed" /\ n' = 1 ELSE UNCHANGED <<sock, n>>
  /\ UNCHANGED <<version, handler, alarm, tcp, errno, late>>

-----------------------------------------------------------------------------
Timeo == Signal \/ SetAlarm \/ Connect \/ Connected \/ Close \/ Alarm0 \/ Restore
Nonb  == Nonblock \/ ConnectNonb \/ SelectReady \/ SelectTimeout \/ Done

Next == Tcp \/ Timeo \/ Nonb \/ SigAlrm

Spec == Init /\ [][Next]_vars

\* The process is scheduled and the alarm goes off; no network owes an answer.
FairSpec == Spec /\ WF_vars(Timeo \/ Nonb) /\ WF_vars(SigAlrm)

-----------------------------------------------------------------------------
(* Properties                                                                *)

\* What the caller may rely on (lib/connect_timeo.c:12-25, connect_nonb.c:15-52):
\* 0 with a connection on a blocking socket; else an errno that is no EINTR, and a
\* socket that is closed, but for an error of connect or getsockopt itself in
\* connect_nonb.c:17, 40; handler and clock as a caller without alarms had them.
ReturnsAsAsked ==
  pc = "returned" =>
    /\ n = 0 => sock = "open" /\ tcp = "established" /\ flags = "blocking"
    /\ n = 1 => errno \in {"tcp", "ETIMEDOUT"} /\ (sock = "closed" \/ version # "timeo")
    /\ sock = "open" /\ n = 1 => errno = "tcp" /\ tcp = "failed"
    /\ handler = "caller" /\ alarm # "nsec"

\* The limit is kept, but for a SIGALRM before connect (connect_timeo.c:13-16): then
\* the kernel's is the only one.
LimitKept == pc = "connecting" => alarm = "nsec" \/ late

TimedConnect == ReturnsAsAsked /\ LimitKept

\* A connect with a limit returns though nothing answers, unless the alarm was lost.
ConnectEnds == <>(pc = "returned" \/ late \/ version = "nonb0")
=============================================================================
