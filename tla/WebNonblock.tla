----------------------------- MODULE WebNonblock -----------------------------
(* nonblock/web.c: the web client of WebThreads in one thread, with            *)
(* nonblocking connects and select.  The server and TCP are external: a        *)
(* connect ends well or badly, a connection has data, an end or a reset.       *)
EXTENDS Integers, FiniteSets, FiniteSetsExt

CONSTANTS Nfiles, Maxnconn

VARIABLES
  pc,        \* "home_page", "fill", "select", "scan", "exit", or the reason for
             \* an early end: "nothing_found", "connect_error", "writen_error",
             \* "read_error"
  i,         \* loop index over files
  f_flags,   \* "0", "F_CONNECTING", "F_READING", "F_DONE"
  socket,    \* the state of each file's socket: "none", "connecting", "failed",
             \* "idle", "data", "ended", "reset", "closed"
  rset, wset, \* files whose descriptors are in the sets
  rs, ws,    \* copies that select has filled
  nconn, nlefttoconn, nlefttoread

vars == <<pc, i, f_flags, socket, rset, wset, rs, ws, nconn, nlefttoconn, nlefttoread>>
counters == <<nconn, nlefttoconn, nlefttoread>>
fdsets   == <<rset, wset, rs, ws>>

Files == 1 .. Nfiles

Init ==
  /\ pc = "home_page" /\ i = 1
  /\ f_flags = [f \in Files |-> "0"] /\ socket = [f \in Files |-> "none"]
  /\ rset = {} /\ wset = {} /\ rs = {} /\ ws = {}
  /\ nconn = 0 /\ nlefttoconn = Nfiles /\ nlefttoread = Nfiles

\* The first page is read with a blocking connection of its own.
HomePage ==
  /\ pc = "home_page" /\ pc' \in {"fill", "connect_error"}
  /\ UNCHANGED <<i, f_flags, socket, fdsets, counters>>

\* Writen of the GET command, then F_READING.
WriteGetCmd(f) ==
  f_flags' = [f_flags EXCEPT ![f] = "F_READING"] /\ rset' = rset \cup {f}

MustFillMutant == nconn <= Maxnconn /\ nlefttoconn > 0
MustFill == nconn < Maxnconn /\ nlefttoconn > 0

\* start_connect: in progress, done at once, or another error.
StartConnect(f) ==
  \/ /\ f_flags' = [f_flags EXCEPT ![f] = "F_CONNECTING"]
     /\ socket' = [socket EXCEPT ![f] = "connecting"]
     /\ rset' = rset \cup {f} /\ wset' = wset \cup {f}
     /\ UNCHANGED <<pc, i>>
  \/ /\ socket' = [socket EXCEPT ![f] = "idle"]
     /\ WriteGetCmd(f) /\ UNCHANGED <<pc, i, wset>>
  \/ pc' = "connect_error" /\ UNCHANGED <<f_flags, socket, rset, wset, i>>

Fill ==
  /\ pc = "fill" /\ nlefttoread > 0 /\ MustFill
  /\ LET unread == {f \in Files : f_flags[f] = "0"}
     IN  IF unread = {}
         THEN pc' = "nothing_found" /\ UNCHANGED <<i, f_flags, socket, rset, wset, counters>>
         ELSE /\ StartConnect(Min(unread))
              /\ nconn' = nconn + 1 /\ nlefttoconn' = nlefttoconn - 1
              /\ UNCHANGED nlefttoread
  /\ UNCHANGED <<rs, ws>>

Filled ==
  /\ pc = "fill" /\ ~(nlefttoread > 0 /\ MustFill)
  /\ pc' = IF nlefttoread > 0 THEN "select" ELSE "exit"
  /\ UNCHANGED <<i, f_flags, socket, fdsets, counters>>

\* A failed connect makes its socket readable and writable.
Readable(f) == socket[f] \in {"failed", "data", "ended", "reset"}
Writable(f) == socket[f] \notin {"none", "connecting", "closed"}

Select ==
  /\ pc = "select" /\ pc' = "scan" /\ i' = 1
  /\ rs' = {f \in rset : Readable(f)} /\ ws' = {f \in wset : Writable(f)}
  /\ rs' \cup ws' # {}
  /\ UNCHANGED <<f_flags, socket, rset, wset, counters>>

Scanning(f) == pc = "scan" /\ i = f
NextFile == i' = i + 1

\* The error of a failed connect is reported, and then the socket is treated as
\* connected.
ConnectDone(f) ==
  /\ Scanning(f) /\ f_flags[f] = "F_CONNECTING" /\ f \in rs \cup ws
  /\ wset' = wset \ {f}
  /\ IF socket[f] \in {"failed", "reset"}
     THEN pc' = "writen_error" /\ UNCHANGED <<f_flags, rset, i>>
     ELSE WriteGetCmd(f) /\ NextFile /\ UNCHANGED pc
  /\ UNCHANGED <<socket, rs, ws, counters>>

\* Close, F_DONE, FD_CLR, both counters.
FileDoneMutant(f) ==
  /\ f_flags' = [f_flags EXCEPT ![f] = "F_DONE"] /\ rset' = rset \ {f}
  /\ nlefttoread' = nlefttoread - 1 /\ UNCHANGED <<nconn, nlefttoconn>>
FileDone(f) ==
  /\ f_flags' = [f_flags EXCEPT ![f] = "F_DONE"] /\ rset' = rset \ {f}
  /\ nconn' = nconn - 1 /\ nlefttoread' = nlefttoread - 1 /\ UNCHANGED nlefttoconn

Read(f) ==
  /\ Scanning(f) /\ f_flags[f] = "F_READING" /\ f \in rs
  /\ CASE socket[f] = "data"  -> /\ socket' = [socket EXCEPT ![f] = "idle"] /\ NextFile
                                 /\ UNCHANGED <<pc, f_flags, rset, counters>>
       [] socket[f] = "ended" -> /\ socket' = [socket EXCEPT ![f] = "closed"] /\ NextFile
                                 /\ FileDone(f) /\ UNCHANGED pc
       [] OTHER               -> /\ pc' = "read_error"
                                 /\ UNCHANGED <<i, socket, f_flags, rset, counters>>
  /\ UNCHANGED <<wset, rs, ws>>

Pass(f) ==
  /\ Scanning(f) /\ NextFile
  /\ ~(f_flags[f] = "F_CONNECTING" /\ f \in rs \cup ws)
  /\ ~(f_flags[f] = "F_READING" /\ f \in rs)
  /\ UNCHANGED <<pc, f_flags, socket, fdsets, counters>>

ScanEnds ==
  /\ pc = "scan" /\ i > Nfiles /\ pc' = "fill" /\ i' = 1
  /\ UNCHANGED <<f_flags, socket, fdsets, counters>>

\* TCP and the server; every connect is answered or times out, every page sent.
Change(f, from, to) ==
  /\ socket[f] \in from /\ \E s \in to : socket' = [socket EXCEPT ![f] = s]
  /\ UNCHANGED <<pc, i, f_flags, fdsets, counters>>
Answer(f) == Change(f, {"connecting"}, {"idle", "failed"})
Finish(f) == f_flags[f] = "F_READING" /\ Change(f, {"idle"}, {"ended"})
Data(f)   == f_flags[f] = "F_READING" /\ Change(f, {"idle"}, {"data"})
ResetByServer(f) == Change(f, {"idle", "data", "ended"}, {"reset"})

Step == \/ HomePage \/ Fill \/ Filled \/ Select \/ ScanEnds
        \/ \E f \in Files : ConnectDone(f) \/ Read(f) \/ Pass(f)
Next == Step \/ \E f \in Files : Answer(f) \/ Finish(f) \/ Data(f) \/ ResetByServer(f)

-----------------------------------------------------------------------------
(* Properties                                                                *)

With(flags) == Cardinality({f \in Files : f_flags[f] \in flags})

\* The counters that steer the loop agree with the files (web.c:33-43, 70-74),
\* and err_quit for "nothing found" is never reached.  With fewer connections
\* than allowed the client is not stuck in select: some socket is watched.
CountersAgree ==
  /\ pc \in {"fill", "select", "scan"} =>
       /\ nconn = With({"F_CONNECTING", "F_READING"}) /\ nconn <= Maxnconn
       /\ nlefttoconn = With({"0"}) /\ nlefttoread = Nfiles - With({"F_DONE"})
       /\ rset = {f \in Files : f_flags[f] \in {"F_CONNECTING", "F_READING"}}
  /\ pc # "nothing_found"

\* The client ends; normally only with every file read to its end.  A failed
\* connect ends it too, though err_ret (web.c:59) only reports it.
Ended == pc = "exit" /\ f_flags = [f \in Files |-> "F_DONE"]
EndsWithEveryFile ==
  \/ Ended
  \/ pc \in {"connect_error", "writen_error", "read_error"}
==============================================================================
