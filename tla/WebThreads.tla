------------------------------ MODULE WebThreads ------------------------------
(* threads/web01.c, web02.c and web03.c: a web client that reads nfiles files, *)
(* one thread per file and at most maxnconn at a time.  The versions differ in *)
(* how the main thread learns that a thread is done: thr_join of any thread,   *)
(* polling of ndone, or a condition variable.                                  *)
EXTENDS Naturals, FiniteSets, FiniteSetsExt

CONSTANTS nfiles, maxnconn

VARIABLES
  version,     \* "web01", "web02" or "web03": which program runs
  main,        \* the main thread's place
  i,           \* its loop index
  thread,      \* each file's thread: "none" before pthread_create, its place in
               \* do_get_read, "returned", "joined"
  f_flags,     \* "0", "F_CONNECTING", "F_READING", "F_DONE", "F_JOINED"
  nconn, nlefttoconn, nlefttoread, ndone,
  mutex,       \* the owner of ndone_mutex: a file, nfiles + 1 for main, or Free
  process      \* "running", "exited" or "nothing_found" (err_quit)

counts == <<nconn, nlefttoconn, nlefttoread>>
vars == <<version, main, i, thread, f_flags, counts, ndone, mutex, process>>

Files == 1 .. nfiles
Free  == 0

Init ==
  /\ version \in {"web01", "web02", "web03"}
  /\ main = "home_page" /\ i = 1
  /\ thread = [f \in Files |-> "none"] /\ f_flags = [f \in Files |-> "0"]
  /\ nconn = 0 /\ nlefttoconn = nfiles /\ nlefttoread = nfiles
  /\ ndone = 0 /\ mutex = Free /\ process = "running"

MainAt(place) == process = "running" /\ main = place
Step(f, from, to) ==
  process = "running" /\ thread[f] = from /\ thread' = [thread EXCEPT ![f] = to]
SetFlag(f, flag)  == f_flags' = [f_flags EXCEPT ![f] = flag]
ThreadGoto(f, to) == thread' = [thread EXCEPT ![f] = to]

-----------------------------------------------------------------------------
(* The main thread                                                           *)

\* home_page reads the first page before there is any thread, or ends the process.
HomePage ==
  /\ MainAt("home_page")
  /\ \/ main' = "fill" /\ UNCHANGED process
     \/ process' = "exited" /\ UNCHANGED main
  /\ UNCHANGED <<version, i, thread, f_flags, counts, ndone, mutex>>

MustFillMutant == nlefttoread > 0 /\ nconn <= maxnconn /\ nlefttoconn > 0
MustFill == nlefttoread > 0 /\ nconn < maxnconn /\ nlefttoconn > 0

\* A file no thread has been made for.  web01 and web03 mark it before the
\* thread exists, web02 after.
MarkFirstMutant == FALSE
MarkFirst == version # "web02"

\* "nlefttoconn = %d but nothing found" is err_quit.
CreateThread ==
  /\ MainAt("fill") /\ MustFill
  /\ LET unread == {f \in Files : f_flags[f] = "0"}
         f      == Min(unread)
     IN  IF unread = {}
         THEN process' = "nothing_found" /\ UNCHANGED <<main, i, thread, f_flags>>
         ELSE /\ main' = "created" /\ i' = f
              /\ ThreadGoto(f, "connect")
              /\ IF MarkFirst THEN SetFlag(f, "F_CONNECTING") ELSE UNCHANGED f_flags
              /\ UNCHANGED process
  /\ UNCHANGED <<version, counts, ndone, mutex>>

Created ==
  /\ MainAt("created") /\ main' = "fill"
  /\ IF MarkFirst THEN UNCHANGED f_flags ELSE SetFlag(i, "F_CONNECTING")
  /\ nconn' = nconn + 1
  /\ nlefttoconn' = nlefttoconn - 1
  /\ UNCHANGED <<version, i, thread, nlefttoread, ndone, mutex, process>>

Filled ==
  /\ MainAt("fill") /\ ~MustFill
  /\ \/ nlefttoread = 0 /\ process' = "exited" /\ UNCHANGED main
     \/ /\ nlefttoread > 0
        /\ main' = IF version = "web01" THEN "thr_join" ELSE "lock"
        /\ UNCHANGED process
  /\ UNCHANGED <<version, i, thread, f_flags, counts, ndone, mutex>>

\* web01: thr_join(0, ...) waits for any thread.
JoinAny ==
  /\ MainAt("thr_join") /\ main' = "fill"
  /\ \E f \in Files : thread[f] = "returned" /\ ThreadGoto(f, "joined")
  /\ nconn' = nconn - 1 /\ nlefttoread' = nlefttoread - 1
  /\ UNCHANGED <<version, i, f_flags, nlefttoconn, ndone, mutex, process>>

\* Also the end of pthread_cond_wait.
MainLock ==
  /\ MainAt("lock") \/ MainAt("relock")
  /\ main' = "test"
  /\ mutex = Free /\ mutex' = nfiles + 1
  /\ UNCHANGED <<version, i, thread, f_flags, counts, ndone, process>>

\* web03 waits while ndone == 0, web02 unlocks and polls.
TestNdone ==
  /\ MainAt("test")
  /\ \/ /\ ndone > 0
        /\ main' = "scan" /\ i' = 1 /\ UNCHANGED mutex
     \/ /\ ndone = 0
        /\ main' = IF version = "web03" THEN "cond_wait" ELSE "fill"
        /\ mutex' = Free /\ UNCHANGED i
  /\ UNCHANGED <<version, thread, f_flags, counts, ndone, process>>

SpuriousWakeup ==
  /\ MainAt("cond_wait") /\ main' = "relock"
  /\ UNCHANGED <<version, i, thread, f_flags, counts, ndone, mutex, process>>

\* if (file[i].f_flags & F_DONE)
Scan ==
  /\ MainAt("scan")
  /\ IF i > nfiles THEN main' = "fill" /\ mutex' = Free /\ UNCHANGED i
     ELSE IF f_flags[i] = "F_DONE" THEN main' = "join" /\ UNCHANGED <<i, mutex>>
     ELSE i' = i + 1 /\ UNCHANGED <<main, mutex>>
  /\ UNCHANGED <<version, thread, f_flags, counts, ndone, process>>

\* pthread_join waits, with the mutex held, until the thread has returned.
JoinableMutant(f) == TRUE
Joinable(f) == thread[f] = "returned"

Join ==
  /\ MainAt("join") /\ main' = "scan"
  /\ Joinable(i)
  /\ ThreadGoto(i, "joined") /\ SetFlag(i, "F_JOINED")
  /\ ndone' = ndone - 1
  /\ nconn' = nconn - 1 /\ nlefttoread' = nlefttoread - 1
  /\ i' = i + 1
  /\ UNCHANGED <<version, nlefttoconn, mutex, process>>

-----------------------------------------------------------------------------
(* do_get_read, one thread per file                                          *)

Connect(f) ==
  /\ Step(f, "connect", "write_get_cmd")
  /\ UNCHANGED <<version, main, i, f_flags, counts, ndone, mutex, process>>

WriteGetCmd(f) ==
  /\ Step(f, "write_get_cmd", "read")
  /\ SetFlag(f, "F_READING")
  /\ UNCHANGED <<version, main, i, counts, ndone, mutex, process>>

\* The server closes the connection; the thread closes its end.
EndOfFile(f) ==
  /\ Step(f, "read", "flag")
  /\ UNCHANGED <<version, main, i, f_flags, counts, ndone, mutex, process>>

\* Only now does web01's thread return; the others report in ndone first.
SetDone(f) ==
  /\ Step(f, "flag", IF version = "web01" THEN "returned" ELSE "lock")
  /\ SetFlag(f, "F_DONE")
  /\ UNCHANGED <<version, main, i, counts, ndone, mutex, process>>

ThreadLock(f) ==
  /\ Step(f, "lock", "count")
  /\ mutex = Free /\ mutex' = f
  /\ UNCHANGED <<version, main, i, f_flags, counts, ndone, process>>

\* Without the mutex another thread's ndone++ may be lost.
Count(f) ==
  /\ Step(f, "count", "signal")
  /\ ndone' = ndone + 1
  /\ UNCHANGED <<version, main, i, f_flags, counts, mutex, process>>

WakesMainMutant == FALSE
WakesMain == version = "web03" /\ MainAt("cond_wait")

SignalAndReturn(f) ==
  /\ Step(f, "signal", "returned")
  /\ main' = IF WakesMain THEN "relock" ELSE main
  /\ mutex' = Free
  /\ UNCHANGED <<version, i, f_flags, counts, ndone, process>>

\* Tcp_connect's err_quit, or err_sys of Writen or Read: the process ends.
ConnectionFails(f) ==
  /\ process = "running"
  /\ thread[f] \in {"connect", "write_get_cmd", "read"}
  /\ process' = "exited"
  /\ UNCHANGED <<version, main, i, thread, f_flags, counts, ndone, mutex>>

-----------------------------------------------------------------------------
(* The programs                                                              *)

Fills == HomePage \/ CreateThread \/ Created \/ Filled
Reads(f) == Connect(f) \/ WriteGetCmd(f) \/ EndOfFile(f) \/ SetDone(f)
Tells(f) == ThreadLock(f) \/ Count(f) \/ SignalAndReturn(f)

Web01Main == version = "web01" /\ (Fills \/ JoinAny)
Web02Main == version = "web02" /\ (Fills \/ MainLock \/ TestNdone \/ Scan \/ Join)
Web03Main == version = "web03" /\ (Fills \/ MainLock \/ TestNdone \/ Scan \/ Join)

Web01Thread(f) == version = "web01" /\ Reads(f)
Web02Thread(f) == version = "web02" /\ (Reads(f) \/ Tells(f))
Web03Thread(f) == version = "web03" /\ (Reads(f) \/ Tells(f))

MainStep == Web01Main \/ Web02Main \/ Web03Main
ThreadStep(f) == Web01Thread(f) \/ Web02Thread(f) \/ Web03Thread(f)

Next == \/ MainStep \/ SpuriousWakeup
        \/ \E f \in Files : ThreadStep(f) \/ ConnectionFails(f)

Spec == Init /\ [][Next]_vars

\* Every thread is scheduled, the mutex is granted to whoever keeps asking, and
\* the web server answers and closes (HTTP/1.0), unless a connection fails.
FairSpec == /\ Spec
            /\ WF_vars(MainStep) /\ SF_vars(MainLock)
            /\ \A f \in Files : WF_vars(ThreadStep(f)) /\ SF_vars(ThreadLock(f))

-----------------------------------------------------------------------------
(* Properties                                                                *)

TypeOK ==
  /\ version \in {"web01", "web02", "web03"}
  /\ main \in {"home_page", "fill", "created", "thr_join", "lock", "relock", "test",
               "cond_wait", "scan", "join"}
  /\ i \in 1 .. nfiles + 1
  /\ thread \in [Files -> {"none", "connect", "write_get_cmd", "read", "flag",
                           "lock", "count", "signal", "returned", "joined"}]
  /\ f_flags \in [Files -> {"0", "F_CONNECTING", "F_READING", "F_DONE", "F_JOINED"}]
  /\ {nconn, nlefttoconn, nlefttoread, ndone} \subseteq 0 .. nfiles
  /\ mutex \in 0 .. nfiles + 1
  /\ process \in {"running", "exited", "nothing_found"}

In(places) == {f \in Files : thread[f] \in places}
Live == {f \in Files : thread[f] \notin {"none", "joined"}}

\* The counters agree with the threads: never more than maxnconn connections,
\* each file is connected for and joined once, and "nothing found" is never found.
ConnectionCounts ==
  LET creating == IF main = "created" THEN 1 ELSE 0
  IN  /\ nconn + creating = Cardinality(Live) /\ nconn + creating <= maxnconn
      /\ nlefttoconn - creating = Cardinality(In({"none"}))
      /\ nlefttoread = nfiles - Cardinality(In({"joined"}))
      /\ process # "nothing_found"

\* ndone is the "number of terminated threads" (line 23) that main has still to
\* join, so the main thread's ndone-- never undoes another file's ndone++.
NdoneCounts ==
  version # "web01" =>
    ndone = Cardinality(In({"signal", "returned"}))

\* main waits in pthread_join for a thread that waits for the mutex main holds.
JoinDeadlock == main = "join" /\ mutex = nfiles + 1 /\ thread[i] = "lock"

\* web02 marked a file after its thread had: main scans for ever.
FlagOverwritten ==
  \E f \in Files : f_flags[f] = "F_CONNECTING" /\ thread[f] = "returned"

\* Every file is read, or the process ends in err_quit, except for two ways the
\* main thread can wait for ever: JoinDeadlock, in web02 and web03, and
\* FlagOverwritten, in web02.
ReadOrStuck ==
  \/ process = "exited"
  \/ version # "web01" /\ JoinDeadlock
  \/ version = "web02" /\ FlagOverwritten

\* F_CONNECTING is "connect() in progress" (web03.c:14), of a thread that is not
\* done: main's flags and the threads' do not overwrite each other.  Not web02.
ConnectingMeansConnecting ==
  version # "web02" => \A f \in Files : f_flags[f] = "F_CONNECTING" =>
                    thread[f] \in {"none", "connect", "write_get_cmd"}

\* What the threads and main know of each other (web03.c:14-23, 55-92): types,
\* connections, terminated threads and flags, as stated above.
Consistent == TypeOK /\ ConnectionCounts /\ NdoneCounts /\ ConnectingMeansConnecting
==============================================================================
