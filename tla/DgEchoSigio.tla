----------------------------- MODULE DgEchoSigio -----------------------------
(* sigio/dgecho01.c: a UDP echo server driven by SIGIO.  The signal handler  *)
(* sig_io reads every datagram the socket holds into the ring dg[QSIZE]; the *)
(* main loop sends them back.  Handler and main loop share one thread: while *)
(* the handler runs the main loop stands still, wherever it was.             *)
(* Datagrams are numbered in the order the kernel accepts them, so the       *)
(* socket's receive queue is numread+1 .. arrived.                           *)
EXTENDS Integers

CONSTANTS QSIZE,      \* #define QSIZE, the slots of the ring
          MaxDgrams   \* bound: datagrams the environment ever sends

ASSUME QSizeAssumption == QSIZE \in Nat \ {0}
ASSUME MaxDgramsAssumption == MaxDgrams \in Nat

VARIABLES
  pc,        \* the main loop's place in dg_echo
  status,    \* how err_quit or err_sys ended the process, "running" before
  running,   \* the function on top of the stack, "dg_echo" or "sig_io"
  blocked,   \* the process's signal mask
  pending,   \* the signals pending: a set, signals are not queued
  ioflags,   \* FIOASYNC: an arrival raises SIGIO; FIONBIO: recvfrom on an
             \* empty socket returns
  dg, iget, iput, nqueue,
  nread,     \* sig_io's local count
  arrived,   \* datagrams accepted by the kernel
  numread,   \* datagrams read by sig_io
  sent,      \* the datagram last passed to sendto, 0 at the start
  early      \* datagrams accepted before the socket was set up

mainVars   == <<pc, blocked, iget, sent>>
setupVars  == <<ioflags, early>>
ringVars   == <<dg, iput, numread, nread>>
vars == <<mainVars, setupVars, ringVars, status, running, pending, nqueue, arrived>>

Slots  == 0 .. QSIZE - 1
MainPC == {"fioasync", "fionbio", "mask", "test", "suspend", "sigsuspend",
           "unblock", "sendto", "advance", "block", "decrement"}

\* ++i, back to 0 at QSIZE
SuccMutant(i) == IF i + 1 > QSIZE THEN 0 ELSE i + 1
Succ(i) == IF i + 1 >= QSIZE THEN 0 ELSE i + 1

\* Static data is zero; the rings' buffers are allocated and SIGIO's handler
\* is installed, FIOASYNC is not set yet.
Init ==
  /\ pc = "fioasync" /\ status = "running" /\ running = "dg_echo"
  /\ blocked = {} /\ pending = {} /\ ioflags = {}
  /\ dg = [i \in Slots |-> 0]
  /\ iget = 0 /\ iput = 0 /\ nqueue = 0 /\ nread = 0
  /\ arrived = 0 /\ numread = 0 /\ sent = 0 /\ early = 0

\* The main loop runs: the process has not ended and is not in the handler.
MainAt(place) == status = "running" /\ running = "dg_echo" /\ pc = place
InHandler     == status = "running" /\ running = "sig_io"

Goto(place) == pc' = place

\* sigsuspend waits with SIGIO unblocked, the main loop's own mask blocks it.
CanDeliverMutant == "SIGIO" \notin blocked
CanDeliver == "SIGIO" \notin blocked \/ pc = "sigsuspend"

FullMutant == nqueue > QSIZE
Full == nqueue >= QSIZE

\* Where the main loop is once sigsuspend has returned: the while tests again.
WakeMutant == "unblock"
Wake == "test"

-----------------------------------------------------------------------------
(* The kernel                                                                *)

Arrive ==
  /\ arrived < MaxDgrams
  /\ arrived' = arrived + 1
  /\ pending' = IF "FIOASYNC" \in ioflags /\ status = "running"
                THEN {"SIGIO"} ELSE pending
  /\ early' = IF "FIONBIO" \in ioflags THEN early ELSE early + 1
  /\ UNCHANGED <<status, mainVars, ioflags, ringVars, running, nqueue>>

\* A pending, unblocked SIGIO interrupts the main loop and runs sig_io with
\* SIGIO masked.  In sigsuspend SIGIO is unblocked; the call returns when the
\* handler has.
Deliver ==
  /\ status = "running" /\ running = "dg_echo" /\ "SIGIO" \in pending
  /\ CanDeliver
  /\ pending' = {}
  /\ running' = "sig_io"
  /\ nread' = 0
  /\ UNCHANGED <<status, mainVars, setupVars, dg, iput, numread, nqueue,
                 arrived>>

\* SIGHUP: sig_hup only prints the histogram, but it ends a sigsuspend.  (With
\* a SIGIO pending too, the kernel runs both handlers before the call returns,
\* which is Deliver.)
Hangup ==
  /\ MainAt("sigsuspend") /\ pending = {}
  /\ Goto(Wake)
  /\ UNCHANGED <<status, blocked, iget, sent, setupVars, ringVars, running,
                 pending, nqueue, arrived>>

-----------------------------------------------------------------------------
(* sig_io                                                                    *)

\* The check comes before the read, whether or not there is anything to read.
HandlerOverflow ==
  /\ InHandler
  /\ Full
  /\ status' = "overflow"
  /\ UNCHANGED <<mainVars, setupVars, ringVars, running, pending, nqueue,
                 arrived>>

HandlerRead ==
  /\ InHandler
  /\ ~Full
  /\ numread < arrived
  /\ dg' = [dg EXCEPT ![iput] = numread + 1]
  /\ numread' = numread + 1
  /\ nread' = nread + 1
  /\ nqueue' = nqueue + 1
  /\ iput' = Succ(iput)
  /\ UNCHANGED <<status, mainVars, setupVars, running, pending, arrived>>

\* EWOULDBLOCK: on a socket that still blocks, recvfrom waits instead.
HandlerReturn ==
  /\ InHandler
  /\ ~Full
  /\ numread = arrived
  /\ "FIONBIO" \in ioflags
  /\ running' = "dg_echo"
  /\ pc' = IF pc = "sigsuspend" THEN Wake ELSE pc
  /\ UNCHANGED <<status, blocked, iget, sent, setupVars, ringVars, pending,
                 nqueue, arrived>>

\* Any other errno of recvfrom.
HandlerError ==
  /\ InHandler
  /\ ~Full
  /\ status' = "error"
  /\ UNCHANGED <<mainVars, setupVars, ringVars, running, pending, nqueue,
                 arrived>>

-----------------------------------------------------------------------------
(* dg_echo                                                                   *)

SetAsync ==
  /\ MainAt("fioasync") /\ Goto("fionbio")
  /\ ioflags' = ioflags \cup {"FIOASYNC"}
  /\ UNCHANGED <<status, blocked, iget, sent, early, ringVars, running,
                 pending, nqueue, arrived>>

SetNonblocking ==
  /\ MainAt("fionbio") /\ Goto("mask")
  /\ ioflags' = ioflags \cup {"FIONBIO"}
  /\ UNCHANGED <<status, blocked, iget, sent, early, ringVars, running,
                 pending, nqueue, arrived>>

BlockFirst ==
  /\ MainAt("mask") /\ Goto("test")
  /\ blocked' = {"SIGIO"}
  /\ UNCHANGED <<status, iget, sent, setupVars, ringVars, running, pending,
                 nqueue, arrived>>

\* while (nqueue == 0)
Test ==
  /\ MainAt("test")
  /\ Goto(IF nqueue = 0 THEN "suspend" ELSE "unblock")
  /\ UNCHANGED <<status, blocked, iget, sent, setupVars, ringVars, running,
                 pending, nqueue, arrived>>

\* sigsuspend(&zeromask): SIGIO is unblocked only from here on.
Suspend ==
  /\ MainAt("suspend") /\ Goto("sigsuspend")
  /\ UNCHANGED <<status, blocked, iget, sent, setupVars, ringVars, running,
                 pending, nqueue, arrived>>

\* sigprocmask delivers a pending SIGIO before it returns.
Unblock ==
  /\ MainAt("unblock") /\ Goto("sendto")
  /\ blocked' = {}
  /\ running' = IF pending = {} THEN "dg_echo" ELSE "sig_io"
  /\ pending' = {}
  /\ nread' = IF pending = {} THEN nread ELSE 0
  /\ UNCHANGED <<status, iget, sent, setupVars, dg, iput, numread, nqueue,
                 arrived>>

Send ==
  /\ MainAt("sendto") /\ Goto("advance")
  /\ sent' = dg[iget]
  /\ UNCHANGED <<status, blocked, iget, setupVars, ringVars, running, pending,
                 nqueue, arrived>>

\* Sendto is err_sys on any failure, EWOULDBLOCK of the nonblocking socket
\* included.
SendFails ==
  /\ MainAt("sendto") /\ status' = "error"
  /\ UNCHANGED <<mainVars, setupVars, ringVars, running, pending, nqueue,
                 arrived>>

AdvanceMutant ==
  /\ MainAt("advance") /\ Goto("block")
  /\ iget' = Succ(iget)
  /\ nqueue' = nqueue - 1
  /\ UNCHANGED <<status, blocked, sent, setupVars, ringVars, running, pending,
                 arrived>>
Advance ==
  /\ MainAt("advance") /\ Goto("block")
  /\ iget' = Succ(iget)
  /\ UNCHANGED <<status, blocked, sent, setupVars, ringVars, running, pending,
                 nqueue, arrived>>

BlockMutant ==
  /\ MainAt("block") /\ Goto("decrement")
  /\ UNCHANGED <<status, blocked, iget, sent, setupVars, ringVars, running,
                 pending, nqueue, arrived>>

Block ==
  /\ MainAt("block") /\ Goto("decrement")
  /\ blocked' = {"SIGIO"}
  /\ UNCHANGED <<status, iget, sent, setupVars, ringVars, running, pending,
                 nqueue, arrived>>

Decrement ==
  /\ MainAt("decrement") /\ Goto("test")
  /\ nqueue' = nqueue - 1
  /\ UNCHANGED <<status, blocked, iget, sent, setupVars, ringVars, running,
                 pending, arrived>>

-----------------------------------------------------------------------------
Handler == HandlerOverflow \/ HandlerRead \/ HandlerReturn \/ HandlerError
Setup   == SetAsync \/ SetNonblocking \/ BlockFirst
Loop    == Test \/ Suspend \/ Unblock \/ Send \/ SendFails \/ Advance
             \/ Block \/ Decrement

Next == Arrive \/ Deliver \/ Hangup \/ Handler \/ Setup \/ Loop

\* The kernel schedules the process and delivers signals; nobody has to send
\* datagrams, nor SIGHUP, and no call has to fail.
Fairness == /\ WF_vars(Deliver)
            /\ WF_vars(HandlerOverflow \/ HandlerRead \/ HandlerReturn)
            /\ WF_vars(Setup)
            /\ WF_vars(Test \/ Suspend \/ Unblock \/ Send \/ Advance \/ Block
                        \/ Decrement)

Spec == Init /\ [][Next]_vars
FairSpec == Spec /\ Fairness

-----------------------------------------------------------------------------
(* Properties                                                                *)

TypeOK ==
  /\ pc \in MainPC
  /\ status \in {"running", "overflow", "error"}
  /\ running \in {"dg_echo", "sig_io"}
  /\ blocked \subseteq {"SIGIO"} /\ pending \subseteq {"SIGIO"}
  /\ ioflags \subseteq {"FIOASYNC", "FIONBIO"}
  /\ dg \in [Slots -> Nat]
  /\ iget \in Slots /\ iput \in Slots /\ nqueue \in Nat /\ nread \in Nat
  /\ arrived \in Nat /\ numread \in Nat /\ sent \in Nat /\ early \in Nat

\* sendto has returned for the datagram the main loop is on, nqueue still
\* counts it.
Uncounted == IF pc \in {"advance", "block", "decrement"} THEN 1 ELSE 0

\* nqueue is the "# on queue for main loop to process" (line 20): read and
\* not yet sent, never more than the ring holds.
QueueCount ==
  /\ nqueue = numread - sent + Uncounted
  /\ nqueue <= QSIZE

\* A datagram that was read stays in the ring until it is sent: the handler,
\* which interrupts the main loop between sendto, ++iget and nqueue--, never
\* reads into a slot whose datagram is still to be sent.
NotOverwritten == \A n \in sent + 1 .. numread : \E i \in Slots : dg[i] = n

\* The main loop does not sleep on a datagram: when it waits in sigsuspend the
\* ring is empty, and a datagram in the socket that arrived once the socket
\* was set up has SIGIO pending.
NoLostWakeup ==
  pc = "sigsuspend" /\ running = "dg_echo"
    => /\ nqueue = 0
       /\ numread < arrived /\ early < arrived => "SIGIO" \in pending

\* dg_echo sends every datagram back once and in the order of arrival.
Echo == INSTANCE FifoService WITH
          accepted <- arrived, served <- sent,
          server <- IF status = "running" THEN "running" ELSE "ended"
EchoesInOrder == Echo!ServiceSpec

\* Every datagram the kernel accepts after FIONBIO is sent back, unless the
\* server gives up with err_quit or err_sys.
EventuallyEchoed ==
  \A n \in 1 .. MaxDgrams :
    "FIONBIO" \in ioflags /\ early < n /\ n <= arrived ~> sent >= n \/ status # "running"

\* The ring (dgecho01.c:57-73, 86-104): types, its count, and no slot is
\* overwritten before it is sent.
RingSound == TypeOK /\ QueueCount /\ NotOverwritten
==============================================================================
