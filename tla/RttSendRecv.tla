----------------------------- MODULE RttSendRecv -----------------------------
(* rtt/dg_send_recv.c with lib/rtt.c: a UDP client that numbers its requests,  *)
(* retransmits them when SIGALRM says that the answer is late, and gives up    *)
(* after RTT_MAXNREXMT retransmissions.  The network loses, delays, reorders   *)
(* and duplicates.                                                             *)
EXTENDS Naturals, Sequences

CONSTANTS RTT_RXTMIN, RTT_RXTMAX, RTT_MAXNREXMT,
          MaxCalls,    \* bound: lines that dg_cli sends
          SO_RCVBUF    \* bound: datagrams the socket holds

ASSUME RttAssumption ==
  /\ RTT_RXTMIN \in Nat \ {0} /\ RTT_RXTMAX \in Nat /\ RTT_RXTMIN <= RTT_RXTMAX
  /\ RTT_MAXNREXMT \in Nat
ASSUME BoundAssumption == MaxCalls \in Nat /\ SO_RCVBUF \in Nat

VARIABLES
  pc,         \* where dg_send_recv is: "idle" outside it; "failed" after err_quit;
              \* "undefined" after a jump to a frame that has returned
  seq,        \* sendhdr.seq
  rto,        \* rttinfo.rtt_rto, in seconds
  nrexmt,     \* rttinfo.rtt_nrexmt
  timer,      \* "set" by alarm, or "off"
  blocked,    \* {"SIGALRM"} while it is blocked
  jmpbuf,     \* the call whose frame jmpbuf belongs to, 0 before any
  recvhdr,    \* the seq of the last datagram read
  rcvbuf,     \* the datagrams in the socket: the seq of each, 0 for a short one
  requests,   \* the seq of every request sent
  timeouts,   \* of the request under way: rtt_nrexmt and rtt_rto each time it was sent
  answered    \* the calls that have returned an answer

rtt   == <<rto, nrexmt>>
alarm == <<timer, blocked>>
sent  == <<requests, timeouts>>
vars  == <<pc, seq, rtt, alarm, jmpbuf, recvhdr, rcvbuf, sent, answered>>

Init ==
  /\ pc = "idle" /\ seq = 0
  /\ rto \in RTT_RXTMIN .. RTT_RXTMAX /\ nrexmt = 0
  /\ timer = "off" /\ blocked = {} /\ jmpbuf = 0
  /\ recvhdr = 0 /\ rcvbuf = <<>> /\ requests = {} /\ timeouts = {} /\ answered = {}

Goto(from, to) == pc = from /\ pc' = to

-----------------------------------------------------------------------------
(* The network and dg_echo at its other end                                  *)

\* An answer to any request arrives, any number of times, or a stray datagram.
Deliver ==
  /\ Len(rcvbuf) < SO_RCVBUF
  /\ \E d \in requests \union {0} : rcvbuf' = Append(rcvbuf, d)
  /\ UNCHANGED <<pc, seq, rtt, alarm, jmpbuf, recvhdr, sent, answered>>

-----------------------------------------------------------------------------
(* dg_send_recv                                                              *)

Call ==
  /\ Goto("idle", "send") /\ seq < MaxCalls
  /\ seq' = seq + 1
  /\ nrexmt' = 0
  /\ timeouts' = {}
  /\ UNCHANGED <<rto, alarm, jmpbuf, recvhdr, rcvbuf, requests, answered>>

Send ==
  /\ Goto("send", "alarm")
  /\ requests' = requests \union {seq}
  /\ timeouts' = timeouts \union {[nrexmt |-> nrexmt, rto |-> rto]}
  /\ UNCHANGED <<seq, rtt, alarm, jmpbuf, recvhdr, rcvbuf, answered>>

\* alarm(rtt_start(&rttinfo)); alarm(0) would set no timer.
StartAlarm ==
  /\ Goto("alarm", "sigsetjmp")
  /\ timer' = IF rto > 0 THEN "set" ELSE "off"
  /\ UNCHANGED <<seq, rtt, blocked, jmpbuf, recvhdr, rcvbuf, sent, answered>>

SetJmp ==
  /\ Goto("sigsetjmp", "recvmsg")
  /\ jmpbuf' = seq
  /\ UNCHANGED <<seq, rtt, alarm, recvhdr, rcvbuf, sent, answered>>

MatchesMutant == Head(rcvbuf) # 0
Matches == Head(rcvbuf) = seq

Recv ==
  /\ pc = "recvmsg" /\ rcvbuf # <<>>
  /\ recvhdr' = Head(rcvbuf) /\ rcvbuf' = Tail(rcvbuf)
  /\ pc' = IF Matches THEN "stop_alarm" ELSE "recvmsg"
  /\ UNCHANGED <<seq, rtt, alarm, jmpbuf, sent, answered>>

AlarmZeroMutant == UNCHANGED timer
AlarmZero == timer' = "off"

StopAlarm ==
  /\ Goto("stop_alarm", "rtt_stop")
  /\ AlarmZero
  /\ UNCHANGED <<seq, rtt, blocked, jmpbuf, recvhdr, rcvbuf, sent, answered>>

\* The new estimate: rtt_minmax keeps it between the limits.
RttStop ==
  /\ Goto("rtt_stop", "idle")
  /\ rto' \in RTT_RXTMIN .. RTT_RXTMAX
  /\ answered' = answered \union {recvhdr}
  /\ UNCHANGED <<seq, nrexmt, alarm, jmpbuf, recvhdr, rcvbuf, sent>>

-----------------------------------------------------------------------------
(* SIGALRM                                                                   *)

InCall == pc \in {"send", "alarm", "sigsetjmp", "recvmsg", "stop_alarm", "rtt_stop"}

\* sigsetjmp saved the mask: siglongjmp unblocks SIGALRM, which is blocked while
\* its handler runs.
RestoreMaskMutant == blocked' = {"SIGALRM"}
RestoreMask == blocked' = {}

\* The timer expires at any time, and sig_alrm jumps out of whatever it interrupts.
SigAlrm ==
  /\ timer = "set" /\ blocked = {} /\ pc # "undefined" /\ pc # "failed"
  /\ timer' = "off"
  /\ RestoreMask
  /\ pc' = IF InCall /\ jmpbuf = seq THEN "rtt_timeout" ELSE "undefined"
  /\ UNCHANGED <<seq, rtt, jmpbuf, recvhdr, rcvbuf, sent, answered>>

GiveUpMutant == nrexmt > RTT_MAXNREXMT
GiveUp == nrexmt + 1 > RTT_MAXNREXMT

\* -1 is err_quit in Dg_send_recv.
RttTimeout ==
  /\ pc = "rtt_timeout"
  /\ rto' = 2 * rto
  /\ nrexmt' = nrexmt + 1
  /\ pc' = IF GiveUp THEN "failed" ELSE "send"
  /\ UNCHANGED <<seq, alarm, jmpbuf, recvhdr, rcvbuf, sent, answered>>

-----------------------------------------------------------------------------
Client == \/ Call \/ Send \/ StartAlarm \/ SetJmp \/ Recv \/ StopAlarm \/ RttStop
          \/ RttTimeout
Next == Deliver \/ Client \/ SigAlrm

Spec == Init /\ [][Next]_vars

\* The process is scheduled and timers expire.  Nothing is asked of the network.
FairSpec == Spec /\ WF_vars(Client) /\ WF_vars(SigAlrm)

-----------------------------------------------------------------------------
(* Properties                                                                *)

Places == {"idle", "send", "alarm", "sigsetjmp", "recvmsg", "stop_alarm",
           "rtt_stop", "rtt_timeout", "failed", "undefined"}

TypeOK ==
  /\ pc \in Places
  /\ seq \in Nat /\ rto \in Nat \ {0} /\ nrexmt \in 0 .. RTT_MAXNREXMT + 1
  /\ timer \in {"off", "set"} /\ blocked \subseteq {"SIGALRM"}
  /\ jmpbuf \in 0 .. seq /\ recvhdr \in 0 .. seq
  /\ rcvbuf \in Seq(0 .. seq)
  /\ requests \subseteq 1 .. seq
  /\ timeouts \subseteq [nrexmt : 0 .. RTT_MAXNREXMT, rto : Nat \ {0}]
  /\ answered \subseteq 1 .. seq

\* Answers are not mixed up: every call but the last has returned the answer to
\* its own request, whatever late, repeated and stray datagrams were read.
AnswersInStep ==
  /\ pc = "idle" => answered = 1 .. seq
  /\ pc \notin {"idle", "undefined"} => answered = 1 .. seq - 1
  /\ pc \in {"stop_alarm", "rtt_stop"} => recvhdr = seq

\* No timer outlives its call: the handler never jumps into a frame that is gone,
\* except when the timer expires before sigsetjmp (lines 63 to 68).
NoStrayAlarm ==
  /\ pc \in {"idle", "rtt_stop", "rtt_timeout", "send", "alarm", "failed"} => timer = "off"
  /\ pc \in {"recvmsg", "stop_alarm"} => jmpbuf = seq

\* "max # times to retransmit": a request is sent once and at most RTT_MAXNREXMT
\* times again; the first timeout is between the limits and each is twice the one
\* before.
BoundedBackoff ==
  \A r \in timeouts :
    /\ r.nrexmt <= RTT_MAXNREXMT
    /\ r.nrexmt = 0 => r.rto \in RTT_RXTMIN .. RTT_RXTMAX
    /\ r.nrexmt > 0 =>
         \E q \in timeouts : q.nrexmt + 1 = r.nrexmt /\ r.rto = 2 * q.rto

\* Whatever the network does, a call returns an answer or gives up.
Returns == \A n \in 1 .. MaxCalls :
             seq = n ~> (n \in answered \/ pc \in {"failed", "undefined"})
==============================================================================
