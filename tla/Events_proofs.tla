---------------------------- MODULE Events_proofs ----------------------------
(* Programs that wait for what may not come: answers, timers and retransmissions *)
(* of the reliable UDP client, for any number of calls, any limits of its timer *)
(* and any network; urgent data and heartbeats (UrgentDataMeans).               *)
EXTENDS MCEvents, SequenceTheorems, FiniteSetTheorems, TLAPS

\* A request is under way once there was a first call, SIGALRM is not blocked
\* outside its handler, and only the last expiry goes beyond the limit.
CallInv ==
  /\ pc # "idle" => seq > 0
  /\ blocked = {}
  /\ pc # "failed" => nrexmt <= RTT_MAXNREXMT

IInv == TypeOK /\ CallInv /\ AnswersInStep /\ NoStrayAlarm

\* Nothing has been sent, and no timer is running.
LEMMA InitInv == Init => IInv
<1> SUFFICES ASSUME Init PROVE IInv
  OBVIOUS
<1>1. TypeOK
  BY RttAssumption DEF Init, TypeOK, Places
<1> QED
  BY <1>1, RttAssumption DEF IInv, Init, CallInv, AnswersInStep, NoStrayAlarm

-----------------------------------------------------------------------------
(* Types and limits                                                          *)

\* The first datagram of the socket, and the others.
LEMMA FirstDatagram ==
  ASSUME NEW S, NEW q \in Seq(S), q # <<>>
  PROVE  Head(q) \in S /\ Tail(q) \in Seq(S)
  OBVIOUS

\* Sequence numbers never run ahead of the calls, nor the counter of
\* retransmissions beyond the limit, except to stop there.
LEMMA TypingStep == IInv /\ [Next]_vars => TypeOK' /\ CallInv'
<1> SUFFICES ASSUME IInv, [Next]_vars PROVE TypeOK' /\ CallInv'
  OBVIOUS
<1> USE RttAssumption DEF IInv, Goto, rtt, sent, alarm, Places
<1>1. CASE Deliver
  <2> PICK d \in requests \union {0} : rcvbuf' = Append(rcvbuf, d)
    BY <1>1 DEF Deliver
  <2>1. d \in 0 .. seq
    BY DEF TypeOK
  <2>2. rcvbuf' \in Seq(0 .. seq)
    BY <2>1 DEF TypeOK
  <2> QED
    BY <1>1, <2>2 DEF Deliver, TypeOK, CallInv
<1>2. CASE Call
  <2>1. seq' = seq + 1 /\ 0 .. seq \subseteq 0 .. seq' /\ 1 .. seq \subseteq 1 .. seq'
    BY <1>2 DEF Call, TypeOK
  <2>2. rcvbuf' \in Seq(0 .. seq') /\ jmpbuf' \in 0 .. seq' /\ recvhdr' \in 0 .. seq'
    BY <1>2, <2>1 DEF Call, TypeOK
  <2>3. requests' \subseteq 1 .. seq' /\ timeouts' \subseteq [nrexmt : 0 .. RTT_MAXNREXMT, rto : Nat \ {0}]
    BY <1>2, <2>1 DEF Call, TypeOK
  <2>4. answered' \subseteq 1 .. seq'
    BY <1>2, <2>1 DEF Call, TypeOK
  <2> QED
    BY <1>2, <2>1, <2>2, <2>3, <2>4 DEF Call, TypeOK, CallInv
<1>3. CASE Send
  <2>1. [nrexmt |-> nrexmt, rto |-> rto] \in [nrexmt : 0 .. RTT_MAXNREXMT, rto : Nat \ {0}]
        /\ seq \in 1 .. seq
    BY <1>3 DEF Send, TypeOK, CallInv
  <2>2. requests' \subseteq 1 .. seq /\ timeouts' \subseteq [nrexmt : 0 .. RTT_MAXNREXMT, rto : Nat \ {0}]
    BY <1>3, <2>1 DEF Send, TypeOK
  <2> QED
    BY <1>3, <2>2 DEF Send, TypeOK, CallInv
<1>4. CASE StartAlarm \/ SetJmp \/ StopAlarm
  <2>1. timer' \in {"off", "set"} /\ jmpbuf' \in 0 .. seq
    BY <1>4 DEF StartAlarm, SetJmp, StopAlarm, AlarmZero, TypeOK
  <2>2. pc' \in {"sigsetjmp", "recvmsg", "rtt_stop"} /\ pc \notin {"failed", "idle"}
    BY <1>4 DEF StartAlarm, SetJmp, StopAlarm
  <2>3. UNCHANGED <<seq, rto, nrexmt, blocked, recvhdr, rcvbuf, requests, timeouts, answered>>
    BY <1>4 DEF StartAlarm, SetJmp, StopAlarm
  <2> QED
    BY <2>1, <2>2, <2>3 DEF TypeOK, CallInv
<1>5. CASE Recv
  <2>1. recvhdr' \in 0 .. seq /\ rcvbuf' \in Seq(0 .. seq)
    <3>1. rcvbuf \in Seq(0 .. seq) /\ rcvbuf # <<>>
      BY <1>5 DEF Recv, TypeOK
    <3>2. Head(rcvbuf) \in 0 .. seq /\ Tail(rcvbuf) \in Seq(0 .. seq)
      BY <3>1, FirstDatagram
    <3> QED
      BY <1>5, <3>2 DEF Recv
  <2>2. pc' \in Places /\ pc' # "failed" /\ pc' # "idle"
    BY <1>5 DEF Recv
  <2> QED
    BY <1>5, <2>1, <2>2 DEF Recv, TypeOK, CallInv
<1>6. CASE RttStop
  <2>1. answered' \subseteq 1 .. seq /\ rto' \in Nat \ {0}
    BY <1>6 DEF RttStop, TypeOK, CallInv, AnswersInStep
  <2> QED
    BY <1>6, <2>1 DEF RttStop, TypeOK, CallInv
<1>7. CASE SigAlrm
  <2>1. pc' \in {"rtt_timeout", "undefined"}
    BY <1>7 DEF SigAlrm
  <2>2. seq > 0 /\ nrexmt <= RTT_MAXNREXMT
    BY <1>7 DEF SigAlrm, CallInv, NoStrayAlarm
  <2> QED
    BY <1>7, <2>1, <2>2 DEF SigAlrm, RestoreMask, TypeOK, CallInv
<1>8. CASE RttTimeout
  <2>1. rto' \in Nat \ {0} /\ nrexmt' \in 0 .. RTT_MAXNREXMT + 1
    BY <1>8 DEF RttTimeout, TypeOK, CallInv
  <2>2. pc' \in {"failed", "send"} /\ (pc' # "failed" => nrexmt' <= RTT_MAXNREXMT)
    BY <1>8, <2>1 DEF RttTimeout, GiveUp, TypeOK, CallInv
  <2> QED
    BY <1>8, <2>1, <2>2 DEF RttTimeout, TypeOK, CallInv
<1>9. CASE UNCHANGED vars
  BY <1>9 DEF vars, TypeOK, CallInv
<1> QED
  BY <1>1, <1>2, <1>3, <1>4, <1>5, <1>6, <1>7, <1>8, <1>9 DEF Next, Client

-----------------------------------------------------------------------------
(* Answers and timers                                                        *)

\* A call ends with recvhdr.seq equal to its own number, and not before alarm(0).
LEMMA AnswerStep == IInv /\ [Next]_vars => AnswersInStep' /\ NoStrayAlarm'
<1> SUFFICES ASSUME IInv, [Next]_vars PROVE AnswersInStep' /\ NoStrayAlarm'
  OBVIOUS
<1>0. seq \in Nat /\ (pc # "idle" => seq > 0) /\ AnswersInStep /\ NoStrayAlarm
  BY DEF IInv, TypeOK, CallInv
<1> USE <1>0 DEF Goto, rtt, sent, alarm
<1>1. CASE Deliver \/ Send \/ StartAlarm \/ SetJmp \/ StopAlarm
  BY <1>1 DEF Deliver, Send, StartAlarm, SetJmp, StopAlarm, AlarmZero,
              AnswersInStep, NoStrayAlarm
<1>2. CASE Call
  <2>1. seq' = seq + 1 /\ answered' = 1 .. seq' - 1 /\ pc' = "send" /\ timer' = "off"
    BY <1>2 DEF Call, AnswersInStep, NoStrayAlarm
  <2> QED
    BY <2>1 DEF AnswersInStep, NoStrayAlarm
<1>3. CASE Recv
  <2>1. /\ UNCHANGED <<seq, answered, jmpbuf>> /\ jmpbuf = seq /\ answered = 1 .. seq - 1
        /\ pc' \in {"stop_alarm", "recvmsg"} /\ (pc' = "stop_alarm" => recvhdr' = seq)
    BY <1>3 DEF Recv, Matches, AnswersInStep, NoStrayAlarm
  <2> QED
    BY <2>1 DEF AnswersInStep, NoStrayAlarm
<1>4. CASE RttStop
  <2>1. answered' = (1 .. seq - 1) \union {seq} /\ pc' = "idle" /\ seq' = seq
    BY <1>4 DEF RttStop, AnswersInStep
  <2>2. (1 .. seq - 1) \union {seq} = 1 .. seq
    BY <1>4 DEF RttStop
  <2>3. timer' = "off"
    BY <1>4 DEF RttStop, NoStrayAlarm
  <2> QED
    BY <2>1, <2>2, <2>3 DEF AnswersInStep, NoStrayAlarm
<1>5. CASE SigAlrm
  <2>1. pc' \in {"rtt_timeout", "undefined"} /\ timer' = "off"
    BY <1>5 DEF SigAlrm
  <2>2. pc \notin {"idle", "undefined"} /\ UNCHANGED <<seq, answered>>
    BY <1>5 DEF SigAlrm, NoStrayAlarm
  <2> QED
    BY <2>1, <2>2 DEF AnswersInStep, NoStrayAlarm
<1>6. CASE RttTimeout
  <2>1. pc' \in {"failed", "send"} /\ UNCHANGED <<seq, answered, timer>>
    BY <1>6 DEF RttTimeout
  <2>2. answered = 1 .. seq - 1 /\ timer = "off"
    BY <1>6 DEF RttTimeout, AnswersInStep, NoStrayAlarm
  <2> QED
    BY <2>1, <2>2 DEF AnswersInStep, NoStrayAlarm
<1>7. CASE UNCHANGED vars
  BY <1>7 DEF vars, AnswersInStep, NoStrayAlarm
<1> QED
  BY <1>1, <1>2, <1>3, <1>4, <1>5, <1>6, <1>7 DEF Next, Client

-----------------------------------------------------------------------------
(* Timeouts                                                                  *)

Request == [nrexmt |-> nrexmt, rto |-> rto]

\* The request under way is one of those sent, or follows the one before it.
BackoffInv ==
  /\ BoundedBackoff
  /\ pc = "idle" => rto \in RTT_RXTMIN .. RTT_RXTMAX
  /\ pc = "send" => /\ nrexmt = 0 => rto \in RTT_RXTMIN .. RTT_RXTMAX
                    /\ nrexmt > 0 => \E q \in timeouts : q.nrexmt + 1 = nrexmt
                                                         /\ rto = 2 * q.rto
  /\ pc \in {"alarm", "sigsetjmp", "recvmsg", "stop_alarm", "rtt_stop", "rtt_timeout"}
       => Request \in timeouts

LEMMA BackoffInit == Init => BackoffInv
BY DEF Init, BackoffInv, BoundedBackoff

LEMMA BackoffStep == IInv /\ BackoffInv /\ [Next]_vars => BackoffInv'
<1> SUFFICES ASSUME IInv, BackoffInv, [Next]_vars PROVE BackoffInv'
  OBVIOUS
<1> USE DEF Goto
<1>1. TypeOK /\ CallInv /\ NoStrayAlarm
  BY DEF IInv
<1>2. CASE Deliver \/ UNCHANGED vars
  BY <1>2 DEF Deliver, vars, rtt, sent, BackoffInv, BoundedBackoff, Request
<1>3. CASE Call
  BY <1>3 DEF Call, BackoffInv, BoundedBackoff
<1>4. CASE Send
  <2>1. /\ pc = "send" /\ pc' = "alarm" /\ timeouts' = timeouts \union {Request}
        /\ UNCHANGED <<seq, rto, nrexmt>>
    BY <1>4 DEF Send, rtt, sent, Request
  <2>2. Request.nrexmt = nrexmt /\ Request.rto = rto
    BY DEF Request
  <2>3. Request' = Request
    BY <2>1 DEF Request
  <2>4. nrexmt <= RTT_MAXNREXMT
    BY <1>1, <2>1 DEF CallInv
  <2>5. BoundedBackoff'
    <3> SUFFICES ASSUME NEW r \in timeouts'
                 PROVE  /\ r.nrexmt <= RTT_MAXNREXMT
                        /\ r.nrexmt = 0 => r.rto \in RTT_RXTMIN .. RTT_RXTMAX
                        /\ r.nrexmt > 0 =>
                             \E q \in timeouts' : q.nrexmt + 1 = r.nrexmt
                                                  /\ r.rto = 2 * q.rto
      BY DEF BoundedBackoff
    <3>1. CASE r \in timeouts
      BY <2>1, <3>1 DEF BackoffInv, BoundedBackoff
    <3> HIDE DEF Request
    <3>2. CASE r = Request
      BY <2>1, <2>2, <2>4, <3>2 DEF BackoffInv
    <3> QED
      BY <2>1, <3>1, <3>2
  <2> QED
    BY <2>1, <2>3, <2>5 DEF BackoffInv
<1>5. CASE StartAlarm \/ SetJmp \/ Recv \/ StopAlarm
  <2>1. /\ pc \in {"alarm", "sigsetjmp", "recvmsg", "stop_alarm"}
        /\ pc' \in {"sigsetjmp", "recvmsg", "stop_alarm", "rtt_stop"}
        /\ UNCHANGED <<seq, rto, nrexmt, timeouts>>
    BY <1>5 DEF StartAlarm, SetJmp, Recv, StopAlarm, rtt, sent
  <2> QED
    BY <2>1 DEF BackoffInv, BoundedBackoff, Request
<1>6. CASE RttStop
  BY <1>6 DEF RttStop, sent, BackoffInv, BoundedBackoff
<1>7. CASE RttTimeout
  <2>1. /\ pc = "rtt_timeout" /\ pc' \in {"failed", "send"} /\ rto' = 2 * rto
        /\ nrexmt' = nrexmt + 1 /\ UNCHANGED <<seq, timeouts>>
    BY <1>7 DEF RttTimeout, sent
  <2>2. Request \in timeouts /\ BoundedBackoff
    BY <2>1 DEF BackoffInv
  <2>3. Request.nrexmt = nrexmt /\ Request.rto = rto
    BY DEF Request
  <2>4. nrexmt \in Nat /\ nrexmt' # 0
    BY <1>1, <2>1, RttAssumption DEF TypeOK
  <2>5. BoundedBackoff'
    BY <2>1, <2>2 DEF BoundedBackoff
  <2> HIDE DEF Request
  <2>6. \E q \in timeouts' : q.nrexmt + 1 = nrexmt' /\ rto' = 2 * q.rto
    BY <2>1, <2>2, <2>3
  <2> QED
    BY <2>1, <2>4, <2>5, <2>6 DEF BackoffInv
<1>8. CASE SigAlrm
  <2>1. /\ timer = "set" /\ UNCHANGED <<seq, rto, nrexmt, timeouts>>
        /\ pc' = IF InCall /\ jmpbuf = seq THEN "rtt_timeout" ELSE "undefined"
    BY <1>8 DEF SigAlrm, rtt, sent
  <2>2. InCall => pc \in {"sigsetjmp", "recvmsg", "stop_alarm"}
    BY <1>1, <2>1 DEF InCall, NoStrayAlarm
  <2> QED
    BY <2>1, <2>2 DEF BackoffInv, BoundedBackoff, Request
<1> QED
  BY <1>2, <1>3, <1>4, <1>5, <1>6, <1>7, <1>8 DEF Next, Client

-----------------------------------------------------------------------------
(* The theorems                                                              *)

\* The parts above, together, hold in every state of dg_send_recv.
THEOREM Inductive == Spec => []IInv
<1>1. IInv /\ [Next]_vars => IInv'
  BY TypingStep, AnswerStep DEF IInv
<1> QED
  BY InitInv, <1>1, PTL DEF Spec

\* The sequence numbers in flight are those of calls made, and no request is sent
\* again more than RTT_MAXNREXMT times.
THEOREM Typing == Spec => []TypeOK
<1>1. IInv => TypeOK
  BY DEF IInv
<1> QED
  BY Inductive, <1>1, PTL

\* Every call of Dg_send_recv that returns has read the answer to its own request.
THEOREM Answers == Spec => []AnswersInStep
<1>1. IInv => AnswersInStep
  BY DEF IInv
<1> QED
  BY Inductive, <1>1, PTL

\* sig_alrm never jumps into a call that has returned, if sigsetjmp has been
\* reached before the timer expires.
THEOREM Timers == Spec => []NoStrayAlarm
<1>1. IInv => NoStrayAlarm
  BY DEF IInv
<1> QED
  BY Inductive, <1>1, PTL

\* Timeouts double from a value between the limits, for at most RTT_MAXNREXMT times.
THEOREM Backoff == Spec => []BoundedBackoff
<1>1. BackoffInv => BoundedBackoff
  BY DEF BackoffInv
<1> QED
  BY Inductive, BackoffInit, BackoffStep, <1>1, PTL DEF Spec

-----------------------------------------------------------------------------
(* Heartbeat: the stacks of handlers                                         *)

\* What a side's stack may hold: sig_alrm inside ++nprobes, sig_urg before its recv
\* and before its reset.
Alrm   == <<"sig_alrm", "store">>
Urg    == <<"sig_urg", "recv">>
Reset  == <<"sig_urg", "reset">>
Frames == {Alrm, Urg, Reset}

OnStack(s, f) == \E k \in DOMAIN s : s[k] = f
OneUrg(s)     == \A k, l \in DOMAIN s : s[k] # Alrm /\ s[l] # Alrm => k = l

LEMMA FramesDiffer == Alrm # Urg /\ Alrm # Reset /\ Urg # Reset
BY DEF Alrm, Urg, Reset

\* A handler starts on top of the others.
LEMMA Push ==
  ASSUME NEW s \in Seq(Frames), NEW f \in Frames
  PROVE  /\ Append(s, f) \in Seq(Frames)
         /\ \A g : OnStack(Append(s, f), g) <=> OnStack(s, g) \/ g = f
         /\ OneUrg(s) /\ f = Alrm => OneUrg(Append(s, f))
         /\ OneUrg(s) /\ ~OnStack(s, Urg) /\ ~OnStack(s, Reset) => OneUrg(Append(s, f))
<1> DEFINE t == Append(s, f)
           n == Len(s)
<1>1. /\ n \in Nat /\ DOMAIN s = 1 .. n /\ \A k \in 1 .. n : s[k] \in Frames
      /\ t \in Seq(Frames) /\ DOMAIN t = 1 .. n + 1
      /\ \A k \in 1 .. n : t[k] = s[k]
      /\ t[n + 1] = f
  BY LenProperties, AppendProperties
<1> HIDE DEF t, n
<1>2. \A k \in 1 .. n + 1 : k \in 1 .. n \/ k = n + 1
  BY <1>1
<1>3. n + 1 \in 1 .. n + 1 /\ 1 .. n \subseteq 1 .. n + 1
  BY <1>1
<1>4. \A g : OnStack(t, g) <=> OnStack(s, g) \/ g = f
  BY <1>1, <1>2, <1>3 DEF OnStack
<1>5. ASSUME OneUrg(s), f = Alrm PROVE OneUrg(t)
  BY <1>1, <1>2, <1>5 DEF OneUrg
<1>6. ASSUME OneUrg(s), ~OnStack(s, Urg), ~OnStack(s, Reset) PROVE OneUrg(t)
  BY <1>1, <1>2, <1>6 DEF OneUrg, OnStack, Frames
<1> QED
  BY <1>1, <1>4, <1>5, <1>6 DEF t

\* The handler on top returns.
LEMMA Pop ==
  ASSUME NEW s \in Seq(Frames), s # << >>
  PROVE  /\ SubSeq(s, 1, Len(s) - 1) \in Seq(Frames)
         /\ \A g : OnStack(SubSeq(s, 1, Len(s) - 1), g) => OnStack(s, g)
         /\ OneUrg(s) => OneUrg(SubSeq(s, 1, Len(s) - 1))
         /\ OneUrg(s) /\ s[Len(s)] # Alrm
              => \A g : OnStack(SubSeq(s, 1, Len(s) - 1), g) => g = Alrm
<1> DEFINE t == SubSeq(s, 1, Len(s) - 1)
           n == Len(s)
<1>1. n \in Nat \ {0} /\ DOMAIN s = 1 .. n /\ \A k \in 1 .. n : s[k] \in Frames
  BY LenProperties, EmptySeq
<1>2. t \in Seq(Frames) /\ Len(t) = n - 1 /\ \A k \in 1 .. n - 1 : t[k] = s[k]
  BY <1>1, SubSeqProperties
<1>3. DOMAIN t = 1 .. n - 1
  BY <1>2, LenProperties
<1> HIDE DEF t, n
<1>4. 1 .. n - 1 \subseteq 1 .. n /\ n \in 1 .. n /\ n \notin 1 .. n - 1
  BY <1>1
<1>5. \A g : OnStack(t, g) => OnStack(s, g)
  BY <1>1, <1>2, <1>3, <1>4 DEF OnStack
<1>6. ASSUME OneUrg(s) PROVE OneUrg(t)
  BY <1>1, <1>2, <1>3, <1>4, <1>6 DEF OneUrg
<1>7. ASSUME OneUrg(s), s[n] # Alrm, NEW g, OnStack(t, g) PROVE g = Alrm
  BY <1>1, <1>2, <1>3, <1>4, <1>7 DEF OneUrg, OnStack
<1> QED
  BY <1>2, <1>5, <1>6, <1>7 DEF t, n

\* sig_urg goes on from its recv to its reset.
LEMMA GoOn ==
  ASSUME NEW s \in Seq(Frames), s # << >>, s[Len(s)] = Urg
  PROVE  /\ [s EXCEPT ![Len(s)] = Reset] \in Seq(Frames)
         /\ OnStack([s EXCEPT ![Len(s)] = Reset], Alrm) => OnStack(s, Alrm)
         /\ OneUrg(s) => /\ OneUrg([s EXCEPT ![Len(s)] = Reset])
                         /\ ~OnStack([s EXCEPT ![Len(s)] = Reset], Urg)
         /\ OnStack(s, Urg)
<1> DEFINE t == [s EXCEPT ![Len(s)] = Reset]
           n == Len(s)
<1>1. n \in Nat \ {0} /\ DOMAIN s = 1 .. n /\ \A k \in 1 .. n : s[k] \in Frames
  BY LenProperties, EmptySeq
<1>2. n \in 1 .. Len(s) /\ Reset \in Frames
  BY <1>1 DEF Frames
<1>3. t \in Seq(Frames) /\ Len(t) = n /\ \A k \in 1 .. n : t[k] = IF k = n THEN Reset ELSE s[k]
  BY <1>2, ExceptSeq
<1>4. DOMAIN t = 1 .. n
  BY <1>3, LenProperties
<1> HIDE DEF t, n
<1>5. OnStack(t, Alrm) => OnStack(s, Alrm)
  BY <1>1, <1>3, <1>4, FramesDiffer DEF OnStack
<1>6. s[n] = Urg /\ n \in 1 .. n
  BY <1>1 DEF n
<1>7. ASSUME OneUrg(s) PROVE OneUrg(t) /\ ~OnStack(t, Urg)
  BY <1>1, <1>3, <1>4, <1>6, <1>7, FramesDiffer DEF OneUrg, OnStack
<1>8. OnStack(s, Urg)
  BY <1>1, <1>6 DEF OnStack
<1> QED
  BY <1>3, <1>5, <1>7, <1>8 DEF t, n

-----------------------------------------------------------------------------
(* Heartbeat: silence and urgent pointers                                    *)

BeatTypes ==
  /\ hb_nprobes \in [HB!Sides -> Nat] /\ hb_register \in [HB!Sides -> Nat]
  /\ hb_silent \in [HB!Sides -> Nat]
  /\ hb_stack \in [HB!Sides -> Seq(Frames)]
  /\ DOMAIN hb_sigurg = HB!Sides /\ DOMAIN hb_sigalrm = HB!Sides
  /\ DOMAIN hb_oob = HB!Sides /\ DOMAIN hb_ended = HB!Sides
  /\ DOMAIN hb_lost = HB!Sides /\ DOMAIN hb_merged = HB!Sides

\* While a side runs it has counted no more alarms than there were in silence,
\* not even inside ++nprobes, unless a reset was overwritten.
Silence(p) ==
  hb_ended[p] = "no" =>
    hb_lost[p] \/ /\ hb_nprobes[p] <= hb_silent[p]
                  /\ OnStack(hb_stack[p], Alrm) => hb_register[p] <= hb_silent[p] + 1

\* Unless urgent pointers met, a SIGURG has the byte it was raised for until its
\* sig_urg has done its recv, and none is raised before sig_urg has returned.
OneByteEach(p) ==
  \/ hb_merged[p]
  \/ /\ hb_sigurg[p] => ~OnStack(hb_stack[p], Urg) /\ ~OnStack(hb_stack[p], Reset)
     /\ hb_sigurg[p] \/ OnStack(hb_stack[p], Urg) => hb_oob[p] \in {"here", "coming"}

ForAReason(p) ==
  /\ hb_ended[p] = "unreachable" => hb_silent[p] > MaxProbes \/ hb_lost[p]
  /\ hb_ended[p] = "recv_error" => hb_merged[p]

SideInv(p) == OneUrg(hb_stack[p]) /\ Silence(p) /\ OneByteEach(p) /\ ForAReason(p)
BeatInv    == BeatTypes /\ \A p \in HB!Sides : SideInv(p)

\* A side that takes no step keeps its part of the invariant.
SameSide(p) ==
  /\ hb_nprobes'[p] = hb_nprobes[p] /\ hb_register'[p] = hb_register[p]
  /\ hb_silent'[p] = hb_silent[p] /\ hb_stack'[p] = hb_stack[p]
  /\ hb_sigurg'[p] = hb_sigurg[p] /\ hb_oob'[p] = hb_oob[p]
  /\ hb_ended'[p] = hb_ended[p] /\ hb_lost'[p] = hb_lost[p]
  /\ hb_merged'[p] = hb_merged[p]

LEMMA IdleSide ==
  ASSUME NEW p \in HB!Sides, SideInv(p), SameSide(p) PROVE SideInv(p)'
BY DEF SideInv, SameSide, Silence, OneByteEach, ForAReason

\* Which handlers are on a stack.
LEMMA HandlersOn ==
  ASSUME BeatTypes, NEW p \in HB!Sides
  PROVE  "sig_urg" \notin HB!Handlers(p)
           => ~OnStack(hb_stack[p], Urg) /\ ~OnStack(hb_stack[p], Reset)
<1>1. DOMAIN hb_stack[p] = 1 .. Len(hb_stack[p])
  BY DEF BeatTypes
<1>2. \A k \in 1 .. Len(hb_stack[p]) : hb_stack[p][k][1] \in HB!Handlers(p)
  BY DEF HB!Handlers
<1>3. Urg[1] = "sig_urg" /\ Reset[1] = "sig_urg"
  BY DEF Urg, Reset
<1> QED
  BY <1>1, <1>2, <1>3 DEF OnStack

LEMMA BeatInit == HB!Init => BeatInv
<1> SUFFICES ASSUME HB!Init PROVE BeatInv
  OBVIOUS
<1>1. BeatTypes
  BY DEF HB!Init, BeatTypes
<1>2. ASSUME NEW p \in HB!Sides PROVE SideInv(p)
  BY <1>2 DEF HB!Init, SideInv, Silence, OneByteEach, ForAReason, OneUrg, OnStack
<1> QED
  BY <1>1, <1>2 DEF BeatInv

\* Handlers start.
LEMMA EnterStep == ASSUME BeatInv, NEW p \in HB!Sides, HB!Enter(p) PROVE BeatInv'
<1> DEFINE s == hb_stack[p]
<1>1. s \in Seq(Frames) /\ OneUrg(s) /\ Alrm \in Frames /\ Urg \in Frames
  BY DEF BeatInv, BeatTypes, SideInv, Frames
<1>2. /\ UNCHANGED <<hb_nprobes, hb_oob, hb_ended, hb_silent, hb_lost, hb_merged>>
      /\ hb_ended[p] = "no"
  BY DEF HB!Enter, HB!history, HB!Running
<1>3. CASE /\ hb_stack' = [hb_stack EXCEPT ![p] = Append(s, Alrm)]
           /\ hb_register' = [hb_register EXCEPT ![p] = hb_nprobes[p] + 1]
           /\ hb_sigalrm' = [hb_sigalrm EXCEPT ![p] = FALSE]
           /\ UNCHANGED hb_sigurg
  <2>1. BeatTypes'
    BY <1>1, <1>2, <1>3, Push DEF BeatInv, BeatTypes
  <2>2. ASSUME NEW q \in HB!Sides, q # p PROVE SideInv(q)'
    <3>1. SameSide(q)
      BY <1>2, <1>3, <2>2 DEF BeatInv, BeatTypes, SameSide
    <3> QED
      BY <3>1, IdleSide DEF BeatInv
  <2>3. /\ hb_stack'[p] = Append(s, Alrm) /\ hb_register'[p] = hb_nprobes[p] + 1
        /\ hb_nprobes[p] \in Nat /\ hb_silent[p] \in Nat
    BY <1>3 DEF BeatInv, BeatTypes
  <2>4. /\ OneUrg(Append(s, Alrm)) 
        /\ OnStack(Append(s, Alrm), Urg) <=> OnStack(s, Urg)
        /\ OnStack(Append(s, Alrm), Reset) <=> OnStack(s, Reset)
    <3> HIDE DEF s
    <3>1. \A g : OnStack(Append(s, Alrm), g) <=> OnStack(s, g) \/ g = Alrm
      BY <1>1, Push
    <3>2. OneUrg(Append(s, Alrm))
      BY <1>1, Push
    <3> QED
      BY <3>1, <3>2, FramesDiffer
  <2>5. SideInv(p)
    BY DEF BeatInv
  <2>6. SideInv(p)'
    BY <1>2, <1>3, <2>3, <2>4, <2>5 DEF SideInv, Silence, OneByteEach, ForAReason
  <2> QED
    BY <2>1, <2>2, <2>6 DEF BeatInv
<1>4. CASE /\ hb_stack' = [hb_stack EXCEPT ![p] = Append(s, Urg)]
           /\ hb_sigurg[p] /\ "sig_urg" \notin HB!Handlers(p)
           /\ hb_sigurg' = [hb_sigurg EXCEPT ![p] = FALSE]
           /\ UNCHANGED <<hb_sigalrm, hb_register>>
  <2>1. BeatTypes'
    BY <1>1, <1>2, <1>4, Push DEF BeatInv, BeatTypes
  <2>2. ASSUME NEW q \in HB!Sides, q # p PROVE SideInv(q)'
    <3>1. SameSide(q)
      BY <1>2, <1>4, <2>2 DEF BeatInv, BeatTypes, SameSide
    <3> QED
      BY <3>1, IdleSide DEF BeatInv
  <2>3. hb_stack'[p] = Append(s, Urg) /\ ~hb_sigurg'[p]
    BY <1>4 DEF BeatInv, BeatTypes
  <2>4. /\ OneUrg(Append(s, Urg)) 
        /\ OnStack(Append(s, Urg), Alrm) <=> OnStack(s, Alrm)
    BY <1>1, <1>4, Push, FramesDiffer, HandlersOn DEF BeatInv
  <2>5. SideInv(p)
    BY DEF BeatInv
  <2>6. SideInv(p)'
    BY <1>2, <1>4, <2>3, <2>4, <2>5 DEF SideInv, Silence, OneByteEach, ForAReason
  <2> QED
    BY <2>1, <2>2, <2>6 DEF BeatInv
<1> QED
  BY <1>3, <1>4 DEF HB!Enter, HB!Set, Alrm, Urg

\* The signals and TCP raise what is not yet handled.
LEMMA ArrivalStep ==
  ASSUME BeatInv, NEW p \in HB!Sides,
         HB!AlarmGoesOff(p) \/ HB!UrgentArrives(p) \/ HB!ByteArrives(p)
  PROVE  BeatInv'
<1>1. UNCHANGED <<hb_nprobes, hb_register, hb_stack, hb_ended, hb_silent, hb_lost>>
  BY DEF HB!AlarmGoesOff, HB!UrgentArrives, HB!ByteArrives, HB!counts, HB!history, HB!signals
<1>2. BeatTypes'
  BY <1>1 DEF BeatInv, BeatTypes, HB!AlarmGoesOff, HB!UrgentArrives, HB!ByteArrives,
              HB!history, HB!signals, HB!Set
<1>3. ASSUME NEW q \in HB!Sides, q # p PROVE SideInv(q)'
  <2>1. SameSide(q)
    BY <1>1, <1>3 DEF BeatInv, BeatTypes, SameSide, HB!AlarmGoesOff, HB!UrgentArrives,
                      HB!ByteArrives, HB!history, HB!signals, HB!Set
  <2> QED
    BY <2>1, IdleSide DEF BeatInv
<1>4. SideInv(p)
  BY DEF BeatInv
<1>5. ASSUME HB!AlarmGoesOff(p) PROVE SideInv(p)'
  <2>1. SameSide(p)
    BY <1>1, <1>5 DEF HB!AlarmGoesOff, HB!history, SameSide
  <2> QED
    BY <1>4, <2>1, IdleSide
<1>6. ASSUME HB!UrgentArrives(p) PROVE SideInv(p)'
  <2>1. PICK b \in {"here", "coming"} : hb_oob' = [hb_oob EXCEPT ![p] = b]
    BY <1>6 DEF HB!UrgentArrives, HB!Set
  <2>2. /\ hb_oob'[p] \in {"here", "coming"}
        /\ hb_merged'[p] = (hb_merged[p] \/ hb_sigurg[p] \/ "sig_urg" \in HB!Handlers(p))
    BY <1>6, <2>1 DEF HB!UrgentArrives, HB!Set, BeatInv, BeatTypes
  <2>3. hb_merged[p] => hb_merged'[p]
    BY <2>2
  <2>4. ~hb_merged'[p] => "sig_urg" \notin HB!Handlers(p)
    BY <2>2
  <2>5. ~hb_merged'[p] => ~OnStack(hb_stack[p], Urg) /\ ~OnStack(hb_stack[p], Reset)
    <3>1. "sig_urg" \notin HB!Handlers(p)
            => ~OnStack(hb_stack[p], Urg) /\ ~OnStack(hb_stack[p], Reset)
      BY HandlersOn DEF BeatInv
    <3> QED
      BY <2>4, <3>1
  <2> QED
    BY <1>1, <1>4, <2>2, <2>3, <2>5 DEF SideInv, Silence, OneByteEach, ForAReason
<1>7. ASSUME HB!ByteArrives(p) PROVE SideInv(p)'
  <2>1. hb_oob'[p] = "here" /\ UNCHANGED <<hb_sigurg, hb_merged>>
    BY <1>7 DEF HB!ByteArrives, HB!Set, HB!signals, HB!history, BeatInv, BeatTypes
  <2> QED
    BY <1>1, <1>4, <2>1 DEF SideInv, Silence, OneByteEach, ForAReason
<1>8. SideInv(p)'
  BY <1>5, <1>6, <1>7
<1> QED
  BY <1>2, <1>3, <1>8 DEF BeatInv

\* What the running handler's place says of the stack.
LEMMA TopOf ==
  ASSUME BeatTypes, NEW p \in HB!Sides, NEW h, NEW place, HB!In(p, h, place)
  PROVE  /\ hb_stack[p] \in Seq(Frames) /\ hb_stack[p] # << >> /\ hb_ended[p] = "no"
         /\ hb_stack[p][Len(hb_stack[p])] = <<h, place>>
BY DEF BeatTypes, HB!In, HB!Top, HB!Running

\* recv in sig_urg takes the byte of its own SIGURG, or fails after a merger.
LEMMA RecvStep == ASSUME BeatInv, NEW p \in HB!Sides, HB!Recv(p) PROVE BeatInv'
<1> DEFINE s == hb_stack[p]
           t == [s EXCEPT ![Len(s)] = Reset]
<1>1. s \in Seq(Frames) /\ s # << >> /\ hb_ended[p] = "no" /\ s[Len(s)] = Urg
  BY TopOf DEF HB!Recv, BeatInv, Urg
<1>2. /\ t \in Seq(Frames) /\ (OnStack(t, Alrm) => OnStack(s, Alrm))
      /\ OneUrg(s) => OneUrg(t) /\ ~OnStack(t, Urg)
      /\ OnStack(s, Urg)
  BY <1>1, GoOn
<1>3. UNCHANGED <<hb_nprobes, hb_register, hb_sigurg, hb_sigalrm, hb_silent, hb_lost, hb_merged>>
  BY DEF HB!Recv, HB!counts, HB!signals, HB!history
<1>4. SideInv(p)
  BY DEF BeatInv
<1>5. CASE /\ hb_oob[p] \in {"here", "coming"}
           /\ hb_stack' = [hb_stack EXCEPT ![p] = t]
           /\ hb_oob' = [hb_oob EXCEPT ![p] = IF @ = "here" THEN "taken" ELSE @]
           /\ UNCHANGED hb_ended
  <2>1. BeatTypes'
    BY <1>2, <1>3, <1>5 DEF BeatInv, BeatTypes
  <2>2. ASSUME NEW q \in HB!Sides, q # p PROVE SideInv(q)'
    <3>1. SameSide(q)
      BY <1>3, <1>5, <2>2 DEF BeatInv, BeatTypes, SameSide
    <3> QED
      BY <3>1, IdleSide DEF BeatInv
  <2>3. hb_stack'[p] = t
    BY <1>5 DEF BeatInv, BeatTypes
  <2> HIDE DEF s, t
  <2>4. ~hb_merged[p] => ~hb_sigurg[p]
    BY <1>2, <1>4 DEF SideInv, OneByteEach, s
  <2>5. SideInv(p)'
    BY <1>2, <1>3, <1>4, <1>5, <2>3, <2>4 DEF SideInv, Silence, OneByteEach, ForAReason, s
  <2> QED
    BY <2>1, <2>2, <2>5 DEF BeatInv
<1>6. CASE /\ hb_oob[p] \notin {"here", "coming"}
           /\ hb_ended' = [hb_ended EXCEPT ![p] = "recv_error"]
           /\ UNCHANGED <<hb_stack, hb_oob>>
  <2>1. BeatTypes'
    BY <1>3, <1>6 DEF BeatInv, BeatTypes
  <2>2. ASSUME NEW q \in HB!Sides, q # p PROVE SideInv(q)'
    <3>1. SameSide(q)
      BY <1>3, <1>6, <2>2 DEF BeatInv, BeatTypes, SameSide
    <3> QED
      BY <3>1, IdleSide DEF BeatInv
  <2>3. hb_ended'[p] = "recv_error"
    BY <1>6 DEF BeatInv, BeatTypes
  <2>4. hb_merged[p]
    BY <1>2, <1>4, <1>6 DEF SideInv, OneByteEach
  <2>5. SideInv(p)'
    BY <1>3, <1>4, <1>6, <2>3, <2>4 DEF SideInv, Silence, OneByteEach, ForAReason
  <2> QED
    BY <2>1, <2>2, <2>5 DEF BeatInv
<1> QED
  BY <1>5, <1>6 DEF HB!Recv, HB!Place, HB!Exit, HB!Set, Reset

\* sig_urg resets the count and returns.
LEMMA ResetStep == ASSUME BeatInv, NEW p \in HB!Sides, HB!EchoAndReset(p) PROVE BeatInv'
<1> DEFINE s == hb_stack[p]
           t == SubSeq(s, 1, Len(s) - 1)
<1>1. s \in Seq(Frames) /\ s # << >> /\ s[Len(s)] # Alrm
  BY TopOf, FramesDiffer DEF HB!EchoAndReset, BeatInv, Reset
<1>2. /\ t \in Seq(Frames) /\ (OnStack(t, Alrm) => OnStack(s, Alrm))
      /\ OneUrg(s) => OneUrg(t) /\ ~OnStack(t, Urg) /\ ~OnStack(t, Reset)
  BY <1>1, Pop, FramesDiffer
<1>3. /\ UNCHANGED <<hb_register, hb_sigurg, hb_sigalrm, hb_oob, hb_ended, hb_merged>>
      /\ hb_stack' = [hb_stack EXCEPT ![p] = t]
      /\ hb_nprobes' = [hb_nprobes EXCEPT ![p] = 0]
      /\ hb_silent' = [hb_silent EXCEPT ![p] = 0]
      /\ hb_lost' = [hb_lost EXCEPT ![p] = \E i \in 1 .. Len(s) : s[i] = Alrm]
  BY DEF HB!EchoAndReset, HB!Return, HB!Reset, HB!Set, HB!signals, Alrm
<1>4. SideInv(p)
  BY DEF BeatInv
<1>5. BeatTypes'
  BY <1>2, <1>3 DEF BeatInv, BeatTypes
<1>6. ASSUME NEW q \in HB!Sides, q # p PROVE SideInv(q)'
  <2>1. SameSide(q)
    BY <1>3, <1>6 DEF BeatInv, BeatTypes, SameSide
  <2> QED
    BY <2>1, IdleSide DEF BeatInv
<1>7. hb_stack'[p] = t /\ hb_nprobes'[p] = 0 /\ hb_silent'[p] = 0
  BY <1>3 DEF BeatInv, BeatTypes
<1>8. hb_lost'[p] = (\E i \in 1 .. Len(s) : s[i] = Alrm)
  BY <1>3 DEF BeatInv, BeatTypes
<1>9. OnStack(s, Alrm) => hb_lost'[p]
  BY <1>1, <1>8 DEF OnStack
<1>10. hb_ended[p] = "no"
  BY DEF HB!EchoAndReset, HB!In, HB!Running
<1> HIDE DEF s, t
<1>11. SideInv(p)'
  BY <1>2, <1>3, <1>4, <1>7, <1>9, <1>10 DEF SideInv, Silence, OneByteEach, ForAReason, s
<1> QED
  BY <1>5, <1>6, <1>11 DEF BeatInv

\* sig_alrm counts, and gives up or goes on.
LEMMA CountStep == ASSUME BeatInv, NEW p \in HB!Sides, HB!CountAndProbe(p) PROVE BeatInv'
<1> DEFINE s == hb_stack[p]
           t == SubSeq(s, 1, Len(s) - 1)
           r == hb_register[p]
           n == hb_silent[p]
           m == IF n > MaxProbes THEN n ELSE n + 1
<1>1. s \in Seq(Frames) /\ s # << >> /\ hb_ended[p] = "no" /\ s[Len(s)] = Alrm
  BY TopOf DEF HB!CountAndProbe, BeatInv, Alrm
<1>2. /\ t \in Seq(Frames) /\ \A g : OnStack(t, g) => OnStack(s, g)
      /\ OneUrg(s) => OneUrg(t)
  BY <1>1, Pop
<1>3. /\ UNCHANGED <<hb_sigurg, hb_sigalrm, hb_oob, hb_lost, hb_merged>>
      /\ hb_nprobes' = [hb_nprobes EXCEPT ![p] = r]
      /\ hb_register' = [hb_register EXCEPT ![p] = 0]
      /\ hb_silent' = [hb_silent EXCEPT ![p] = m]
      /\ \/ /\ r > MaxProbes /\ hb_ended' = [hb_ended EXCEPT ![p] = "unreachable"]
            /\ UNCHANGED hb_stack
         \/ /\ ~(r > MaxProbes) /\ hb_stack' = [hb_stack EXCEPT ![p] = t]
            /\ UNCHANGED hb_ended
  BY DEF HB!CountAndProbe, HB!Unanswered, HB!Return, HB!Exit, HB!Set
<1>4. SideInv(p)
  BY DEF BeatInv
<1>5. r \in Nat /\ n \in Nat /\ m \in Nat
  BY BeatAssumption DEF BeatInv, BeatTypes
<1>6. OnStack(s, Alrm)
  <2>1. Len(s) \in DOMAIN s
    BY <1>1
  <2> QED
    BY <1>1, <2>1 DEF OnStack
<1>7. BeatTypes'
  BY <1>2, <1>3, <1>5 DEF BeatInv, BeatTypes
<1>8. ASSUME NEW q \in HB!Sides, q # p PROVE SideInv(q)'
  <2>1. SameSide(q)
    BY <1>3, <1>8 DEF BeatInv, BeatTypes, SameSide
  <2> QED
    BY <2>1, IdleSide DEF BeatInv
<1>9. hb_nprobes'[p] = r /\ hb_register'[p] = 0 /\ hb_silent'[p] = m
  BY <1>3 DEF BeatInv, BeatTypes
<1>10. hb_lost[p] \/ r <= n + 1
  BY <1>1, <1>4, <1>6 DEF SideInv, Silence
<1>11. /\ r <= n + 1 /\ r > MaxProbes => m > MaxProbes
       /\ r <= n + 1 /\ ~(r > MaxProbes) => r <= m
       /\ 0 <= m + 1
  BY <1>5, BeatAssumption
<1>12. \/ r > MaxProbes /\ hb_ended'[p] = "unreachable" /\ hb_stack'[p] = s
       \/ ~(r > MaxProbes) /\ hb_ended'[p] = "no" /\ hb_stack'[p] = t
  BY <1>1, <1>3 DEF BeatInv, BeatTypes
<1> HIDE DEF s, t, r, n, m
<1>13. SideInv(p)'
  BY <1>2, <1>3, <1>4, <1>9, <1>10, <1>11, <1>12 DEF SideInv, Silence, OneByteEach, ForAReason, s
<1> QED
  BY <1>7, <1>8, <1>13 DEF BeatInv

LEMMA BeatStep == BeatInv /\ [HB!Next]_hb_vars => BeatInv'
<1> SUFFICES ASSUME BeatInv, [HB!Next]_hb_vars PROVE BeatInv'
  OBVIOUS
<1>1. ASSUME NEW p \in HB!Sides,
             HB!Step(p) \/ HB!UrgentArrives(p) \/ HB!ByteArrives(p)
      PROVE  BeatInv'
  BY <1>1, EnterStep, RecvStep, ResetStep, CountStep, ArrivalStep DEF HB!Step, HB!Handler
<1>2. ASSUME NEW p \in HB!Sides, HB!PeerClosed(p) PROVE BeatInv'
  <2>1. /\ UNCHANGED <<hb_nprobes, hb_register, hb_stack, hb_sigurg, hb_sigalrm, hb_oob,
                       hb_silent, hb_lost, hb_merged>>
        /\ hb_ended' = [hb_ended EXCEPT ![p] = "closed"]
    BY <1>2 DEF HB!PeerClosed, HB!Exit, HB!Set, HB!counts, HB!signals, HB!history
  <2>2. BeatTypes'
    BY <2>1 DEF BeatInv, BeatTypes
  <2>3. ASSUME NEW q \in HB!Sides PROVE SideInv(q)'
    <3>1. hb_ended'[q] = "closed" \/ hb_ended'[q] = hb_ended[q]
      BY <2>1 DEF BeatInv, BeatTypes
    <3>2. SideInv(q)
      BY DEF BeatInv
    <3> QED
      BY <2>1, <3>1, <3>2 DEF SideInv, Silence, OneByteEach, ForAReason
  <2> QED
    BY <2>2, <2>3 DEF BeatInv
<1>3. ASSUME UNCHANGED <<hb_nprobes, hb_register, hb_stack, hb_sigurg, hb_oob,
                         hb_ended, hb_silent, hb_lost, hb_merged>>,
             DOMAIN hb_sigalrm' = DOMAIN hb_sigalrm
      PROVE  BeatInv'
  BY <1>3 DEF BeatInv, BeatTypes, SideInv, Silence, OneByteEach, ForAReason
<1>4. CASE HB!Cut \/ HB!InputEnds \/ UNCHANGED hb_vars
  <2>1. UNCHANGED <<hb_nprobes, hb_register, hb_stack, hb_sigurg, hb_sigalrm, hb_oob,
                    hb_ended, hb_silent, hb_lost, hb_merged>>
    BY <1>4 DEF HB!Cut, HB!InputEnds, HB!counts, HB!signals, HB!history, hb_vars
  <2> QED
    BY <2>1, <1>3
<1> QED
  BY <1>1, <1>2, <1>4 DEF HB!Next

\* A side of the heartbeat ends the connection only after too many alarms without a
\* byte from the other, or where the two races it has with itself explain it:
\* for any number of probes and of urgent pointers under way (heartbeatcli.c:43,
\* heartbeatserv.c:44).
THEOREM HeartbeatGivesUp == SumSpec => []HB!GivesUpForAReason
<1>1. SumInit => BeatInv
  BY BeatInit DEF SumInit
<1>2. BeatInv /\ [SumNext]_all => BeatInv'
  <2> SUFFICES ASSUME BeatInv, [SumNext]_all PROVE BeatInv'
    OBVIOUS
  <2>1. [HB!Next]_hb_vars
    BY DEF SumNext, all, Rtt, Timed, Trace, Urgent, Beat, Pinging, Connecting
  <2> QED
    BY <2>1, BeatStep
<1>3. BeatInv => HB!GivesUpForAReason
  BY DEF BeatInv, SideInv, ForAReason, HB!GivesUpForAReason
<1> QED
  BY <1>1, <1>2, <1>3, PTL DEF SumSpec

-----------------------------------------------------------------------------
(* Out-of-band data: what the senders write                                  *)

Scripts == {OB!Tcpsend01, OB!Tcpsend04, OB!Tcpsend05, OB!Tcpsend06}

\* Where w writes end, and the urgent bytes among them.
EndOf(s, w)   == IF w = 0 THEN 0 ELSE s[w]
UrgentOf(s, w) == {s[i] : i \in {j \in 1 .. w : j % 2 = 0}}

\* The second and the fourth write are urgent.
LEMMA UrgentTwoFour ==
  ASSUME NEW s \in Scripts, NEW w \in 0 .. Len(s)
  PROVE  /\ Len(s) \in 3 .. 5 /\ w \in 0 .. 5
         /\ \A u : u \in UrgentOf(s, w) <=> (w >= 2 /\ u = s[2]) \/ (w >= 4 /\ u = s[4])
<1>1. Len(s) \in 3 .. 5
  BY DEF Scripts, OB!Tcpsend01, OB!Tcpsend04, OB!Tcpsend05, OB!Tcpsend06
<1>2. w \in 0 .. 5
  <2>1. \A n \in 3 .. 5 : \A k \in 0 .. n : k \in 0 .. 5
    OBVIOUS
  <2> QED
    BY <1>1, <2>1
<1>3. \A j \in 1 .. w : j % 2 = 0 <=> j = 2 \/ j = 4
  BY <1>2
<1>4. 2 \in 1 .. w <=> w >= 2
  BY <1>2
<1>5. 4 \in 1 .. w <=> w >= 4
  BY <1>2
<1> QED
  BY <1>1, <1>2, <1>3, <1>4, <1>5 DEF UrgentOf

\* Writes go forward, and a normal byte is between two urgent ones.
Rising(s) ==
  /\ s[1] \in Nat /\ s[2] \in Nat /\ s[3] \in Nat
  /\ 0 < s[1] /\ 2 <= s[2] /\ s[1] < s[2] /\ s[2] < s[3]
  /\ Len(s) = 3 \/ Len(s) = 5
  /\ Len(s) = 5 => /\ s[4] \in Nat /\ s[5] \in Nat
                   /\ s[3] < s[4] /\ s[4] < s[5] /\ s[2] + 1 < s[4]

LEMMA Forward == ASSUME NEW s \in Scripts PROVE Rising(s)
<1>1. CASE s = OB!Tcpsend01
  BY <1>1 DEF OB!Tcpsend01, Rising
<1>2. CASE s = OB!Tcpsend04
  BY <1>2 DEF OB!Tcpsend04, Rising
<1>3. CASE s = OB!Tcpsend05
  BY <1>3 DEF OB!Tcpsend05, Rising
<1>4. CASE s = OB!Tcpsend06
  BY <1>4 DEF OB!Tcpsend06, Rising
<1> QED
  BY <1>1, <1>2, <1>3, <1>4 DEF Scripts

\* Where the writes end, one by one.
LEMMA Ends ==
  ASSUME NEW s \in Scripts, NEW w \in 0 .. Len(s)
  PROVE  \/ w = 0 /\ EndOf(s, w) = 0
         \/ w = 1 /\ EndOf(s, w) = s[1]
         \/ w = 2 /\ EndOf(s, w) = s[2]
         \/ w = 3 /\ EndOf(s, w) = s[3]
         \/ w = 4 /\ EndOf(s, w) = s[4] /\ Len(s) = 5
         \/ w = 5 /\ EndOf(s, w) = s[5] /\ Len(s) = 5
<1>1. Len(s) = 3 \/ Len(s) = 5
  BY Forward DEF Rising
<1>2. /\ \A k \in 0 .. 3 : k = 0 \/ k = 1 \/ k = 2 \/ k = 3
      /\ \A k \in 0 .. 5 : k = 0 \/ k = 1 \/ k = 2 \/ k = 3 \/ k = 4 \/ k = 5
  OBVIOUS
<1>3. w = 0 \/ w = 1 \/ w = 2 \/ w = 3 \/ (Len(s) = 5 /\ (w = 4 \/ w = 5))
  BY <1>1, <1>2, Zenon
<1> QED
  BY <1>3 DEF EndOf

LEMMA ScriptFacts ==
  ASSUME NEW s \in Scripts, NEW w \in 0 .. Len(s)
  PROVE  /\ EndOf(s, w) \in Nat
         /\ \A u \in UrgentOf(s, w) : u \in Nat /\ 2 <= u /\ u <= EndOf(s, w)
         /\ \A u, v \in UrgentOf(s, w) : v # u + 1
         /\ w = Len(s) => \E u \in UrgentOf(s, w) : TRUE
<1> DEFINE e == EndOf(s, w)
           a == s[2]
           b == s[3]
           c == s[4]
           d == s[5]
           long == Len(s) = 5
<1>1. Len(s) \in 3 .. 5 /\ w \in 0 .. 5 /\ Rising(s)
  BY UrgentTwoFour, Forward
<1>2. \/ w = 0 /\ e = 0
      \/ w = 1 /\ e = s[1]
      \/ w = 2 /\ e = a
      \/ w = 3 /\ e = b
      \/ w = 4 /\ e = c /\ long
      \/ w = 5 /\ e = d /\ long
  BY Ends
<1>7. /\ s[1] \in Nat /\ a \in Nat /\ b \in Nat /\ 2 <= a /\ a < b
      /\ long => /\ c \in Nat /\ d \in Nat /\ b < c /\ c < d
                 /\ a + 1 < c
  BY <1>1 DEF Rising
<1> HIDE DEF e, a, b, c, d, long
<1>3. e \in Nat
  BY <1>2, <1>7
<1>4. ASSUME NEW u \in UrgentOf(s, w) PROVE u \in Nat /\ 2 <= u /\ u <= e
  <2>1. \/ u = a /\ (w = 2 \/ w = 3 \/ w = 4 \/ w = 5)
        \/ u = c /\ (w = 4 \/ w = 5)
    BY <1>1, <1>2, UrgentTwoFour DEF a, c
  <2>2. \/ u = a /\ (e = a \/ e = b \/ (long /\ (e = c \/ e = d)))
        \/ u = c /\ long /\ (e = c \/ e = d)
    BY <1>2, <2>1
  <2>3. CASE long
    BY <1>7, <2>2, <2>3
  <2>4. CASE ~long
    BY <1>7, <2>2, <2>4
  <2> QED
    BY <2>3, <2>4
<1>5. ASSUME NEW u \in UrgentOf(s, w), NEW v \in UrgentOf(s, w) PROVE v # u + 1
  <2>1. /\ u = a \/ (u = c /\ long)
        /\ v = a \/ (v = c /\ long)
    BY <1>1, <1>2, UrgentTwoFour DEF a, c
  <2> QED
    BY <1>7, <2>1
<1>6. ASSUME w = Len(s) PROVE \E u \in UrgentOf(s, w) : TRUE
  <2>1. w >= 2
    BY <1>1, <1>6
  <2>2. a \in UrgentOf(s, w)
    BY <2>1, UrgentTwoFour DEF a
  <2> QED
    BY <2>2
<1> QED
  BY <1>3, <1>4, <1>5, <1>6 DEF e

\* One more write.
LEMMA ScriptGrows ==
  ASSUME NEW s \in Scripts, NEW w \in 0 .. Len(s), w < Len(s)
  PROVE  /\ w + 1 \in 0 .. Len(s) /\ EndOf(s, w) < EndOf(s, w + 1)
         /\ UrgentOf(s, w) \subseteq UrgentOf(s, w + 1)
         /\ \A u \in UrgentOf(s, w + 1) : u \in UrgentOf(s, w) \/ u = EndOf(s, w + 1)
<1>1. Len(s) \in 3 .. 5 /\ w \in 0 .. 5 /\ Rising(s)
  BY UrgentTwoFour, Forward
<1>2. w + 1 \in 0 .. Len(s)
  BY <1>1
<1>3. EndOf(s, w) < EndOf(s, w + 1)
  <2> DEFINE e == EndOf(s, w)
             f == EndOf(s, w + 1)
             a == s[1]
             b == s[2]
             c == s[3]
             d == s[4]
             g == s[5]
             long == Len(s) = 5
  <2>1. \/ w = 0 /\ e = 0
        \/ w = 1 /\ e = a
        \/ w = 2 /\ e = b
        \/ w = 3 /\ e = c
        \/ w = 4 /\ e = d /\ long
        \/ w = 5 /\ e = g /\ long
    BY Ends
  <2>2. \/ w + 1 = 0 /\ f = 0
        \/ w + 1 = 1 /\ f = a
        \/ w + 1 = 2 /\ f = b
        \/ w + 1 = 3 /\ f = c
        \/ w + 1 = 4 /\ f = d /\ long
        \/ w + 1 = 5 /\ f = g /\ long
    BY Ends, <1>2
  <2>4. /\ a \in Nat /\ b \in Nat /\ c \in Nat /\ 0 < a /\ a < b /\ b < c
        /\ long => d \in Nat /\ g \in Nat /\ c < d /\ d < g
        /\ w < 3 \/ long
    BY <1>1 DEF Rising
  <2> HIDE DEF e, f, a, b, c, d, g, long
  <2>3. e < f
    BY <1>1, <2>1, <2>2, <2>4
  <2> QED
    BY <2>3 DEF e, f
<1>4. UrgentOf(s, w) \subseteq UrgentOf(s, w + 1)
  BY <1>1, <1>2, UrgentTwoFour
<1>5. ASSUME NEW u \in UrgentOf(s, w + 1), u \notin UrgentOf(s, w) PROVE u = EndOf(s, w + 1)
  <2>1. (w + 1 >= 2 /\ u = s[2]) \/ (w + 1 >= 4 /\ u = s[4])
    BY <1>2, UrgentTwoFour
  <2>2. ~(w >= 2 /\ u = s[2]) /\ ~(w >= 4 /\ u = s[4])
    BY <1>5, UrgentTwoFour
  <2> QED
    BY <1>1, <2>1, <2>2 DEF EndOf
<1> QED
  BY <1>2, <1>3, <1>4, <1>5

-----------------------------------------------------------------------------
(* Out-of-band data: the receivers                                           *)

ByXset == ~OB!Signalled /\ ~OB!Inline    \* they use select or poll

OobTypes ==
  /\ ob_version \in OB!Versions /\ ob_script \in Scripts
  /\ ob_writes \in 0 .. Len(ob_script)
  /\ ob_arrived \in Nat /\ ob_arrived <= OB!Written
  /\ ob_mark \in OB!UrgentSent \union {0} /\ ob_pulled \subseteq OB!UrgentSent
  /\ ob_pos \in Nat /\ ob_pos <= ob_arrived
  /\ ob_oobpos \in Int /\ ob_justreadoob \in {0, 1}

\* The mark is never behind what has arrived, and its byte is somewhere.
MarkInv ==
  /\ \A u \in OB!UrgentSent : u <= ob_arrived => u <= ob_mark
  /\ ob_mark # 0 => ob_oob \in {"coming", "here", "taken"}
  /\ ob_mark = 0 => ob_oob = "none"
  /\ ob_oob \in {"here", "taken"} => ob_mark <= ob_arrived

\* By signal: the byte at the mark has been read, or its SIGURG is still to come;
\* unless urgent pointers met there is one SIGURG, and it has its byte.
SignalInv ==
  OB!Signalled =>
    /\ ob_mark # 0 => \/ ob_mark \in ob_got \/ ob_missed = ob_mark
                      \/ ob_pending \/ ob_handler \/ ob_pc = "error"
    /\ ob_merged \/ /\ ~(ob_pending /\ ob_handler)
                    /\ ob_pending \/ ob_handler => ob_oob \in {"here", "coming"}

\* By select or poll: data is read past a mark only after its byte.
NotPassed == ob_mark # 0 /\ ob_mark \notin ob_got => ob_pos < ob_mark

\* Between select and read nothing that select reported goes away.
Readable == ob_pc \in {"xset", "rset"} /\ ob_ready.r => ob_pos < ob_arrived \/ OB!Finished
Reported ==
  ob_pc = "xset" /\ ob_ready.x => ob_pos < ob_mark /\ (OB!OneShot => ob_justreadoob = 0)

\* A mark that came after select cannot be passed by the read that follows: there
\* is a normal byte before it.
StopsBefore == ob_mark = 0 \/ ob_mark \in ob_got \/ ob_pos < ob_mark - 1
SafeRead ==
  /\ ob_pc = "rset" /\ ob_ready.r => StopsBefore
  /\ ob_pc = "xset" /\ ~ob_ready.x /\ ob_ready.r => StopsBefore

\* justreadoob is set from the byte at the mark to the next read, which ends at the
\* mark or beyond.
JustRead  == ob_justreadoob = 1 => ob_pc = "error" \/ (ob_pos < ob_mark /\ StopsBefore)
TakenOnce ==
  OB!OneShot /\ ob_oob = "taken" =>
    /\ ob_oobpos <= ob_pos
    /\ ob_justreadoob = 0 => ob_oobpos < ob_pos /\ ob_mark - 1 <= ob_pos

XsetInv ==
  ByXset => /\ ob_pc \in {"select", "xset", "rset", "eof", "error"} /\ ~ob_handler
            /\ NotPassed /\ Readable /\ Reported /\ SafeRead /\ JustRead /\ TakenOnce

\* A failed Recv ends the program.
ErrorInv ==
  /\ ob_errno # "none" => ob_pc = "error" /\ ~ob_handler /\ ~OB!Inline
  /\ OB!LastUrgentByteRead /\ OB!SecondRecvOnlyAtMark

OobInv == OobTypes /\ MarkInv /\ SignalInv /\ XsetInv /\ ErrorInv

\* The numbers of the stream.
LEMMA StreamFacts ==
  ASSUME OobTypes
  PROVE  /\ OB!Written \in Nat /\ ob_mark \in Nat
         /\ \A u \in OB!UrgentSent : u \in Nat /\ 2 <= u /\ u <= OB!Written
         /\ \A u, v \in OB!UrgentSent : v # u + 1
         /\ ob_writes = Len(ob_script) => \E u \in OB!UrgentSent : TRUE
<1>1. OB!Written = EndOf(ob_script, ob_writes) /\ OB!UrgentSent = UrgentOf(ob_script, ob_writes)
  BY DEF OB!Written, OB!UrgentSent, EndOf, UrgentOf
<1>2. ob_script \in Scripts /\ ob_writes \in 0 .. Len(ob_script)
  BY DEF OobTypes
<1>3. /\ OB!Written \in Nat
      /\ \A u \in OB!UrgentSent : u \in Nat /\ 2 <= u /\ u <= OB!Written
      /\ \A u, v \in OB!UrgentSent : v # u + 1
      /\ ob_writes = Len(ob_script) => \E u \in OB!UrgentSent : TRUE
  BY ScriptFacts, <1>1, <1>2
<1> QED
  BY <1>3 DEF OobTypes

LEMMA OobInit == OB!Init => OobInv
<1> SUFFICES ASSUME OB!Init PROVE OobInv
  OBVIOUS
<1>1. ob_script \in Scripts /\ Len(ob_script) \in 3 .. 5
  BY UrgentTwoFour DEF OB!Init, Scripts, OB!Tcpsend01, OB!Tcpsend04, OB!Tcpsend05, OB!Tcpsend06
<1>2. OB!Written = 0 /\ OB!UrgentSent = {}
  BY DEF OB!Init, OB!Written, OB!UrgentSent
<1>3. OobTypes
  BY <1>1, <1>2 DEF OB!Init, OobTypes
<1>4. MarkInv /\ SignalInv
  BY <1>2 DEF OB!Init, MarkInv, SignalInv
<1>5. ob_pc \in {"select", "setown", "atmark"} /\ (ByXset => ob_pc = "select")
  BY DEF OB!Init, OB!Start, ByXset
<1>6. XsetInv
  BY <1>5 DEF OB!Init, XsetInv, NotPassed, Readable, Reported, SafeRead, StopsBefore, JustRead,
              TakenOnce
<1>7. ErrorInv
  BY <1>5 DEF OB!Init, ErrorInv, OB!LastUrgentByteRead, OB!SecondRecvOnlyAtMark
<1> QED
  BY <1>3, <1>4, <1>6, <1>7 DEF OobInv

\* The sender writes.
LEMMA WriteStep == OobInv /\ OB!Write => OobInv'
<1> SUFFICES ASSUME OobInv, OB!Write PROVE OobInv'
  OBVIOUS
<1>1. /\ ob_writes < Len(ob_script) /\ ob_writes' = ob_writes + 1
      /\ UNCHANGED <<ob_version, ob_script, ob_arrived, ob_mark, ob_oob, ob_pulled, ob_pos,
                     ob_pending, ob_merged, ob_missed, ob_pc, ob_handler, ob_ready,
                     ob_justreadoob, ob_oobpos, ob_got, ob_errno>>
  BY DEF OB!Write, OB!stream, OB!notice
<1>2. /\ OB!Written = EndOf(ob_script, ob_writes)
      /\ OB!UrgentSent = UrgentOf(ob_script, ob_writes)
  BY DEF OB!Written, OB!UrgentSent, EndOf, UrgentOf
<1>3. /\ OB!Written' = EndOf(ob_script, ob_writes + 1)
      /\ OB!UrgentSent' = UrgentOf(ob_script, ob_writes + 1)
  BY <1>1 DEF OB!Written, OB!UrgentSent, EndOf, UrgentOf
<1>4. /\ ob_writes' \in 0 .. Len(ob_script) /\ OB!Written < OB!Written'
      /\ OB!UrgentSent \subseteq OB!UrgentSent'
      /\ \A u \in OB!UrgentSent' : u \in OB!UrgentSent \/ u = OB!Written'
  BY <1>1, <1>2, <1>3, ScriptGrows DEF OobInv, OobTypes
<1>5. OB!Written \in Nat /\ OB!Written' \in Nat
  BY <1>1, <1>3, <1>4, StreamFacts, ScriptFacts DEF OobInv, OobTypes
<1>6. OobTypes'
  BY <1>1, <1>4, <1>5 DEF OobInv, OobTypes
<1>7. ~OB!Finished
  BY <1>1 DEF OB!Finished, OobInv, OobTypes
<1>8. MarkInv'
  BY <1>1, <1>4, <1>5 DEF OobInv, OobTypes, MarkInv
<1>9. /\ OB!Signalled' = OB!Signalled /\ OB!Inline' = OB!Inline
      /\ OB!OneShot' = OB!OneShot /\ ByXset' = ByXset
  BY <1>1 DEF OB!Signalled, OB!Pauses, OB!Inline, OB!OneShot, ByXset
<1>10. SignalInv'
  BY <1>1, <1>9 DEF OobInv, SignalInv
<1>11. XsetInv'
  BY <1>1, <1>7, <1>9 DEF OobInv, XsetInv, NotPassed, Readable, Reported, SafeRead,
                          StopsBefore, JustRead, TakenOnce
<1>12. ErrorInv'
  BY <1>1, <1>9 DEF OobInv, ErrorInv, OB!LastUrgentByteRead, OB!SecondRecvOnlyAtMark
<1> QED
  BY <1>6, <1>8, <1>10, <1>11, <1>12 DEF OobInv

\* The kinds of receivers do not change.
SameKind ==
  /\ ob_version' = ob_version /\ ob_script' = ob_script /\ ob_writes' = ob_writes

LEMMA Kinds ==
  ASSUME SameKind
  PROVE  /\ OB!Signalled' = OB!Signalled /\ OB!Inline' = OB!Inline
         /\ OB!OneShot' = OB!OneShot /\ ByXset' = ByXset
         /\ OB!Written' = OB!Written /\ OB!UrgentSent' = OB!UrgentSent
BY DEF SameKind, OB!Signalled, OB!Pauses, OB!Inline, OB!OneShot, ByXset, OB!Written, OB!UrgentSent

\* TCP delivers data and urgent pointers.
LEMMA DeliverStep == OobInv /\ OB!Deliver => OobInv'
<1> SUFFICES ASSUME OobInv, OB!Deliver PROVE OobInv'
  OBVIOUS
<1>1. PICK n \in ob_arrived .. OB!Written, m \in OB!UrgentSent \union {ob_mark} :
        /\ m >= ob_mark /\ \A u \in OB!UrgentSent : u <= n => u <= m
        /\ ob_arrived' = n /\ ob_mark' = m
        /\ ob_oob' = IF m > ob_mark \/ ob_oob = "coming"
                     THEN IF m <= n THEN "here" ELSE "coming"
                     ELSE ob_oob
        /\ ob_pulled' = IF ob_oob' = "here" /\ ~OB!Inline THEN ob_pulled \union {m} ELSE ob_pulled
        /\ IF m > ob_mark /\ OB!Signalled
           THEN IF ob_pc = "setown"
                THEN ob_missed' = m /\ UNCHANGED <<ob_pending, ob_merged>>
                ELSE /\ ob_pending' = TRUE /\ ob_merged' = (ob_merged \/ ob_pending \/ ob_handler)
                     /\ UNCHANGED ob_missed
           ELSE UNCHANGED <<ob_pending, ob_merged, ob_missed>>
  BY DEF OB!Deliver, OB!notice
<1>2. /\ UNCHANGED <<ob_version, ob_script, ob_writes, ob_pos, ob_pc, ob_handler, ob_ready,
                     ob_justreadoob, ob_oobpos, ob_got, ob_errno>>
      /\ ob_pc \notin {"error", "eof"}
  BY DEF OB!Deliver, OB!sender
<1>3. SameKind
  BY <1>2 DEF SameKind
<1>4. OobTypes /\ MarkInv /\ SignalInv /\ XsetInv /\ ErrorInv
  BY DEF OobInv
<1>5. /\ n \in Nat /\ m \in Nat /\ ob_mark \in Nat /\ ob_arrived \in Nat /\ ob_pos \in Nat
      /\ ob_pos <= ob_arrived /\ ob_arrived <= n /\ n <= OB!Written /\ OB!Written \in Nat
      /\ ob_mark <= m /\ m \in OB!UrgentSent \union {0}
  BY <1>1, <1>4, StreamFacts DEF OobTypes
<1>6. m = 0 \/ m \in OB!UrgentSent
  BY <1>5
<1>7. OobTypes'
  <2>1. ob_pulled' \subseteq OB!UrgentSent
    BY <1>1, <1>4, <1>5, <1>6 DEF OobTypes, MarkInv
  <2> QED
    BY <1>1, <1>2, <1>3, <1>4, <1>5, <2>1, Kinds DEF OobTypes
\* A new mark is ahead of all data and not next to the old one.
<1>8. ASSUME m > ob_mark PROVE m \in OB!UrgentSent /\ ob_arrived < m /\ ~OB!Finished
  <2>1. m \in OB!UrgentSent
    BY <1>1, <1>5, <1>8
  <2>2. ob_arrived < m
    BY <1>4, <1>5, <1>8, <2>1 DEF MarkInv
  <2>3. m <= OB!Written
    BY <1>4, <2>1, StreamFacts
  <2> QED
    BY <1>5, <2>1, <2>2, <2>3 DEF OB!Finished
<1>9. ASSUME m > ob_mark, ob_mark # 0 PROVE ob_mark + 1 < m
  <2>1. ob_mark \in OB!UrgentSent /\ m \in OB!UrgentSent
    BY <1>4, <1>8, <1>9 DEF OobTypes
  <2>2. m # ob_mark + 1
    BY <1>4, <2>1, StreamFacts
  <2> QED
    BY <1>5, <1>9, <2>2
<1>10. MarkInv'
  <2>1. \A u \in OB!UrgentSent' : u <= ob_arrived' => u <= ob_mark'
    BY <1>1, <1>3, Kinds
  <2>2. ob_mark' # 0 => ob_oob' \in {"coming", "here", "taken"}
    BY <1>1, <1>4, <1>5 DEF MarkInv
  <2>3. ob_oob' \in {"here", "taken"} => ob_mark' <= ob_arrived'
    BY <1>1, <1>4, <1>5 DEF MarkInv
  <2>4. ob_mark' = 0 => ob_oob' = "none"
    BY <1>1, <1>4, <1>5 DEF MarkInv
  <2> QED
    BY <2>1, <2>2, <2>3, <2>4 DEF MarkInv
<1>11. m > ob_mark \/ m = ob_mark
  BY <1>5
<1>12. SignalInv'
  <2> SUFFICES ASSUME OB!Signalled PROVE SignalInv'
    BY <1>3, Kinds DEF SignalInv
  <2>1. CASE m > ob_mark /\ ob_pc = "setown"
    <3>1. ob_missed' = ob_mark' /\ UNCHANGED <<ob_pending, ob_merged, ob_handler>>
      BY <1>1, <1>2, <2>1
    <3>2. ob_oob' \in {"here", "coming"}
      BY <1>1, <2>1
    <3> QED
      BY <1>4, <3>1, <3>2 DEF SignalInv
  <2>2. CASE m > ob_mark /\ ob_pc # "setown"
    <3>1. /\ ob_pending' /\ ob_merged' = (ob_merged \/ ob_pending \/ ob_handler)
          /\ ob_handler' = ob_handler
      BY <1>1, <1>2, <2>2
    <3>2. ob_oob' \in {"here", "coming"}
      BY <1>1, <2>2
    <3>3. ob_handler => ob_merged'
      BY <3>1
    <3> QED
      BY <1>4, <3>1, <3>2, <3>3 DEF SignalInv
  <2>3. CASE m = ob_mark
    <3>1. UNCHANGED <<ob_pending, ob_merged, ob_missed, ob_handler, ob_mark, ob_got, ob_pc>>
      BY <1>1, <1>2, <1>5, <2>3
    <3>2. ob_oob' = ob_oob \/ ob_oob' \in {"here", "coming"}
      BY <1>1
    <3> QED
      BY <1>4, <3>1, <3>2 DEF SignalInv
  <2> QED
    BY <1>11, <2>1, <2>2, <2>3
<1>13. XsetInv'
  <2> SUFFICES ASSUME ByXset PROVE XsetInv'
    BY <1>3, Kinds DEF XsetInv
  <2>1. /\ ob_pc \in {"select", "xset", "rset", "eof", "error"} /\ ~ob_handler
        /\ NotPassed /\ Readable /\ Reported /\ SafeRead /\ JustRead /\ TakenOnce
    BY <1>4 DEF XsetInv
  <2>2. NotPassed'
    BY <1>1, <1>2, <1>5, <1>8, <1>11, <2>1 DEF NotPassed
  <2>3. OB!Finished => OB!Finished'
    BY <1>1, <1>2, <1>3, <1>5, Kinds DEF OB!Finished
  <2>4. Readable'
    BY <1>1, <1>2, <1>5, <2>1, <2>3 DEF Readable
  <2>5. Reported'
    BY <1>1, <1>2, <1>3, <1>5, <2>1, Kinds DEF Reported
  <2>6. ASSUME ob_pos < ob_arrived \/ OB!Finished, StopsBefore PROVE StopsBefore'
    BY <1>1, <1>2, <1>5, <1>8, <1>11, <2>6 DEF StopsBefore
  <2>7. SafeRead'
    BY <1>2, <2>1, <2>6 DEF SafeRead, Readable
  <2>8. JustRead'
    <3>1. ASSUME ob_justreadoob = 1 PROVE ob_pos < ob_mark /\ StopsBefore
      BY <1>2, <2>1, <3>1 DEF JustRead
    <3>2. ASSUME ob_pos < ob_mark, StopsBefore PROVE ob_pos < m /\ StopsBefore'
      BY <1>1, <1>2, <1>5, <1>9, <1>11, <3>2 DEF StopsBefore
    <3> QED
      BY <1>1, <1>2, <3>1, <3>2 DEF JustRead
  <2>9. TakenOnce'
    BY <1>1, <1>2, <1>3, <1>11, <2>1, Kinds DEF TakenOnce
  <2> QED
    BY <1>2, <2>1, <2>2, <2>4, <2>5, <2>7, <2>8, <2>9 DEF XsetInv
<1>14. ErrorInv'
  BY <1>2, <1>4 DEF ErrorInv, OB!LastUrgentByteRead, OB!SecondRecvOnlyAtMark
<1> QED
  BY <1>7, <1>10, <1>12, <1>13, <1>14 DEF OobInv

\* The receiver leaves the stream and the mark as they are.
SameStream ==
  SameKind /\ UNCHANGED <<ob_arrived, ob_mark, ob_pulled>>

LEMMA StreamStays ==
  ASSUME OobInv, SameStream, ob_pos' \in Nat, ob_pos' <= ob_arrived, ob_oobpos' \in Int,
         ob_justreadoob' \in {0, 1}, ob_oob' = ob_oob \/ (ob_oob = "here" /\ ob_oob' = "taken")
  PROVE  OobTypes' /\ MarkInv' /\ (OB!Finished' <=> OB!Finished)
<1>1. SameKind /\ UNCHANGED <<ob_arrived, ob_mark, ob_pulled>>
  BY DEF SameStream
<1>2. OobTypes'
  BY <1>1, Kinds DEF SameKind, OobInv, OobTypes
<1>3. MarkInv'
  BY <1>1, Kinds DEF OobInv, MarkInv
<1>4. OB!Finished' <=> OB!Finished
  BY <1>1, Kinds DEF OB!Finished, SameKind
<1> QED
  BY <1>2, <1>3, <1>4

\* select or poll returns.
LEMMA SelectStep == OobInv /\ ByXset /\ OB!Select => OobInv'
<1> SUFFICES ASSUME OobInv, ByXset, OB!Select PROVE OobInv'
  OBVIOUS
<1>1. /\ SameStream
      /\ UNCHANGED <<ob_oob, ob_pos, ob_pending, ob_merged, ob_missed, ob_handler,
                     ob_justreadoob, ob_oobpos, ob_got, ob_errno>>
      /\ ob_pc = "select" /\ ob_pc' = "xset"
  BY DEF OB!Select, SameStream, SameKind, OB!sender, OB!stream, OB!notice
<1>2. /\ ob_ready'.x <=> (OB!Exceptional /\ OB!WatchesExceptions)
      /\ ob_ready'.r <=> (OB!InBand # {} \/ OB!EndOfStream)
  BY DEF OB!Select
<1>3. OobTypes /\ MarkInv /\ XsetInv /\ ErrorInv
  BY DEF OobInv
<1>4. NotPassed /\ JustRead /\ TakenOnce /\ ~ob_handler
  BY <1>3 DEF XsetInv
<1>5. ob_mark \in Nat /\ ob_pos \in Nat /\ ob_arrived \in Nat /\ ob_pos <= ob_arrived
  BY <1>3, StreamFacts DEF OobTypes
<1>6. SameKind /\ ob_mark' = ob_mark /\ ob_arrived' = ob_arrived
  BY <1>1 DEF SameStream
<1>7. OobTypes' /\ MarkInv' /\ (OB!Finished' <=> OB!Finished)
  BY <1>1, <1>3, <1>5, StreamStays DEF OobTypes
<1>8. ByXset' /\ ~OB!Signalled' /\ OB!OneShot' = OB!OneShot /\ OB!Inline' = OB!Inline
  BY <1>6, Kinds DEF ByXset
<1>9. NotPassed' /\ JustRead' /\ TakenOnce'
  BY <1>1, <1>4, <1>6, <1>8 DEF NotPassed, JustRead, TakenOnce, StopsBefore
<1>10. Readable'
  <2>1. OB!InBand # {} => ob_pos < ob_arrived
    BY <1>5 DEF OB!InBand, OB!Limit
  <2>2. OB!EndOfStream => OB!Finished
    BY DEF OB!EndOfStream
  <2> QED
    BY <1>1, <1>2, <1>6, <1>7, <2>1, <2>2 DEF Readable
<1>11. Reported'
  BY <1>1, <1>2, <1>6, <1>8 DEF Reported, OB!Exceptional, OB!WatchesExceptions
<1>12. SafeRead'
  <2>1. ASSUME ~OB!Exceptional PROVE StopsBefore
    BY <1>4, <1>5, <2>1 DEF OB!Exceptional, NotPassed, StopsBefore
  <2>2. ASSUME ~OB!WatchesExceptions PROVE StopsBefore
    <3>1. ob_justreadoob = 1
      BY <1>3, <2>2 DEF OB!WatchesExceptions, OobTypes
    <3> QED
      BY <1>1, <1>4, <3>1 DEF JustRead
  <2>3. StopsBefore => StopsBefore'
    BY <1>1, <1>6 DEF StopsBefore
  <2> QED
    BY <1>1, <1>2, <2>1, <2>2, <2>3 DEF SafeRead
<1>13. XsetInv'
  BY <1>1, <1>4, <1>9, <1>10, <1>11, <1>12 DEF XsetInv
<1>14. ErrorInv'
  BY <1>1, <1>3 DEF ErrorInv, OB!LastUrgentByteRead, OB!SecondRecvOnlyAtMark
<1>15. SignalInv'
  BY <1>8 DEF SignalInv
<1> QED
  BY <1>7, <1>13, <1>14, <1>15 DEF OobInv

\* Recv(MSG_OOB) after select has reported the mark.
LEMMA TestXsetStep == OobInv /\ ByXset /\ OB!TestXset => OobInv'
<1> SUFFICES ASSUME OobInv, ByXset, OB!TestXset PROVE OobInv'
  OBVIOUS
<1>1. /\ SameStream /\ ob_pc = "xset"
      /\ UNCHANGED <<ob_pos, ob_pending, ob_merged, ob_missed, ob_handler, ob_ready>>
  BY DEF OB!TestXset, SameStream, SameKind, OB!sender, OB!stream, OB!notice
<1>2. OobTypes /\ MarkInv /\ XsetInv /\ ErrorInv
  BY DEF OobInv
<1>3. NotPassed /\ Readable /\ Reported /\ SafeRead /\ JustRead /\ TakenOnce /\ ~ob_handler
  BY <1>2 DEF XsetInv
<1>4. ob_mark \in Nat /\ ob_pos \in Nat /\ ob_arrived \in Nat /\ ob_pos <= ob_arrived
  BY <1>2, StreamFacts DEF OobTypes
<1>5. SameKind /\ ob_mark' = ob_mark /\ ob_arrived' = ob_arrived
  BY <1>1 DEF SameStream
<1>6. ByXset' /\ ~OB!Signalled' /\ OB!OneShot' = OB!OneShot /\ OB!Inline' = OB!Inline
  BY <1>5, Kinds DEF ByXset
<1>7. SignalInv'
  BY <1>6 DEF SignalInv
<1>8. ob_errno = "none"
  BY <1>1, <1>2 DEF ErrorInv
<1>9. CASE ob_ready.x /\ ob_oob = "here"
  <2>1. /\ ob_got' = ob_got \union {ob_mark} /\ ob_oob' = "taken" /\ ob_oobpos' = ob_pos
        /\ ob_pc' = "rset" /\ ob_errno' = ob_errno
        /\ ob_justreadoob' = IF OB!OneShot THEN 1 ELSE 0
    BY <1>9 DEF OB!TestXset, OB!RecvOob
  <2>2. OobTypes' /\ MarkInv' /\ (OB!Finished' <=> OB!Finished)
    BY <1>1, <1>4, <1>9, <2>1, StreamStays
  <2>3. ob_pos < ob_mark
    BY <1>1, <1>3, <1>9 DEF Reported
  <2>4. StopsBefore' /\ NotPassed'
    BY <1>1, <1>5, <2>1 DEF StopsBefore, NotPassed
  <2>5. Readable' /\ Reported' /\ SafeRead'
    BY <1>1, <1>3, <1>5, <2>1, <2>2, <2>4 DEF Readable, Reported, SafeRead
  <2>6. JustRead' /\ TakenOnce'
    BY <1>1, <1>4, <1>5, <1>6, <2>1, <2>3, <2>4 DEF JustRead, TakenOnce
  <2>7. XsetInv'
    BY <1>1, <1>3, <2>1, <2>4, <2>5, <2>6 DEF XsetInv
  <2>8. ErrorInv'
    BY <1>8, <2>1 DEF ErrorInv, OB!LastUrgentByteRead, OB!SecondRecvOnlyAtMark
  <2> QED
    BY <1>7, <2>2, <2>7, <2>8 DEF OobInv
<1>10. CASE ob_ready.x /\ ob_oob # "here"
  <2>1. /\ ob_errno' = IF ob_oob = "coming" THEN "EWOULDBLOCK" ELSE "EINVAL"
        /\ ob_pc' = "error" /\ UNCHANGED <<ob_got, ob_oob, ob_oobpos>>
        /\ ob_justreadoob' = IF OB!OneShot THEN 1 ELSE 0
    BY <1>10 DEF OB!TestXset, OB!RecvOob
  <2>2. OobTypes' /\ MarkInv' /\ (OB!Finished' <=> OB!Finished)
    BY <1>1, <1>2, <1>4, <2>1, StreamStays DEF OobTypes
  <2>3. ob_pos < ob_mark /\ (OB!OneShot => ob_justreadoob = 0)
    BY <1>1, <1>3, <1>10 DEF Reported
  <2>4. XsetInv'
    BY <1>1, <1>3, <1>5, <1>6, <2>1 DEF XsetInv, NotPassed, Readable, Reported, SafeRead,
                                        JustRead, TakenOnce
  <2>5. ob_oob = "coming" \/ ob_oob = "taken"
    BY <1>2, <1>4, <1>10, <2>3 DEF MarkInv
  <2>6. ASSUME ob_errno' = "EINVAL", OB!OneShot PROVE ob_oobpos < ob_pos /\ ob_pos = ob_mark - 1
    <3>1. ob_oob = "taken"
      BY <2>1, <2>5, <2>6
    <3>2. ob_oobpos < ob_pos /\ ob_mark - 1 <= ob_pos
      BY <1>3, <2>3, <2>6, <3>1 DEF TakenOnce
    <3> QED
      BY <1>4, <2>3, <3>2
  <2>7. OB!OneShot \/ ob_version \in {"tcprecv02", "select_receiver"}
    BY <1>2 DEF OobTypes, ByXset, OB!Signalled, OB!Pauses, OB!Inline, OB!OneShot, OB!Versions
  <2>8. OB!SecondRecvOnlyAtMark'
    BY <1>1, <1>5, <1>6, <2>1, <2>3, <2>6, <2>7 DEF OB!SecondRecvOnlyAtMark, SameKind
  <2>9. ErrorInv'
    BY <1>1, <1>3, <1>6, <2>1, <2>8 DEF ErrorInv, OB!LastUrgentByteRead, ByXset
  <2> QED
    BY <1>7, <2>2, <2>4, <2>9 DEF OobInv
<1>11. CASE ~ob_ready.x
  <2>1. ob_pc' = "rset" /\ UNCHANGED <<ob_oob, ob_oobpos, ob_got, ob_errno, ob_justreadoob>>
    BY <1>11 DEF OB!TestXset
  <2>2. OobTypes' /\ MarkInv' /\ (OB!Finished' <=> OB!Finished)
    BY <1>1, <1>2, <1>4, <2>1, StreamStays DEF OobTypes
  <2>3. XsetInv'
    BY <1>1, <1>3, <1>5, <1>6, <1>11, <2>1, <2>2
       DEF XsetInv, NotPassed, Readable, Reported, SafeRead, StopsBefore, JustRead, TakenOnce
  <2>4. ErrorInv'
    BY <1>8, <2>1 DEF ErrorInv, OB!LastUrgentByteRead, OB!SecondRecvOnlyAtMark
  <2> QED
    BY <1>7, <2>2, <2>3, <2>4 DEF OobInv
<1> QED
  BY <1>9, <1>10, <1>11

\* At the end of the stream all urgent bytes are at or before the mark.
LEMMA AtTheEnd ==
  ASSUME OobInv, OB!EndOfStream
  PROVE  ob_mark # 0 /\ ~(ob_pos < ob_mark - 1)
<1>1. OobTypes /\ MarkInv
  BY DEF OobInv
<1>2. /\ ob_mark \in Nat /\ ob_pos \in Nat /\ ob_arrived \in Nat /\ ob_arrived = OB!Written
      /\ ob_writes = Len(ob_script)
      /\ (ob_pos + 1 .. ob_arrived) \subseteq ob_pulled
  BY <1>1, StreamFacts DEF OobTypes, OB!EndOfStream, OB!Finished
<1>3. PICK u \in OB!UrgentSent : TRUE
  BY <1>1, <1>2, StreamFacts
<1>4. u \in Nat /\ 2 <= u /\ u <= ob_mark
  BY <1>1, <1>2, StreamFacts DEF MarkInv
<1>5. ob_mark # 0 /\ ob_mark \in OB!UrgentSent /\ ob_mark <= ob_arrived
  BY <1>1, <1>2, <1>4, StreamFacts DEF OobTypes
<1>6. ASSUME ob_pos < ob_mark - 1 PROVE FALSE
  <2>1. ob_mark - 1 \in ob_pos + 1 .. ob_arrived
    BY <1>2, <1>5, <1>6
  <2>2. ob_mark - 1 \in OB!UrgentSent
    BY <1>1, <1>2, <2>1 DEF OobTypes
  <2>3. ob_mark # (ob_mark - 1) + 1
    BY <1>1, <1>5, <2>2, StreamFacts
  <2> QED
    BY <1>2, <2>3
<1> QED
  BY <1>5, <1>6

\* Normal data, or end of file.
LEMMA ReadStep == OobInv /\ OB!Read => OobInv'
<1> SUFFICES ASSUME OobInv, OB!Read PROVE OobInv'
  OBVIOUS
<1>1. /\ SameStream
      /\ UNCHANGED <<ob_oob, ob_pending, ob_merged, ob_missed, ob_handler, ob_ready, ob_oobpos,
                     ob_got, ob_errno>>
      /\ ob_pc = "read" \/ (ob_pc = "rset" /\ ob_ready.r)
      /\ ~ob_pending /\ ~ob_handler
  BY DEF OB!Read, OB!MainRuns, SameStream, SameKind, OB!sender, OB!stream, OB!notice
<1>2. OobTypes /\ MarkInv /\ SignalInv /\ XsetInv /\ ErrorInv
  BY DEF OobInv
<1>3. /\ ob_mark \in Nat /\ ob_pos \in Nat /\ ob_arrived \in Nat /\ ob_pos <= ob_arrived
      /\ ob_oobpos \in Int /\ ob_justreadoob \in {0, 1}
  BY <1>2, StreamFacts DEF OobTypes
<1>4. SameKind /\ ob_mark' = ob_mark /\ ob_arrived' = ob_arrived
  BY <1>1 DEF SameStream
<1>5. /\ ByXset' = ByXset /\ OB!Signalled' = OB!Signalled
      /\ OB!OneShot' = OB!OneShot /\ OB!Inline' = OB!Inline
  BY <1>4, Kinds
<1>6. ob_errno = "none"
  BY <1>1, <1>2 DEF ErrorInv
<1>7. SignalInv'
  BY <1>1, <1>2, <1>4, <1>5 DEF SignalInv
<1>8. CASE OB!InBand # {}
  <2>1. ob_pc' = OB!Loop /\ ob_pos' = OB!Limit /\ ob_justreadoob' = 0
    BY <1>8 DEF OB!Read, OB!AfterRead
  <2>2. OB!Limit \in Nat /\ ob_pos < OB!Limit /\ OB!Limit <= ob_arrived
    BY <1>3, <1>8 DEF OB!InBand, OB!Limit
  <2>3. OobTypes' /\ MarkInv' /\ (OB!Finished' <=> OB!Finished)
    BY <1>1, <1>3, <2>1, <2>2, StreamStays
  <2>4. ob_pc' # "eof" /\ (ByXset => ob_pc' = "select")
    BY <2>1 DEF OB!Loop, OB!Start, ByXset
  <2>5. ErrorInv'
    BY <1>1, <1>6, <2>4 DEF ErrorInv, OB!LastUrgentByteRead, OB!SecondRecvOnlyAtMark
  <2>6. XsetInv'
    <3> SUFFICES ASSUME ByXset PROVE XsetInv'
      BY <1>5 DEF XsetInv
    <3>1. StopsBefore /\ TakenOnce
      BY <1>1, <1>2 DEF XsetInv, SafeRead
    <3>2. NotPassed'
      BY <1>1, <1>3, <1>4, <2>1, <3>1 DEF NotPassed, StopsBefore, OB!Limit
    <3>3. TakenOnce'
      <4>1. ASSUME ob_oob = "taken" PROVE ob_mark - 1 <= OB!Limit
        BY <1>2, <1>3, <4>1 DEF MarkInv, OB!Limit
      <4> QED
        BY <1>1, <1>3, <1>4, <1>5, <2>1, <2>2, <3>1, <4>1 DEF TakenOnce
    <3> QED
      BY <1>1, <2>1, <2>4, <3>2, <3>3 DEF XsetInv, Readable, Reported, SafeRead, JustRead
  <2> QED
    BY <1>7, <2>3, <2>5, <2>6 DEF OobInv
<1>9. CASE OB!InBand = {}
  <2>1. OB!EndOfStream /\ ob_pc' = "eof" /\ UNCHANGED <<ob_pos, ob_justreadoob>>
    BY <1>9 DEF OB!Read
  <2>2. OobTypes' /\ MarkInv' /\ (OB!Finished' <=> OB!Finished)
    BY <1>1, <1>3, <2>1, StreamStays
  <2>3. ob_mark # 0 /\ ~(ob_pos < ob_mark - 1)
    BY <2>1, AtTheEnd
  <2>4. OB!Signalled => ob_mark \in ob_got \/ ob_missed = ob_mark
    BY <1>1, <1>2, <2>3 DEF SignalInv
  <2>5. ByXset => ob_mark \in ob_got
    BY <1>1, <1>2, <2>3 DEF XsetInv, SafeRead, StopsBefore
  <2>6. OB!LastUrgentByteRead'
    BY <1>1, <1>4, <1>5, <2>4, <2>5 DEF OB!LastUrgentByteRead, ByXset
  <2>7. ErrorInv'
    BY <1>1, <1>6, <2>6 DEF ErrorInv, OB!SecondRecvOnlyAtMark
  <2>8. XsetInv'
    BY <1>1, <1>2, <1>4, <1>5, <2>1
       DEF XsetInv, NotPassed, Readable, Reported, SafeRead, StopsBefore, JustRead, TakenOnce
  <2> QED
    BY <1>7, <2>2, <2>7, <2>8 DEF OobInv
<1> QED
  BY <1>8, <1>9

\* sig_urg reads the byte of its own SIGURG, or fails after a merger.
LEMMA HandlerStep == OobInv /\ OB!Signalled /\ OB!HandlerRecv => OobInv'
<1> SUFFICES ASSUME OobInv, OB!Signalled, OB!HandlerRecv PROVE OobInv'
  OBVIOUS
<1>1. /\ SameStream /\ ob_handler /\ ob_handler' = FALSE
      /\ UNCHANGED <<ob_pos, ob_pending, ob_merged, ob_missed, ob_ready, ob_justreadoob>>
  BY DEF OB!HandlerRecv, SameStream, SameKind, OB!sender, OB!stream, OB!notice
<1>2. OobTypes /\ MarkInv /\ SignalInv /\ ErrorInv
  BY DEF OobInv
<1>3. /\ ob_mark \in Nat /\ ob_pos \in Nat /\ ob_pos <= ob_arrived /\ ob_oobpos \in Int
      /\ ob_justreadoob \in {0, 1}
  BY <1>2, StreamFacts DEF OobTypes
<1>4. SameKind /\ ob_mark' = ob_mark
  BY <1>1 DEF SameStream
<1>5. OB!Signalled' /\ ~ByXset' /\ OB!Inline' = OB!Inline /\ ~OB!Inline
  BY <1>2, <1>4, Kinds DEF ByXset, OB!Signalled, OB!Pauses, OB!Inline
<1>6. XsetInv'
  BY <1>5 DEF XsetInv
<1>7. ob_errno = "none"
  BY <1>1, <1>2 DEF ErrorInv
<1>8. CASE ob_oob = "here"
  <2>1. /\ ob_got' = ob_got \union {ob_mark} /\ ob_oob' = "taken" /\ ob_oobpos' = ob_pos
        /\ ob_pc' = ob_pc /\ ob_errno' = ob_errno
    BY <1>8 DEF OB!HandlerRecv, OB!RecvOob
  <2>2. OobTypes' /\ MarkInv'
    BY <1>1, <1>3, <1>8, <2>1, StreamStays
  <2>3. SignalInv'
    BY <1>1, <1>2, <1>4, <2>1 DEF SignalInv
  <2>4. ErrorInv'
    BY <1>1, <1>2, <1>4, <1>5, <1>7, <2>1
       DEF ErrorInv, OB!LastUrgentByteRead, OB!SecondRecvOnlyAtMark
  <2> QED
    BY <1>6, <2>2, <2>3, <2>4 DEF OobInv
<1>9. CASE ob_oob # "here"
  <2>1. /\ ob_errno' = IF ob_oob = "coming" THEN "EWOULDBLOCK" ELSE "EINVAL"
        /\ ob_pc' = "error" /\ UNCHANGED <<ob_got, ob_oob, ob_oobpos>>
    BY <1>9 DEF OB!HandlerRecv, OB!RecvOob
  <2>2. OobTypes' /\ MarkInv'
    BY <1>1, <1>3, <2>1, StreamStays
  <2>3. ob_merged \/ (ob_oob = "coming" /\ ~ob_pending)
    BY <1>1, <1>2, <1>9 DEF SignalInv
  <2>4. SignalInv'
    BY <1>1, <2>1, <2>3 DEF SignalInv
  <2>5. ErrorInv'
    BY <1>1, <1>5, <2>1, <2>3 DEF ErrorInv, OB!LastUrgentByteRead, OB!SecondRecvOnlyAtMark
  <2> QED
    BY <1>6, <2>2, <2>4, <2>5 DEF OobInv
<1> QED
  BY <1>8, <1>9

\* F_SETOWN, the start of sig_urg, sockatmark and a turn of the loop without data.
LEMMA PlainStep ==
  OobInv /\ \/ OB!Signalled /\ (OB!SetOwner \/ OB!SigUrg)
            \/ OB!Inline /\ OB!Sockatmark
            \/ ByXset /\ OB!NotReadable
    => OobInv'
<1> SUFFICES ASSUME OobInv, \/ OB!Signalled /\ (OB!SetOwner \/ OB!SigUrg)
                            \/ OB!Inline /\ OB!Sockatmark
                            \/ ByXset /\ OB!NotReadable
             PROVE OobInv'
  OBVIOUS
<1>1. /\ SameStream
      /\ UNCHANGED <<ob_oob, ob_pos, ob_merged, ob_missed, ob_ready, ob_justreadoob, ob_oobpos,
                     ob_got, ob_errno>>
  BY DEF OB!SetOwner, OB!SigUrg, OB!Sockatmark, OB!NotReadable, SameStream, SameKind, OB!sender,
         OB!stream, OB!notice
<1>2. OobTypes /\ MarkInv /\ SignalInv /\ XsetInv /\ ErrorInv
  BY DEF OobInv
<1>3. SameKind /\ ob_mark' = ob_mark /\ ob_arrived' = ob_arrived
  BY <1>1 DEF SameStream
<1>4. /\ ByXset' = ByXset /\ OB!Signalled' = OB!Signalled
      /\ OB!OneShot' = OB!OneShot /\ OB!Inline' = OB!Inline
  BY <1>3, Kinds
<1>5. OobTypes' /\ MarkInv' /\ (OB!Finished' <=> OB!Finished)
  BY <1>1, <1>2, StreamStays DEF OobTypes
<1>6. ob_errno = "none" /\ ob_pc' # "eof"
  BY <1>2 DEF ErrorInv, OB!SetOwner, OB!SigUrg, OB!Sockatmark, OB!NotReadable
<1>7. ErrorInv'
  BY <1>1, <1>6 DEF ErrorInv, OB!LastUrgentByteRead, OB!SecondRecvOnlyAtMark
<1>8. SignalInv'
  <2> SUFFICES ASSUME OB!Signalled PROVE SignalInv'
    BY <1>4 DEF SignalInv
  <2>1. ~ByXset /\ ~OB!Inline
    BY DEF ByXset, OB!Signalled, OB!Pauses, OB!Inline
  <2>2. CASE OB!SetOwner
    <3>1. ob_pc = "setown" /\ UNCHANGED <<ob_pending, ob_handler>>
      BY <2>2 DEF OB!SetOwner, OB!notice
    <3> QED
      BY <1>1, <1>2, <1>3, <3>1 DEF SignalInv
  <2>3. CASE OB!SigUrg
    <3>1. ob_pending /\ ~ob_handler /\ ob_handler' = TRUE /\ ob_pending' = FALSE
      BY <2>3 DEF OB!SigUrg
    <3> QED
      BY <1>1, <1>2, <1>3, <3>1 DEF SignalInv
  <2> QED
    BY <2>1, <2>2, <2>3
<1>9. XsetInv'
  <2> SUFFICES ASSUME ByXset PROVE XsetInv'
    BY <1>4 DEF XsetInv
  <2>1. OB!NotReadable
    BY DEF ByXset
  <2>2. ob_pc = "rset" /\ ob_pc' = "select" /\ UNCHANGED ob_handler
    BY <2>1 DEF OB!NotReadable
  <2> QED
    BY <1>1, <1>2, <1>3, <1>4, <2>2
       DEF XsetInv, NotPassed, Readable, Reported, SafeRead, StopsBefore, JustRead, TakenOnce
<1> QED
  BY <1>5, <1>7, <1>8, <1>9 DEF OobInv

LEMMA OobStep == OobInv /\ [OB!Next]_ob_vars => OobInv'
<1> SUFFICES ASSUME OobInv, [OB!Next]_ob_vars PROVE OobInv'
  OBVIOUS
<1>1. CASE OB!Write \/ OB!Deliver
  BY <1>1, WriteStep, DeliverStep
<1>2. CASE OB!Receiver
  <2>1. \/ OB!Signalled /\ (OB!BySignal \/ OB!OnlyOob)
        \/ ByXset /\ OB!BySelect
        \/ OB!Inline /\ OB!AtMark
    BY <1>2 DEF OB!Receiver, OB!Tcprecv01, OB!Tcprecv02, OB!Tcprecv03, OB!Tcprecv03p,
         OB!Tcprecv04, OB!Tcprecv05, OB!Tcprecv06, OB!UrgReceiver, OB!SelectReceiver,
         OB!SelectReceiver2, OB!Receiver04, OB!Receiver05, OB!Signalled, OB!Pauses, OB!Inline,
         ByXset
  <2> QED
    BY <2>1, ReadStep, HandlerStep, PlainStep, SelectStep, TestXsetStep
       DEF OB!BySignal, OB!OnlyOob, OB!BySelect, OB!AtMark
<1>3. CASE UNCHANGED ob_vars
  <2>1. /\ SameStream
        /\ UNCHANGED <<ob_oob, ob_pos, ob_pending, ob_merged, ob_missed, ob_handler, ob_ready,
                       ob_justreadoob, ob_oobpos, ob_got, ob_errno, ob_pc>>
    BY <1>3 DEF ob_vars, SameStream, SameKind
  <2>2. /\ ByXset' = ByXset /\ OB!Signalled' = OB!Signalled
        /\ OB!OneShot' = OB!OneShot /\ OB!Inline' = OB!Inline
    BY <2>1, Kinds DEF SameStream
  <2>3. OobTypes' /\ MarkInv' /\ (OB!Finished' <=> OB!Finished)
    BY <2>1, StreamStays DEF OobInv, OobTypes
  <2>4. SignalInv' /\ XsetInv'
    BY <2>1, <2>2, <2>3 DEF OobInv, SignalInv, XsetInv, NotPassed, Readable, Reported, SafeRead,
         StopsBefore, JustRead, TakenOnce, SameStream
  <2>5. ErrorInv'
    BY <2>1, <2>2 DEF OobInv, ErrorInv, OB!LastUrgentByteRead, OB!SecondRecvOnlyAtMark,
         SameStream, SameKind
  <2> QED
    BY <2>3, <2>4, <2>5 DEF OobInv
<1> QED
  BY <1>1, <1>2, <1>3 DEF OB!Next

\* Urgent data means what the programs take it for: with every interleaving of the
\* sender, TCP, SIGURG and the receiver, the last urgent byte is read before end of
\* file and Recv(MSG_OOB) fails only where the races of tcprecv01.c:42, tcprecv02.c:27
\* and tcprecv03.c:36-43 explain it; and heartbeats end a connection only for silence.
THEOREM UrgentData == SumSpec => []UrgentDataMeans
<1>1. SumInit => OobInv
  BY OobInit DEF SumInit
<1>2. OobInv /\ [SumNext]_all => OobInv'
  <2> SUFFICES ASSUME OobInv, [SumNext]_all PROVE OobInv'
    OBVIOUS
  <2>1. [OB!Next]_ob_vars
    BY DEF SumNext, all, Rtt, Timed, Trace, Urgent, Beat, Pinging, Connecting
  <2> QED
    BY <2>1, OobStep
<1>3. OobInv => OB!LastUrgentByteRead /\ OB!SecondRecvOnlyAtMark
  BY DEF OobInv, ErrorInv
<1> QED
  BY <1>1, <1>2, <1>3, HeartbeatGivesUp, PTL DEF SumSpec, UrgentDataMeans

-----------------------------------------------------------------------------
(* Connects with a time limit                                                *)

\* connect_timeo: nothing is returned before connect; then success on an open
\* socket or an error on a closed one; the limit is set before connect.
TimeoInv ==
  /\ ct_pc \in {"signal", "alarm", "connect", "connecting", "close", "alarm0", "restore", "returned"}
  /\ ct_flags = "blocking"
  /\ ct_pc \in {"signal", "alarm", "connect", "connecting"}
       => ct_n = 0 /\ ct_errno = "none" /\ ct_sock = "open"
  /\ ct_pc \in {"connect", "connecting"} => ct_alarm = "nsec" \/ ct_late
  /\ ct_pc = "close" => ct_n = 1 /\ ct_errno \in {"tcp", "EINTR"} /\ ct_sock = "open"
  /\ ct_pc \in {"alarm0", "restore", "returned"} =>
       \/ ct_n = 0 /\ ct_sock = "open" /\ ct_tcp = "established"
       \/ ct_n = 1 /\ ct_sock = "closed" /\ ct_errno \in {"tcp", "ETIMEDOUT"}
  /\ ct_pc \in {"restore", "returned"} => ct_alarm = "off"
  /\ ct_pc = "returned" => ct_handler = "caller"

\* connect_nonb: the caller's handler and clock are not touched.
NonbInv ==
  /\ ct_pc \in {"fcntl", "connect_nonb", "select", "done", "returned"}
  /\ ct_handler = "caller" /\ ct_alarm # "nsec"
  /\ ct_pc \in {"fcntl", "connect_nonb", "select"}
       => ct_n = 0 /\ ct_errno = "none" /\ ct_sock = "open"
  /\ ct_pc = "done" =>
       /\ ct_n = 0 /\ ct_sock = "open"
       /\ \/ ct_errno = "none" /\ ct_tcp = "established"
          \/ ct_errno = "tcp" /\ ct_tcp = "failed"
  /\ ct_pc = "returned" =>
       \/ ct_n = 0 /\ ct_sock = "open" /\ ct_tcp = "established" /\ ct_flags = "blocking"
       \/ ct_n = 1 /\ ct_sock = "closed" /\ ct_errno \in {"tcp", "ETIMEDOUT"}
       \/ ct_n = 1 /\ ct_sock = "open" /\ ct_errno = "tcp" /\ ct_tcp = "failed"

ConnectInv ==
  /\ ct_version \in {"timeo", "nonb", "nonb0"}
  /\ ct_version = "timeo" => TimeoInv
  /\ ct_version # "timeo" => NonbInv

LEMMA ConnectInit == CT!Init => ConnectInv
BY DEF CT!Init, ConnectInv, TimeoInv, NonbInv

LEMMA ConnectStep == ConnectInv /\ [CT!Next]_ct_vars => ConnectInv'
<1> SUFFICES ASSUME ConnectInv, [CT!Next]_ct_vars PROVE ConnectInv'
  OBVIOUS
<1> USE DEF ConnectInv, CT!At, CT!Goto
<1>1. CASE CT!Tcp
  BY <1>1 DEF CT!Tcp, TimeoInv, NonbInv
<1>2. CASE CT!Signal \/ CT!SetAlarm \/ CT!Connect \/ CT!Connected
  BY <1>2 DEF CT!Signal, CT!SetAlarm, CT!AlarmAfter, CT!Connect, CT!Connected, TimeoInv, NonbInv
<1>3. CASE CT!Close \/ CT!Alarm0 \/ CT!Restore
  BY <1>3 DEF CT!Close, CT!Eintr, CT!Alarm0, CT!Restore, TimeoInv, NonbInv
<1>4. CASE CT!SigAlrm
  <2>1. ct_version = "timeo" /\ TimeoInv
    BY <1>4 DEF CT!SigAlrm
  <2>2. CASE ct_pc = "connecting"
    BY <1>4, <2>1, <2>2 DEF CT!SigAlrm, TimeoInv
  <2>3. CASE ct_pc = "connect"
    <3>1. ct_alarm = "nsec" \/ ct_late
      BY <2>1, <2>3 DEF TimeoInv
    <3>2. ct_late' = (ct_late \/ (ct_alarm = "nsec" /\ ct_pc = "connect"))
      BY <1>4 DEF CT!SigAlrm
    <3>3. ct_late'
      BY <2>3, <3>1, <3>2, Zenon
    <3> QED
      BY <1>4, <2>1, <2>3, <3>3 DEF CT!SigAlrm, TimeoInv
  <2>4. CASE ct_pc \notin {"connect", "connecting"}
    BY <1>4, <2>1, <2>4 DEF CT!SigAlrm, TimeoInv
  <2> QED
    BY <2>2, <2>3, <2>4
<1>5. CASE CT!Nonb
  BY <1>5 DEF CT!Nonb, CT!Nonblock, CT!ConnectNonb, CT!SelectReady, CT!SelectTimeout, CT!Done,
              TimeoInv, NonbInv
<1>6. CASE UNCHANGED ct_vars
  BY <1>6 DEF ct_vars, TimeoInv, NonbInv
<1> QED
  BY <1>1, <1>2, <1>3, <1>4, <1>5, <1>6 DEF CT!Next, CT!Timeo

LEMMA ConnectMeans == ConnectInv => CT!TimedConnect
BY DEF ConnectInv, TimeoInv, NonbInv, CT!TimedConnect, CT!ReturnsAsAsked, CT!LimitKept

\* Connects with a time limit, whatever the alarm and TCP do and in whichever order,
\* return what their callers rely on (lib/connect_timeo.c:8-33, lib/connect_nonb.c):
\* an established connection on an open socket, or an error; and the limit is kept.
THEOREM TimedConnects == SumSpec => []CT!TimedConnect
<1>1. SumInit => ConnectInv
  BY ConnectInit DEF SumInit
<1>2. ConnectInv /\ [SumNext]_all => ConnectInv'
  <2> SUFFICES ASSUME ConnectInv, [SumNext]_all PROVE ConnectInv'
    OBVIOUS
  <2>1. [CT!Next]_ct_vars
    BY DEF SumNext, all, Rtt, Timed, Trace, Urgent, Beat, Pinging, Connecting
  <2> QED
    BY <2>1, ConnectStep
<1> QED
  BY <1>1, <1>2, ConnectMeans, PTL DEF SumSpec

-----------------------------------------------------------------------------
(* traceroute                                                                *)

TraceTypes ==
  /\ tr_pc \in {"probe", "alarm", "test", "call", "recvfrom", "cancel", "print", "end"}
  /\ tr_version \in TR!Versions /\ tr_dist \in Nat
  /\ tr_ttl \in Nat \ {0} /\ tr_probe \in 0 .. Nprobes - 1
  /\ tr_seq \in Nat /\ tr_done \in Nat
  /\ tr_ret \in TR!Results
  /\ tr_transit \in SUBSET Nat

\* The sequence number tells the hop and the probe, as recv_v4 relies on.
SeqTells ==
  /\ tr_pc = "probe" => tr_seq = (tr_ttl - 1) * Nprobes + tr_probe
  /\ tr_pc \notin {"probe", "end"} => tr_seq = (tr_ttl - 1) * Nprobes + tr_probe + 1

\* What recv is about to return is true of the hop, or recv_v6 has been misled.
ReturnsTrue == tr_mistaken \/ TR!TrueOf(tr_ttl)

\* Reached has been printed only at the destination or past it.
DoneThere ==
  /\ FALSE \notin tr_misprinted
  /\ tr_done # 0 /\ tr_misprinted = {} =>
       tr_ttl >= tr_dist /\ (tr_pc = "end" => tr_ttl > tr_dist)
  /\ tr_pc = "end" /\ tr_ttl <= MaxTtl => tr_done # 0

TraceInv == TraceTypes /\ SeqTells /\ ReturnsTrue /\ DoneThere

\* traceloop.c:36-45 numbers the probes of all hops consecutively.
LEMMA HopOfSeq ==
  ASSUME NEW t \in Nat \ {0}, NEW p \in 0 .. Nprobes - 1
  PROVE  TR!TtlOf((t - 1) * Nprobes + p + 1) = t
<1> DEFINE u == t - 1
<1>1. u \in Nat /\ t = u + 1
  OBVIOUS
<1>2. TR!TtlOf(u * Nprobes + p + 1) = 1 + ((u * Nprobes + p + 1) - 1) \div Nprobes
  BY DEF TR!TtlOf
<1> HIDE DEF u
<1>3. u * Nprobes \in Nat
  BY <1>1, TraceAssumption
<1>4. (u * Nprobes + p + 1) - 1 = u * Nprobes + p
  BY <1>3, TraceAssumption
<1>5. (u * Nprobes + p) \div Nprobes = u
  BY <1>1, TraceAssumption
<1>6. TR!TtlOf(u * Nprobes + p + 1) = t
  BY <1>1, <1>2, <1>4, <1>5
<1> QED
  BY <1>6 DEF u

LEMMA TraceInit == TR!Init => TraceInv
<1> SUFFICES ASSUME TR!Init PROVE TraceInv
  OBVIOUS
<1>1. TraceTypes
  BY TraceAssumption DEF TR!Init, TraceTypes, TR!Versions, TR!Results
<1>3. ReturnsTrue
  BY DEF TR!Init, ReturnsTrue, TR!TrueOf, TR!Timedout, TR!Intransit, TR!Reached
<1>4. DoneThere
  BY DEF TR!Init, DoneThere
<1>2. SeqTells
  BY TraceAssumption DEF TR!Init, SeqTells
<1> QED
  BY <1>1, <1>2, <1>3, <1>4 DEF TraceInv

LEMMA RecvProbeStep == TraceInv /\ TR!Recvfrom => TraceInv'
<1> SUFFICES ASSUME TraceInv, TR!Recvfrom PROVE TraceInv'
  OBVIOUS
<1>1. /\ tr_pc = "recvfrom" /\ tr_pc' \in {"cancel", "test"}
      /\ UNCHANGED <<tr_version, tr_dist, tr_ttl, tr_probe, tr_seq, tr_done, tr_misprinted>>
  BY DEF TR!Recvfrom, TR!fixed, TR!loop
<1>2. PICK m \in TR!Messages :
        /\ tr_transit' = tr_transit \ {m.n}
        /\ \/ TR!Matches(m) /\ tr_ret' = TR!Code(m) /\ tr_mistaken' = tr_mistaken
           \/ tr_ret' \in TR!Results /\ tr_mistaken' = TRUE
           \/ tr_ret' = tr_ret /\ tr_mistaken' = tr_mistaken
  BY DEF TR!Recvfrom
<1>3. tr_seq \in Nat \ {0} /\ TR!TtlOf(tr_seq) = tr_ttl
  <2>1. tr_seq = (tr_ttl - 1) * Nprobes + tr_probe + 1
    BY <1>1 DEF TraceInv, SeqTells
  <2>2. TR!TtlOf(tr_seq) = tr_ttl
    BY <2>1, HopOfSeq DEF TraceInv, TraceTypes
  <2>3. (tr_ttl - 1) * Nprobes \in Nat
    BY TraceAssumption DEF TraceInv, TraceTypes
  <2>4. tr_seq # 0
    BY <2>1, <2>3, TraceAssumption DEF TraceInv, TraceTypes
  <2> QED
    BY <2>2, <2>4 DEF TraceInv, TraceTypes
<1>4. TR!Matches(m) => m.kind = "unreach" \/ m.kind = (IF tr_ttl < tr_dist THEN "exceeded" ELSE "port")
  <2> SUFFICES ASSUME m.n = tr_seq
               PROVE  m.kind = "unreach" \/ m.kind = (IF tr_ttl < tr_dist THEN "exceeded" ELSE "port")
    BY DEF TR!Matches
  <2>1. m \notin [n : IF tr_foreign < MaxForeign THEN {0} ELSE {}, kind : {"exceeded", "port"}]
    BY <1>3
  <2>2. PICK k \in tr_transit : m \in [n : {k}, kind : TR!Kinds(k)]
    <3>1. m \in UNION {[n : {k}, kind : TR!Kinds(k)] : k \in tr_transit}
      BY <1>2, <2>1, Zenon DEF TR!Messages
    <3> QED
      BY <3>1
  <2>3. m.kind \in TR!Kinds(tr_seq)
    BY <2>2
  <2> QED
    BY <1>3, <2>3 DEF TR!Kinds
<1>5. TR!Matches(m) =>
        \/ TR!Code(m) = TR!Unreach
        \/ TR!Code(m) = TR!Intransit /\ tr_ttl < tr_dist
        \/ TR!Code(m) = TR!Reached /\ ~(tr_ttl < tr_dist)
  BY <1>4 DEF TR!Code
<1>6. TR!Matches(m) => TR!Code(m) \in TR!Results
  BY <1>5 DEF TR!Results
<1>7. TraceTypes'
  BY <1>1, <1>2, <1>6 DEF TraceInv, TraceTypes
<1>8. SeqTells' /\ DoneThere'
  BY <1>1 DEF TraceInv, SeqTells, DoneThere
<1>9. ReturnsTrue'
  <2>1. CASE TR!Matches(m) /\ tr_ret' = TR!Code(m)
    BY <1>1, <1>5, <2>1 DEF TraceInv, TraceTypes, ReturnsTrue, TR!TrueOf, TR!Unreach,
       TR!Intransit, TR!Reached
  <2>2. CASE tr_mistaken' = TRUE
    BY <2>2 DEF ReturnsTrue
  <2>3. CASE tr_ret' = tr_ret /\ tr_mistaken' = tr_mistaken
    BY <1>1, <2>3 DEF TraceInv, ReturnsTrue, TR!TrueOf
  <2> QED
    BY <1>2, <2>1, <2>2, <2>3
<1> QED
  BY <1>7, <1>8, <1>9 DEF TraceInv

LEMMA PrintColumnStep == TraceInv /\ TR!PrintColumn => TraceInv'
<1> SUFFICES ASSUME TraceInv, TR!PrintColumn PROVE TraceInv'
  OBVIOUS
<1>1. /\ tr_pc = "print" /\ tr_ret' = TR!Timedout /\ tr_mistaken' = FALSE
      /\ UNCHANGED <<tr_version, tr_dist, tr_seq, tr_transit>>
      /\ tr_done' = IF tr_ret = TR!Reached THEN tr_done + 1 ELSE tr_done
      /\ tr_misprinted' = IF TR!TrueOf(tr_ttl) THEN tr_misprinted
                          ELSE tr_misprinted \cup {tr_mistaken}
      /\ \/ /\ tr_probe + 1 < Nprobes /\ tr_probe' = tr_probe + 1
            /\ tr_pc' = "probe" /\ tr_ttl' = tr_ttl
         \/ /\ ~(tr_probe + 1 < Nprobes) /\ tr_probe' = 0 /\ tr_ttl' = tr_ttl + 1
            /\ tr_pc' = IF tr_ttl' <= MaxTtl /\ tr_done' = 0 THEN "probe" ELSE "end"
  BY DEF TR!PrintColumn, TR!fixed, TR!net
<1>2. TraceTypes'
  BY <1>1, TraceAssumption DEF TraceInv, TraceTypes, TR!Results
<1>3. ReturnsTrue'
  BY <1>1 DEF ReturnsTrue, TR!TrueOf, TR!Timedout, TR!Intransit, TR!Reached
<1>4. SeqTells'
  <2>1. tr_seq = (tr_ttl - 1) * Nprobes + tr_probe + 1
    BY <1>1 DEF TraceInv, SeqTells
  <2>2. CASE tr_probe + 1 < Nprobes
    <3>1. (tr_ttl' - 1) * Nprobes = (tr_ttl - 1) * Nprobes /\ tr_probe' = tr_probe + 1
      BY <1>1, <2>2
    <3>2. (tr_ttl - 1) * Nprobes \in Int
      BY TraceAssumption DEF TraceInv, TraceTypes
    <3>3. tr_seq' = (tr_ttl' - 1) * Nprobes + tr_probe'
      BY <1>1, <2>1, <3>1, <3>2 DEF TraceInv, TraceTypes
    <3>4. tr_pc' = "probe"
      BY <1>1, <2>2
    <3> QED
      BY <3>3, <3>4 DEF SeqTells
  <2>3. CASE ~(tr_probe + 1 < Nprobes)
    <3>1. tr_probe + 1 = Nprobes /\ tr_probe' = 0 /\ tr_ttl' = tr_ttl + 1
      BY <1>1, <2>3, TraceAssumption DEF TraceInv, TraceTypes
    <3>2. tr_ttl' - 1 = (tr_ttl - 1) + 1 /\ tr_ttl - 1 \in Int
      BY <3>1 DEF TraceInv, TraceTypes
    <3>3. (tr_ttl' - 1) * Nprobes = (tr_ttl - 1) * Nprobes + Nprobes
      BY <3>2, TraceAssumption
    <3>4. (tr_ttl - 1) * Nprobes \in Int
      BY <3>2, TraceAssumption
    <3>5. tr_seq' = (tr_ttl' - 1) * Nprobes + tr_probe'
      BY <1>1, <2>1, <3>1, <3>3, <3>4, TraceAssumption DEF TraceInv, TraceTypes
    <3>6. tr_pc' \in {"probe", "end"}
      BY <1>1
    <3> QED
      BY <3>5, <3>6 DEF SeqTells
  <2> QED
    BY <2>2, <2>3
<1>5. DoneThere'
  <2>1. FALSE \notin tr_misprinted'
    BY <1>1, Zenon DEF TraceInv, DoneThere, ReturnsTrue
  <2>2. ASSUME tr_done' # 0, tr_misprinted' = {} PROVE tr_ttl >= tr_dist
    <3>1. TR!TrueOf(tr_ttl) /\ tr_misprinted = {}
      BY <1>1, <2>2, Zenon
    <3>2. CASE tr_ret = TR!Reached
      BY <3>1, <3>2 DEF TR!TrueOf
    <3>3. CASE tr_ret # TR!Reached
      BY <1>1, <2>2, <3>1, <3>3 DEF TraceInv, DoneThere
    <3> QED
      BY <3>2, <3>3
  <2>3. tr_ttl \in Nat /\ tr_dist \in Nat
    BY DEF TraceInv, TraceTypes
  <2>4. tr_done' # 0 /\ tr_misprinted' = {} =>
          tr_ttl' >= tr_dist /\ (tr_pc' = "end" => tr_ttl' > tr_dist)
    BY <1>1, <2>2, <2>3
  <2>5. tr_pc' = "end" /\ tr_ttl' <= MaxTtl => tr_done' # 0
    BY <1>1
  <2> QED
    BY <1>1, <2>1, <2>4, <2>5 DEF DoneThere
<1> QED
  BY <1>2, <1>3, <1>4, <1>5 DEF TraceInv

LEMMA TraceStep == TraceInv /\ [TR!Next]_tr_vars => TraceInv'
<1> SUFFICES ASSUME TraceInv, [TR!Next]_tr_vars PROVE TraceInv'
  OBVIOUS
<1>1. CASE TR!Recvfrom
  BY <1>1, RecvProbeStep
<1>2. CASE TR!PrintColumn
  BY <1>2, PrintColumnStep
<1>3. CASE TR!Sendto
  <2>1. /\ tr_pc = "probe" /\ tr_pc' = "alarm" /\ tr_seq' = tr_seq + 1
        /\ tr_transit' = tr_transit \cup {tr_seq'}
        /\ UNCHANGED <<tr_version, tr_dist, tr_ttl, tr_probe, tr_done, tr_ret, tr_mistaken,
                       tr_misprinted>>
    BY <1>3 DEF TR!Sendto, TR!fixed
  <2>2. TraceTypes'
    BY <2>1 DEF TraceInv, TraceTypes
  <2>4. ReturnsTrue' /\ DoneThere'
    BY <2>1, Zenon DEF TraceInv, ReturnsTrue, DoneThere, TR!TrueOf
  <2>3. SeqTells'
    BY <2>1 DEF TraceInv, SeqTells
  <2> QED
    BY <2>2, <2>3, <2>4 DEF TraceInv
<1>4. CASE TR!StartAlarm \/ TR!Call \/ TR!AlarmZero \/ TR!SigAlrm \/ TR!TestAlarm \/ UNCHANGED tr_vars
  <2>1. /\ UNCHANGED <<tr_version, tr_dist, tr_ttl, tr_probe, tr_seq, tr_done, tr_mistaken,
                       tr_transit, tr_misprinted>>
        /\ tr_ret' = tr_ret \/ tr_ret' = TR!Timedout
        /\ tr_pc' = tr_pc \/ {tr_pc, tr_pc'} \subseteq {"alarm", "test", "call", "recvfrom",
                                                        "cancel", "print"}
    BY <1>4 DEF TR!StartAlarm, TR!Call, TR!AlarmZero, TR!SigAlrm, TR!TestAlarm, tr_vars,
                TR!fixed, TR!loop, TR!net
  <2>2. TraceTypes'
    BY <2>1 DEF TraceInv, TraceTypes, TR!Results
  <2>4. ReturnsTrue'
    BY <2>1 DEF TraceInv, ReturnsTrue, TR!TrueOf, TR!Timedout, TR!Reached, TR!Intransit
  <2>5. DoneThere'
    BY <2>1 DEF TraceInv, DoneThere
  <2>3. SeqTells'
    BY <2>1 DEF TraceInv, SeqTells
  <2> QED
    BY <2>2, <2>3, <2>4, <2>5 DEF TraceInv
<1> QED
  BY <1>1, <1>2, <1>3, <1>4 DEF TR!Next, TR!Program

\* What traceroute prints for a probe is true of its hop, however late the answers
\* to earlier probes come (traceloop.c:34-74, recv_v4.c), for any number of hops and
\* probes; recv_v6 alone may be misled, by a time exceeded that answers another probe.
THEOREM TracesTrueHops == SumSpec => []TR!HopsAreTrue
<1>1. SumInit => TraceInv
  BY TraceInit DEF SumInit
<1>2. TraceInv /\ [SumNext]_all => TraceInv'
  <2> SUFFICES ASSUME TraceInv, [SumNext]_all PROVE TraceInv'
    OBVIOUS
  <2>1. [TR!Next]_tr_vars
    BY DEF SumNext, all, Rtt, Timed, Trace, Urgent, Beat, Pinging, Connecting
  <2> QED
    BY <2>1, TraceStep
<1>3. TraceInv => TR!HopsAreTrue
  BY DEF TraceInv, DoneThere, TR!HopsAreTrue
<1> QED
  BY <1>1, <1>2, <1>3, PTL DEF SumSpec

-----------------------------------------------------------------------------
(* Broadcast clients and receives with a time limit                          *)

NoAlarm == rt_alarm = 0 /\ rt_pending = 0 /\ rt_pipe = <<>>

\* An alarm is in one place only, the clock, the mask or the pipe, and is the one
\* of this line; which places a program uses.
OneAlarm ==
  /\ rt_version \in RT!Versions /\ rt_line \in 0 .. MaxLines
  /\ rt_pc # "fgets" => rt_line # 0
  /\ rt_alarm \in {0, rt_line} /\ rt_pending \in {0, rt_line}
  /\ rt_pipe \in {<<>>, <<rt_line>>}
  /\ rt_alarm # 0 => rt_pending = 0 /\ rt_pipe = <<>>
  /\ rt_pending # 0 => rt_alarm = 0 /\ rt_pipe = <<>>
  /\ rt_pipe # <<>> => rt_alarm = 0 /\ rt_pending = 0
  /\ rt_version \notin RT!UsesAlarm => NoAlarm
  /\ rt_version = "timeo3" => rt_pending = 0 /\ rt_pipe = <<>> /\ ~rt_blocked

\* No alarm is set before a line has been sent, nor once the wait has been ended.
AlarmUsed ==
  /\ rt_pc \in {"fgets", "sendto", "block", "alarm"} => NoAlarm
  /\ rt_pc \in {"reblock", "test"} /\ rt_result = "EINTR" => NoAlarm
  /\ rt_ended \in {0, rt_line}

NothingOwed == \A k \in RT!Lines : rt_owed[k] = 0

\* A client that has not given up and had no answer repeated waits for one answer.
InStep ==
  /\ rt_pc \in {"fgets", "sendto", "alarm0"} => rt_sock = <<>> /\ NothingOwed
  /\ \/ rt_sock = <<>> /\ \A k \in RT!Lines : rt_owed[k] = 0 \/ (k = rt_line /\ rt_owed[k] = 1)
     \/ rt_sock = <<rt_line>> /\ NothingOwed
  /\ ~rt_astray

WaitInv ==
  /\ OneAlarm /\ AlarmUsed
  /\ rt_owed \in [RT!Lines -> Nat] /\ rt_timeouts \in Nat /\ rt_copies \in Nat
  /\ rt_version \notin RT!Broadcast /\ rt_timeouts + rt_copies = 0 => InStep

LEMMA TopIs ==
  ASSUME rt_version \in RT!Versions
  PROVE  /\ RT!Top \in {"call", "unblock", "pselect", "setjmp", "select"}
         /\ rt_version \notin RT!Broadcast => RT!Top = "call"
BY DEF RT!Top, RT!Versions, RT!Broadcast

LEMMA WaitInit == RT!Init => WaitInv
<1> SUFFICES ASSUME RT!Init PROVE WaitInv
  OBVIOUS
<1>1. OneAlarm /\ AlarmUsed
  BY WaitAssumption DEF RT!Init, OneAlarm, AlarmUsed, NoAlarm
<1>2. rt_owed \in [RT!Lines -> Nat] /\ rt_timeouts \in Nat /\ rt_copies \in Nat
  BY DEF RT!Init
<1>3. InStep
  BY DEF RT!Init, InStep, NothingOwed
<1> QED
  BY <1>1, <1>2, <1>3 DEF WaitInv

\* Steps of main that touch neither the alarm nor an answer.
LEMMA MoveStep ==
  ASSUME WaitInv,
         UNCHANGED <<rt_version, rt_line, rt_sock, rt_owed, rt_copies, rt_alarm, rt_pipe,
                     rt_astray>>,
         rt_pending' \in {0, rt_pending},
         rt_timeouts' \in Nat, rt_timeouts' >= rt_timeouts,
         rt_ended' \in {0, rt_line}, rt_pc # "fgets",
         rt_version = "timeo3" => rt_blocked' = rt_blocked,
         rt_pc' \in {"fgets", "sendto", "block", "alarm"} => NoAlarm',
         rt_pc' \in {"reblock", "test"} /\ rt_result' = "EINTR" => NoAlarm',
         rt_pc' \in {"fgets", "sendto", "alarm0"} =>
           \/ rt_pc \in {"fgets", "sendto", "alarm0"} \/ rt_version \in RT!Broadcast
           \/ rt_timeouts' > rt_timeouts
  PROVE  WaitInv'
<1>1. OneAlarm'
  BY DEF WaitInv, OneAlarm, NoAlarm
<1>2. AlarmUsed'
  BY DEF AlarmUsed
<1>3. rt_owed' \in [RT!Lines -> Nat] /\ rt_timeouts' \in Nat /\ rt_copies' \in Nat
  BY DEF WaitInv
<1>4. ASSUME rt_version' \notin RT!Broadcast, rt_timeouts' + rt_copies' = 0 PROVE InStep'
  <2>4. /\ rt_version' = rt_version /\ rt_copies' = rt_copies /\ rt_copies \in Nat
        /\ rt_timeouts \in Nat /\ rt_timeouts' \in Nat
    BY DEF WaitInv
  <2>1. rt_version \notin RT!Broadcast /\ rt_timeouts' = rt_timeouts /\ rt_timeouts + rt_copies = 0
    <3>1. rt_timeouts' + rt_copies = 0 /\ rt_timeouts <= rt_timeouts'
      BY <1>4, <2>4
    <3>2. rt_timeouts = 0 /\ rt_timeouts' = 0 /\ rt_copies = 0
      <4>1. ASSUME NEW a \in Nat, NEW b \in Nat, NEW c \in Nat, b + c = 0, a <= b
            PROVE  a = 0 /\ b = 0 /\ c = 0
        BY <4>1
      <4> QED
        BY <2>4, <3>1, <4>1
    <3> QED
      BY <1>4, <2>4, <3>2
  <2>2. InStep
    BY <2>1 DEF WaitInv
  <2>3. rt_pc' \in {"fgets", "sendto", "alarm0"} => rt_pc \in {"fgets", "sendto", "alarm0"}
    BY <1>3, <2>1 DEF WaitInv
  <2> QED
    BY <2>2, <2>3, Zenon DEF InStep, NothingOwed
<1> QED
  BY <1>1, <1>2, <1>3, <1>4 DEF WaitInv

LEMMA FgetsStep == WaitInv /\ RT!Fgets => WaitInv'
<1> SUFFICES ASSUME WaitInv, RT!Fgets PROVE WaitInv'
  OBVIOUS
<1>1. /\ rt_pc = "fgets" /\ rt_pc' = "sendto" /\ rt_line < MaxLines /\ rt_line' = rt_line + 1
      /\ rt_ended' = 0
      /\ UNCHANGED <<rt_version, rt_result, rt_sock, rt_owed, rt_copies, rt_alarm, rt_pending,
                     rt_blocked, rt_jmpbuf, rt_pipe, rt_timeouts, rt_astray>>
  BY DEF RT!Fgets, RT!Move, RT!net, RT!signal
<1>2. NoAlarm
  BY <1>1 DEF WaitInv, AlarmUsed
<1>3. OneAlarm' /\ AlarmUsed'
  BY <1>1, <1>2, WaitAssumption DEF WaitInv, OneAlarm, AlarmUsed, NoAlarm
<1>4. InStep => InStep'
  BY <1>1 DEF InStep, NothingOwed
<1> QED
  BY <1>1, <1>3, <1>4 DEF WaitInv

LEMMA SendLineStep == WaitInv /\ RT!Sendto => WaitInv'
<1> SUFFICES ASSUME WaitInv, RT!Sendto PROVE WaitInv'
  OBVIOUS
<1>1. /\ rt_pc = "sendto"
      /\ rt_pc' = IF rt_version \notin RT!UsesAlarm THEN RT!Top
                  ELSE IF rt_version \in {"bcast4", "bcast4hack"} THEN "block" ELSE "alarm"
      /\ UNCHANGED <<rt_version, rt_line, rt_result, rt_sock, rt_alarm, rt_pending, rt_blocked,
                     rt_jmpbuf, rt_pipe, rt_ended, rt_timeouts, rt_astray>>
  BY DEF RT!Sendto, RT!Move, RT!signal, RT!past
<1>2. PICK n \in 0 .. MaxAnswers :
        /\ rt_owed' = [rt_owed EXCEPT ![rt_line] = n]
        /\ rt_copies' = IF n > 1 THEN rt_copies + n - 1 ELSE rt_copies
  BY DEF RT!Sendto
<1>3. NoAlarm
  BY <1>1 DEF WaitInv, AlarmUsed
<1>4. rt_pc' \notin {"fgets", "sendto", "alarm0", "reblock", "test"}
  BY <1>1, TopIs DEF WaitInv, OneAlarm
<1>5. OneAlarm' /\ AlarmUsed'
  BY <1>1, <1>3, <1>4 DEF WaitInv, OneAlarm, AlarmUsed, NoAlarm
<1>6. rt_owed' \in [RT!Lines -> Nat] /\ rt_copies' \in Nat /\ rt_timeouts' \in Nat
  <2>1. n \in Nat
    BY WaitAssumption
  <2>2. rt_owed' \in [RT!Lines -> Nat]
    BY <1>2, <2>1 DEF WaitInv
  <2>3. rt_copies' \in Nat /\ rt_timeouts' \in Nat
    BY <1>1, <1>2, <2>1 DEF WaitInv
  <2> QED
    BY <2>2, <2>3
<1>7. ASSUME rt_version' \notin RT!Broadcast, rt_timeouts' + rt_copies' = 0 PROVE InStep'
  <2>1. n \in {0, 1} /\ rt_copies = 0 /\ rt_timeouts = 0
    BY <1>1, <1>2, <1>7, WaitAssumption DEF WaitInv
  <2>2. InStep
    BY <1>1, <1>7, <2>1 DEF WaitInv
  <2>3. rt_sock' = <<>> /\ NothingOwed /\ ~rt_astray'
    BY <1>1, <2>2, Zenon DEF InStep
  <2>4. \A k \in RT!Lines : rt_owed'[k] = 0 \/ (k = rt_line' /\ rt_owed'[k] = 1)
    BY <1>1, <1>2, <2>1, <2>3 DEF WaitInv, NothingOwed
  <2> QED
    BY <1>4, <2>3, <2>4, Zenon DEF InStep
<1> QED
  BY <1>5, <1>6, <1>7 DEF WaitInv

\* An answer is taken from the socket.
LEMMA TakeStep ==
  ASSUME WaitInv, RT!Take, rt_pc \notin {"fgets", "sendto", "alarm0"},
         UNCHANGED <<rt_version, rt_line, rt_owed, rt_copies, rt_alarm, rt_pending, rt_blocked,
                     rt_pipe, rt_ended, rt_timeouts>>,
         rt_result' = "answer",
         rt_pc' \in {"sendto", "block", "alarm"} => FALSE,
         rt_pc' = "fgets" => rt_version \notin RT!UsesAlarm
  PROVE  WaitInv'
<1>1. OneAlarm' /\ AlarmUsed'
  BY DEF WaitInv, OneAlarm, AlarmUsed, NoAlarm
<1>2. ASSUME rt_version \notin RT!Broadcast, rt_timeouts + rt_copies = 0 PROVE InStep'
  <2>1. InStep
    BY <1>2 DEF WaitInv
  <2>2. rt_sock = <<rt_line>> /\ NothingOwed
    BY <2>1 DEF InStep, RT!Take
  <2>3. Head(rt_sock) = rt_line /\ rt_sock' = <<>>
    BY <2>2 DEF RT!Take
  <2>4. ~rt_astray'
    BY <2>1, <2>3, Zenon DEF InStep, RT!Take
  <2>5. NothingOwed'
    BY <2>2 DEF NothingOwed
  <2> QED
    BY <2>3, <2>4, <2>5, Zenon DEF InStep, NothingOwed
<1> QED
  BY <1>1, <1>2 DEF WaitInv

LEMMA ArriveStep == WaitInv /\ RT!Arrive => WaitInv'
<1> SUFFICES ASSUME WaitInv, RT!Arrive PROVE WaitInv'
  OBVIOUS
<1>1. UNCHANGED <<rt_version, rt_pc, rt_line, rt_result, rt_copies, rt_alarm, rt_pending,
                  rt_blocked, rt_jmpbuf, rt_pipe, rt_ended, rt_timeouts, rt_astray>>
  BY DEF RT!Arrive, RT!signal, RT!past
<1>2. PICK n \in RT!Lines : /\ rt_owed[n] > 0
                            /\ rt_owed' = [rt_owed EXCEPT ![n] = rt_owed[n] - 1]
                            /\ rt_sock' = Append(rt_sock, n)
  BY DEF RT!Arrive
<1>3. OneAlarm' /\ AlarmUsed'
  BY <1>1 DEF WaitInv, OneAlarm, AlarmUsed, NoAlarm
<1>4. rt_owed' \in [RT!Lines -> Nat]
  BY <1>2 DEF WaitInv
<1>5. InStep => InStep'
  <2> SUFFICES ASSUME InStep PROVE InStep'
    OBVIOUS
  <2>1. ~NothingOwed
    BY <1>2 DEF NothingOwed, WaitInv
  <2>2. /\ rt_sock = <<>> /\ rt_pc \notin {"fgets", "sendto", "alarm0"}
        /\ \A k \in RT!Lines : rt_owed[k] = 0 \/ (k = rt_line /\ rt_owed[k] = 1)
    BY <2>1, Zenon DEF InStep
  <2>3. n = rt_line /\ rt_owed[n] = 1
    BY <1>2, <2>2
  <2>4. rt_sock' = <<rt_line>>
    BY <1>2, <2>2, <2>3
  <2>5. \A k \in RT!Lines : rt_owed'[k] = 0
    BY <1>2, <2>2, <2>3 DEF WaitInv
  <2>6. NothingOwed' /\ rt_sock' = <<rt_line'>>
    BY <1>1, <2>4, <2>5 DEF NothingOwed
  <2> QED
    BY <1>1, <2>2, <2>6, Zenon DEF InStep
<1> QED
  BY <1>1, <1>3, <1>4, <1>5 DEF WaitInv

\* SIGALRM: kept while it is blocked, else handled; it ends a wait of its own line.
LEMMA AlarmStep == WaitInv /\ RT!SigAlrm => WaitInv'
<1> SUFFICES ASSUME WaitInv, RT!SigAlrm PROVE WaitInv'
  OBVIOUS
<1>1. /\ rt_alarm # 0 /\ rt_alarm' = 0 /\ rt_alarm = rt_line
      /\ rt_pending = 0 /\ rt_pipe = <<>>
      /\ rt_pc \notin {"fgets", "sendto", "block", "alarm"}
      /\ rt_version \in RT!UsesAlarm
      /\ UNCHANGED <<rt_version, rt_line, rt_sock, rt_owed, rt_copies, rt_blocked, rt_jmpbuf,
                     rt_astray>>
  BY DEF RT!SigAlrm, RT!net, WaitInv, OneAlarm, AlarmUsed, NoAlarm
<1>2. CASE rt_blocked
  <2>1. rt_pending' = rt_line /\ UNCHANGED <<rt_pc, rt_result, rt_pipe, rt_ended, rt_timeouts>>
    BY <1>1, <1>2 DEF RT!SigAlrm
  <2>2. rt_version # "timeo3"
    BY <1>2 DEF WaitInv, OneAlarm
  <2>3. OneAlarm' /\ AlarmUsed'
    BY <1>1, <2>1, <2>2 DEF WaitInv, OneAlarm, AlarmUsed, NoAlarm
  <2>4. InStep => InStep'
    BY <1>1, <2>1 DEF InStep, NothingOwed
  <2> QED
    BY <1>1, <2>1, <2>3, <2>4 DEF WaitInv
<1>3. CASE ~rt_blocked
  <2>1. RT!Handle(rt_alarm) /\ rt_pending' = rt_pending
    BY <1>3 DEF RT!SigAlrm
  <2>2. CASE rt_version = "bcast5"
    <3>1. /\ rt_pc' \in {"fgets", "undefined"} /\ rt_ended' = rt_line
          /\ rt_timeouts' = rt_timeouts + 1 /\ rt_pipe' = rt_pipe
      BY <1>1, <2>1, <2>2 DEF RT!Handle
    <3>2. OneAlarm' /\ AlarmUsed'
      BY <1>1, <2>1, <2>2, <3>1 DEF WaitInv, OneAlarm, AlarmUsed, NoAlarm
    <3>3. rt_version' \in RT!Broadcast /\ rt_timeouts' \in Nat
      BY <1>1, <2>2, <3>1 DEF RT!Broadcast, WaitInv
    <3> QED
      BY <1>1, <3>2, <3>3 DEF WaitInv
  <2>3. CASE rt_version = "bcast6"
    <3>1. /\ rt_pipe' = Append(rt_pipe, rt_alarm)
          /\ UNCHANGED <<rt_pc, rt_result, rt_ended, rt_timeouts>>
      BY <2>1, <2>3 DEF RT!Handle
    <3>2. rt_pipe' = <<rt_line>>
      BY <1>1, <3>1
    <3>3. OneAlarm' /\ AlarmUsed'
      BY <1>1, <2>1, <2>3, <3>1, <3>2 DEF WaitInv, OneAlarm, AlarmUsed, NoAlarm
    <3>4. rt_version' \in RT!Broadcast
      BY <1>1, <2>3 DEF RT!Broadcast
    <3> QED
      BY <1>1, <3>1, <3>3, <3>4 DEF WaitInv
  <2>4. CASE rt_version \notin {"bcast5", "bcast6"}
    <3>1. /\ rt_pipe' = rt_pipe /\ rt_timeouts' = rt_timeouts
          /\ \/ rt_pc' \in {"reblock", "test"} /\ rt_ended' = rt_line
             \/ UNCHANGED <<rt_pc, rt_result, rt_ended>>
      BY <1>1, <2>1, <2>4 DEF RT!Handle
    <3>2. OneAlarm' /\ AlarmUsed'
      BY <1>1, <2>1, <3>1 DEF WaitInv, OneAlarm, AlarmUsed, NoAlarm
    <3>3. InStep => InStep'
      BY <1>1, <3>1, Zenon DEF InStep, NothingOwed
    <3> QED
      BY <1>1, <3>1, <3>2, <3>3 DEF WaitInv
  <2> QED
    BY <2>2, <2>3, <2>4
<1> QED
  BY <1>2, <1>3

\* The steps of the programs that are neither Fgets nor Sendto.
Waits == \/ RT!SetAlarm \/ RT!Block \/ RT!Unblock \/ RT!Reblock \/ RT!SetJmp \/ RT!Call \/ RT!Test
         \/ RT!Pselect \/ RT!HackSelect \/ RT!Select6 \/ RT!ReadPipe \/ RT!Timeout \/ RT!Alarm0
Takes == RT!Recvfrom \/ RT!RecvReady \/ RT!RecvThenPipe

LEMMA WaitsStep == WaitInv /\ Waits /\ (RT!SetAlarm => rt_version \in RT!UsesAlarm)
                     /\ (RT!Block \/ RT!Unblock \/ RT!Reblock => rt_version # "timeo3")
                     /\ (RT!Alarm0 => rt_version = "timeo3")
                   => WaitInv'
<1> SUFFICES ASSUME WaitInv, Waits, RT!SetAlarm => rt_version \in RT!UsesAlarm,
                    RT!Block \/ RT!Unblock \/ RT!Reblock => rt_version # "timeo3",
                    RT!Alarm0 => rt_version = "timeo3"
             PROVE  WaitInv'
  OBVIOUS
<1>0. /\ rt_version \in RT!Versions
      /\ RT!Top \in {"call", "unblock", "pselect", "setjmp", "select"}
      /\ rt_timeouts \in Nat
      /\ rt_ended \in {0, rt_line}
      /\ rt_pc = "alarm" => NoAlarm
  BY TopIs DEF WaitInv, OneAlarm, AlarmUsed
<1>1. CASE RT!SetAlarm
  <2>1. /\ rt_pc = "alarm" /\ rt_pc' = RT!Top /\ rt_alarm' = rt_line
        /\ UNCHANGED <<rt_version, rt_line, rt_result, rt_sock, rt_owed, rt_copies, rt_pending,
                       rt_blocked, rt_pipe, rt_ended, rt_timeouts, rt_astray>>
    BY <1>1 DEF RT!SetAlarm, RT!Move, RT!net, RT!past
  <2>2. rt_version \in RT!UsesAlarm
    BY <1>1
  <2>3. OneAlarm' /\ AlarmUsed'
    BY <1>0, <2>1, <2>2 DEF WaitInv, OneAlarm, AlarmUsed, NoAlarm
  <2>4. InStep => InStep'
    BY <1>0, <2>1, Zenon DEF InStep, NothingOwed
  <2> QED
    BY <2>1, <2>3, <2>4 DEF WaitInv
<1>2. CASE RT!Block
  <2>1. /\ UNCHANGED <<rt_version, rt_line, rt_sock, rt_owed, rt_copies, rt_alarm, rt_pending,
                       rt_pipe, rt_astray, rt_ended, rt_timeouts>>
        /\ rt_pc = "block" /\ rt_pc' = "alarm" /\ rt_version # "timeo3" /\ NoAlarm
    BY <1>2 DEF RT!Block, RT!Move, RT!net, RT!past, WaitInv, AlarmUsed
  <2>2. NoAlarm'
    BY <2>1 DEF NoAlarm
  <2> QED
    BY <1>0, <2>1, <2>2, MoveStep
<1>3. CASE RT!Unblock
  <2>1. /\ UNCHANGED <<rt_version, rt_line, rt_sock, rt_owed, rt_copies, rt_alarm,
                       rt_pipe, rt_astray, rt_ended, rt_timeouts>>
        /\ rt_pc = "unblock" /\ rt_pc' = "call" /\ rt_version # "timeo3" /\ rt_pending' = 0
    BY <1>3 DEF RT!Unblock, RT!Move, RT!net, RT!past
  <2> QED
    BY <1>0, <2>1, MoveStep
<1>4. CASE RT!Reblock
  <2>1. /\ UNCHANGED <<rt_version, rt_line, rt_sock, rt_owed, rt_copies, rt_alarm, rt_pending,
                       rt_pipe, rt_astray, rt_ended, rt_timeouts, rt_result>>
        /\ rt_pc = "reblock" /\ rt_pc' = "test" /\ rt_version # "timeo3"
        /\ rt_result = "EINTR" => NoAlarm
    BY <1>4 DEF RT!Reblock, RT!Move, RT!net, RT!past, WaitInv, AlarmUsed
  <2>2. rt_result' = "EINTR" => NoAlarm'
    BY <2>1 DEF NoAlarm
  <2> QED
    BY <1>0, <2>1, <2>2, MoveStep
<1>5. CASE RT!SetJmp
  BY <1>0, <1>5, MoveStep DEF RT!SetJmp, RT!Move, RT!net, RT!past
<1>6. CASE RT!Call
  BY <1>0, <1>6, MoveStep DEF RT!Call, RT!Move, RT!net, RT!past, RT!signal
<1>7. CASE RT!Test
  <2>1. rt_result = "EINTR" => NoAlarm
    BY <1>7 DEF RT!Test, WaitInv, AlarmUsed
  <2> QED
    BY <1>0, <1>7, <2>1, MoveStep DEF RT!Test, RT!net, RT!signal, NoAlarm
<1>8. CASE RT!Pselect
  <2>1. rt_pending # 0 => rt_alarm = 0 /\ rt_pipe = <<>> /\ rt_pending = rt_line
    BY DEF WaitInv, OneAlarm
  <2>2. CASE rt_pc' = "fgets"
    <3>1. /\ UNCHANGED <<rt_version, rt_line, rt_sock, rt_owed, rt_copies, rt_alarm, rt_pipe,
                         rt_astray, rt_blocked>>
          /\ rt_pending' = 0 /\ rt_timeouts' = rt_timeouts + 1 /\ rt_ended' = rt_line
          /\ rt_pc = "pselect" /\ NoAlarm'
      BY <1>8, <2>1, <2>2 DEF RT!Pselect, RT!net, NoAlarm
    <3> QED
      BY <1>0, <2>2, <3>1, MoveStep
  <2>3. CASE rt_pc' = "recv2"
    <3>1. /\ UNCHANGED <<rt_version, rt_line, rt_sock, rt_owed, rt_copies, rt_alarm, rt_pipe,
                         rt_astray, rt_blocked, rt_pending, rt_ended, rt_timeouts>>
          /\ rt_pc = "pselect"
      BY <1>8, <2>3 DEF RT!Pselect, RT!net
    <3> QED
      BY <1>0, <2>3, <3>1, MoveStep
  <2> QED
    BY <1>8, <2>2, <2>3 DEF RT!Pselect
<1>9. CASE RT!HackSelect
  BY <1>0, <1>9, MoveStep DEF RT!HackSelect, RT!Move, RT!net, RT!past, RT!signal
<1>10. CASE RT!Select6
  BY <1>0, <1>10, MoveStep DEF RT!Select6, RT!net, RT!past, RT!signal
<1>11. CASE RT!ReadPipe
  <2>1. rt_pipe = <<rt_line>> /\ rt_alarm = 0 /\ rt_pending = 0
    BY <1>11 DEF RT!ReadPipe, WaitInv, OneAlarm
  <2>2. /\ rt_pc = "readpipe" /\ rt_pc' = "fgets" /\ rt_pipe' = <<>> /\ rt_ended' = rt_line
        /\ rt_timeouts' = rt_timeouts + 1
        /\ UNCHANGED <<rt_version, rt_line, rt_result, rt_sock, rt_owed, rt_copies, rt_alarm,
                       rt_pending, rt_blocked, rt_astray>>
    BY <1>11, <2>1 DEF RT!ReadPipe, RT!Move, RT!net
  <2>3. OneAlarm' /\ AlarmUsed'
    BY <2>1, <2>2 DEF WaitInv, OneAlarm, AlarmUsed, NoAlarm
  <2>4. rt_timeouts' \in Nat /\ rt_timeouts' + rt_copies' # 0
    BY <2>2 DEF WaitInv
  <2> QED
    BY <2>2, <2>3, <2>4 DEF WaitInv
<1>12. CASE RT!Timeout
  <2>1. NoAlarm
    BY <1>12 DEF RT!Timeout, WaitInv, OneAlarm, RT!UsesAlarm, RT!Broadcast
  <2> QED
    BY <1>0, <1>12, <2>1, MoveStep DEF RT!Timeout, RT!Move, RT!net, RT!signal, NoAlarm
<1>13. CASE RT!Alarm0
  <2>1. /\ rt_pc = "alarm0" /\ rt_pc' = "fgets" /\ rt_alarm' = 0
        /\ rt_pending = 0 /\ rt_pipe = <<>>
        /\ UNCHANGED <<rt_version, rt_line, rt_result, rt_sock, rt_owed, rt_copies, rt_pending,
                       rt_blocked, rt_pipe, rt_ended, rt_timeouts, rt_astray>>
    BY <1>13 DEF RT!Alarm0, RT!Move, RT!net, RT!past, WaitInv, OneAlarm
  <2>2. OneAlarm' /\ AlarmUsed'
    BY <2>1 DEF WaitInv, OneAlarm, AlarmUsed, NoAlarm
  <2>3. InStep => InStep'
    BY <2>1, Zenon DEF InStep, NothingOwed
  <2> QED
    BY <2>1, <2>2, <2>3 DEF WaitInv
<1> QED
  BY <1>1, <1>2, <1>3, <1>4, <1>5, <1>6, <1>7, <1>8, <1>9, <1>10, <1>11, <1>12, <1>13 DEF Waits

LEMMA TakesStep == WaitInv /\ Takes => WaitInv'
<1> SUFFICES ASSUME WaitInv, Takes PROVE WaitInv'
  OBVIOUS
<1>0. /\ rt_version \in RT!Versions
      /\ RT!Top \in {"call", "unblock", "pselect", "setjmp", "select"}
  BY TopIs DEF WaitInv, OneAlarm
<1>1. /\ RT!Take /\ rt_result' = "answer" /\ rt_pc \in {"recv", "recv2", "recvpipe"}
      /\ UNCHANGED <<rt_version, rt_line, rt_owed, rt_copies, rt_alarm, rt_pending, rt_blocked,
                     rt_pipe, rt_ended, rt_timeouts>>
  BY DEF Takes, RT!Recvfrom, RT!RecvReady, RT!RecvThenPipe, RT!net, RT!signal
<1>2. /\ rt_pc' \notin {"sendto", "block", "alarm"}
      /\ rt_pc' = "fgets" => rt_version \in {"timeo", "timeo1", "timeo2"}
  BY <1>0 DEF Takes, RT!Recvfrom, RT!RecvReady, RT!RecvThenPipe
<1>3. rt_pc' = "fgets" => rt_version \notin RT!UsesAlarm
  BY <1>2 DEF RT!UsesAlarm, RT!Broadcast
<1> QED
  BY <1>1, <1>2, <1>3, TakeStep

LEMMA WaitStep == WaitInv /\ [RT!Next]_rt_vars => WaitInv'
<1> SUFFICES ASSUME WaitInv, [RT!Next]_rt_vars PROVE WaitInv'
  OBVIOUS
<1>1. CASE RT!Step
  <2>1. CASE RT!Asks
    BY <2>1, FgetsStep, SendLineStep DEF RT!Asks
  <2>2. CASE ~RT!Asks
    <3>1. \/ Takes
          \/ /\ Waits
             /\ RT!SetAlarm => rt_version \in RT!UsesAlarm
             /\ RT!Block \/ RT!Unblock \/ RT!Reblock => rt_version # "timeo3"
             /\ RT!Alarm0 => rt_version = "timeo3"
      <4>1. CASE rt_version \in RT!Broadcast
        <5>1. rt_version # "timeo3" /\ rt_version \in RT!UsesAlarm
          BY <4>1 DEF RT!Broadcast, RT!UsesAlarm
        <5>2. ~RT!Alarm0
          BY <1>1, <2>2, <4>1, <5>1 DEF RT!Broadcast, RT!Alarm0, RT!Step, RT!Move, RT!Bcast1,
             RT!Bcast2, RT!Bcast3, RT!Bcast4, RT!Bcast4Hack, RT!Bcast5, RT!Bcast6,
             RT!SetAlarm, RT!Block, RT!Unblock, RT!Reblock, RT!SetJmp, RT!Call, RT!Test,
             RT!Pselect, RT!HackSelect, RT!Select6, RT!ReadPipe, RT!Recvfrom, RT!RecvReady,
             RT!RecvThenPipe, RT!Timeo, RT!Timeo1, RT!Timeo2, RT!Timeo3
        <5>3. Takes \/ Waits
          BY <1>1, <2>2, Zenon DEF RT!Step, RT!Bcast1,
             RT!Bcast2, RT!Bcast3, RT!Bcast4, RT!Bcast4Hack, RT!Bcast5, RT!Bcast6, Takes, Waits,
             RT!Timeo, RT!Timeo1, RT!Timeo2, RT!Timeo3
        <5> QED
          BY <5>1, <5>2, <5>3
      <4>2. CASE rt_version = "timeo3"
        <5>1. rt_version \in RT!UsesAlarm
          BY <4>2 DEF RT!UsesAlarm
        <5>2. RT!SetAlarm \/ RT!Call \/ RT!Recvfrom \/ RT!Alarm0 \/ RT!Test
          BY <1>1, <2>2, <4>2 DEF RT!Step, RT!Bcast1,
             RT!Bcast2, RT!Bcast3, RT!Bcast4, RT!Bcast4Hack, RT!Bcast5, RT!Bcast6,
             RT!Timeo, RT!Timeo1, RT!Timeo2, RT!Timeo3
        <5>3. rt_pc \in {"alarm", "call", "recv", "alarm0", "test"}
          BY <5>2 DEF RT!SetAlarm, RT!Call, RT!Recvfrom, RT!Alarm0, RT!Test, RT!Move
        <5>4. ~RT!Block /\ ~RT!Unblock /\ ~RT!Reblock
          BY <5>3 DEF RT!Block, RT!Unblock, RT!Reblock, RT!Move
        <5> QED
          BY <4>2, <5>1, <5>2, <5>4 DEF Takes, Waits
      <4>3. CASE rt_version \in {"timeo", "timeo1", "timeo2"}
        <5>1. RT!Call \/ RT!Recvfrom \/ RT!Timeout
          BY <1>1, <2>2, <4>3 DEF RT!Step, RT!Bcast1,
             RT!Bcast2, RT!Bcast3, RT!Bcast4, RT!Bcast4Hack, RT!Bcast5, RT!Bcast6,
             RT!Timeo, RT!Timeo1, RT!Timeo2, RT!Timeo3
        <5>2. rt_pc \in {"call", "recv"}
          BY <5>1 DEF RT!Call, RT!Recvfrom, RT!Timeout, RT!Move
        <5>3. ~RT!SetAlarm /\ ~RT!Alarm0
          BY <5>2 DEF RT!SetAlarm, RT!Alarm0, RT!Move
        <5> QED
          BY <4>3, <5>1, <5>3 DEF Takes, Waits
      <4> QED
        BY <4>1, <4>2, <4>3 DEF WaitInv, OneAlarm, RT!Versions
    <3> QED
      BY <3>1, WaitsStep, TakesStep
  <2> QED
    BY <2>1, <2>2
<1>2. CASE RT!SigAlrm
  BY <1>2, AlarmStep
<1>3. CASE RT!Arrive
  BY <1>3, ArriveStep
<1>4. CASE UNCHANGED rt_vars
  BY <1>4 DEF rt_vars, WaitInv, OneAlarm, AlarmUsed, NoAlarm, InStep, NothingOwed
<1> QED
  BY <1>1, <1>2, <1>3, <1>4 DEF RT!Next

\* A wait for answers is ended by the alarm set for it and by no earlier one
\* (bcast/dgclibcast1.c to 6.c), and the clients of advio/ print an answer under
\* another line only after a timeout or a repeated answer; for any number of lines.
THEOREM WaitsForOwn == SumSpec => [](RT!OwnAlarmEndsWait /\ RT!OutOfStepOnlyAfterTimeout)
<1>1. SumInit => WaitInv
  BY WaitInit DEF SumInit
<1>2. WaitInv /\ [SumNext]_all => WaitInv'
  <2> SUFFICES ASSUME WaitInv, [SumNext]_all PROVE WaitInv'
    OBVIOUS
  <2>1. [RT!Next]_rt_vars
    BY DEF SumNext, all, Rtt, Timed, Trace, Urgent, Beat, Pinging, Connecting
  <2> QED
    BY <2>1, WaitStep
<1>3. WaitInv => RT!OwnAlarmEndsWait /\ RT!OutOfStepOnlyAfterTimeout
  <2> SUFFICES ASSUME WaitInv PROVE RT!OwnAlarmEndsWait /\ RT!OutOfStepOnlyAfterTimeout
    OBVIOUS
  <2>1. RT!OwnAlarmEndsWait
    BY DEF WaitInv, AlarmUsed, RT!OwnAlarmEndsWait
  <2>2. rt_timeouts + rt_copies > 0 \/ rt_timeouts + rt_copies = 0
    BY DEF WaitInv
  <2>3. RT!OutOfStepOnlyAfterTimeout
    BY <2>2, Zenon DEF WaitInv, InStep, RT!OutOfStepOnlyAfterTimeout
  <2> QED
    BY <2>1, <2>3
<1> QED
  BY <1>1, <1>2, <1>3, PTL DEF SumSpec

-----------------------------------------------------------------------------
(* ping                                                                      *)

LEMMA DivMod ==
  ASSUME NEW m \in Nat \ {0}, NEW a \in Nat
  PROVE  a \div m \in Nat /\ a % m \in 0 .. m - 1 /\ a = m * (a \div m) + (a % m)
<1>1. a % m \in 0 .. m - 1
  OBVIOUS
<1>2. a \div m \in Int
  OBVIOUS
<1>3. a = m * (a \div m) + (a % m)
  OBVIOUS
<1>4. a \div m \in Nat
  BY <1>1, <1>2, <1>3
<1> QED
  BY <1>1, <1>3, <1>4

LEMMA NextMultiple ==
  ASSUME NEW m \in Nat \ {0}, NEW x \in Int, NEW y \in Int, x < y
  PROVE  m * x + m <= m * y
<1>1. PICK d \in Nat : y = x + 1 + d
  <2> WITNESS y - x - 1 \in Nat
  <2> QED
    OBVIOUS
<1>2. m * y = m * x + m + m * d
  BY <1>1
<1>3. m * d \in Nat
  OBVIOUS
<1> QED
  BY <1>2, <1>3

\* Numbers less than m apart have different remainders.
LEMMA ModInjective ==
  ASSUME NEW m \in Nat \ {0}, NEW a \in Nat, NEW b \in Nat, a % m = b % m, a <= b, b < a + m
  PROVE  a = b
<1> DEFINE p == a \div m
           q == b \div m
           r == a % m
<1>1. p \in Nat /\ q \in Nat /\ r \in 0 .. m - 1 /\ a = m * p + r /\ b = m * q + r
  BY DivMod
<1> HIDE DEF p, q, r
<1>2. m * p \in Nat /\ m * q \in Nat
  BY <1>1
<1>3. ~(p < q)
  <2> SUFFICES ASSUME p < q PROVE FALSE
    OBVIOUS
  <2>1. m * p + m <= m * q
    BY <1>1, NextMultiple
  <2> QED
    BY <1>1, <1>2, <2>1
<1>4. ~(q < p)
  <2> SUFFICES ASSUME q < p PROVE FALSE
    OBVIOUS
  <2>1. m * q + m <= m * p
    BY <1>1, NextMultiple
  <2> QED
    BY <1>1, <1>2, <2>1
<1>5. p = q
  BY <1>1, <1>3, <1>4
<1> QED
  BY <1>1, <1>5

LEMMA ModPeriod ==
  ASSUME NEW m \in Nat \ {0}, NEW a \in Nat
  PROVE  (a + m) % m = a % m
<1> DEFINE p == (a + m) \div m
           q == a \div m
           r == (a + m) % m
           s == a % m
<1>1. /\ p \in Nat /\ q \in Nat /\ r \in 0 .. m - 1 /\ s \in 0 .. m - 1
      /\ a + m = m * p + r /\ a = m * q + s
  <2>1. a + m \in Nat
    OBVIOUS
  <2> QED
    BY <2>1, DivMod
<1> HIDE DEF p, q, r, s
<1>2. m * p \in Nat /\ m * q \in Nat /\ m * (q + 1) = m * q + m
  BY <1>1
<1>3. ~(p < q + 1)
  <2> SUFFICES ASSUME p < q + 1 PROVE FALSE
    OBVIOUS
  <2>1. m * p + m <= m * (q + 1)
    BY <1>1, NextMultiple
  <2> QED
    BY <1>1, <1>2, <2>1
<1>4. ~(q + 1 < p)
  <2> SUFFICES ASSUME q + 1 < p PROVE FALSE
    OBVIOUS
  <2>1. m * (q + 1) + m <= m * p
    BY <1>1, NextMultiple
  <2> QED
    BY <1>1, <1>2, <2>1
<1>5. p = q + 1
  BY <1>1, <1>3, <1>4
<1>6. r = s
  BY <1>1, <1>2, <1>5
<1> QED
  BY <1>6 DEF r, s

\* icmp_seq of a request has 16 bits; it is unique among the last MX_DUP_CK
\* requests, and comes again after as many (bsdping.c:419, 501).
LEMMA SeqFacts ==
  ASSUME NEW a \in Nat \ {0}
  PROVE  /\ PG!Seq(a) \in 0 .. MX_DUP_CK - 1
         /\ PG!Seq(a + MX_DUP_CK) = PG!Seq(a)
         /\ \A b \in Nat \ {0} :
              a <= b /\ b < a + MX_DUP_CK /\ PG!Seq(a) = PG!Seq(b) => a = b
<1>0. MX_DUP_CK \in Nat \ {0} /\ a - 1 \in Nat
  BY PingAssumption
<1>1. PG!Seq(a) \in 0 .. MX_DUP_CK - 1
  BY <1>0, DivMod DEF PG!Seq
<1>2. PG!Seq(a + MX_DUP_CK) = PG!Seq(a)
  <2>1. (a + MX_DUP_CK) - 1 = (a - 1) + MX_DUP_CK
    BY <1>0
  <2>2. ((a - 1) + MX_DUP_CK) % MX_DUP_CK = (a - 1) % MX_DUP_CK
    BY <1>0, ModPeriod
  <2> QED
    BY <2>1, <2>2 DEF PG!Seq
<1>3. ASSUME NEW b \in Nat \ {0}, a <= b, b < a + MX_DUP_CK, PG!Seq(a) = PG!Seq(b)
      PROVE  a = b
  <2>1. b - 1 \in Nat /\ a - 1 <= b - 1 /\ b - 1 < (a - 1) + MX_DUP_CK
    BY <1>0, <1>3
  <2>2. (a - 1) % MX_DUP_CK = (b - 1) % MX_DUP_CK
    BY <1>3 DEF PG!Seq
  <2>3. a - 1 = b - 1
    BY <1>0, <2>1, <2>2, ModInjective
  <2> QED
    BY <2>3
<1> QED
  BY <1>1, <1>2, <1>3

\* The answers to the requests sent so far, twice if they come twice.
Ours == [n : 1 .. pg_ntransmitted, copy : 1 .. 2]

\* The table as it is once main has written what it is about to write.
Table == IF pg_pc = "set" THEN pg_byte \cup {PG!Seq(pg_packet.n)} ELSE pg_rcvd_tbl

\* The numbers in use whose bit is not set.
Unset == {PG!Seq(n) : n \in 1 .. pg_ntransmitted} \ Table

PingTypes ==
  /\ pg_pc \in {"start", "flood", "select", "recv", "packet", "test", "set", "loop"}
  /\ pg_ntransmitted \in 0 .. Packets
  /\ pg_nreceived \in Nat /\ pg_nrepeats \in Nat
  /\ pg_pc = "test" => pg_nreceived > 0
  /\ pg_rcvd_tbl \in SUBSET (0 .. MX_DUP_CK - 1) /\ pg_byte \in SUBSET (0 .. MX_DUP_CK - 1)
  /\ pg_npackets \in Nat /\ pg_preload \in Nat

\* Where an answer is: on its way, in main's hands, or counted.
AnswersOnce ==
  /\ pg_taken \subseteq Ours /\ IsFiniteSet(pg_taken)
  /\ pg_arriving \subseteq Ours \cup PG!Foreign
  /\ pg_packet \in Ours \cup PG!Foreign
  /\ pg_taken \cap pg_arriving = {}
  /\ pg_pc \in {"packet", "test"} /\ pg_packet \notin PG!Foreign
       => pg_packet \notin pg_taken /\ pg_packet \notin pg_arriving
  /\ pg_pc \in {"test", "set"} => pg_packet \notin PG!Foreign

\* Every answer counted has set a bit: a number is counted again only after it has
\* been used again.
Adds ==
  /\ PG!Received + pg_nrepeats = Cardinality(pg_taken)
  /\ PG!Received + Cardinality(Unset) <= pg_ntransmitted

\* The bits set are those of the answers in the last MX_DUP_CK requests.
Exact ==
  /\ Table = {PG!Seq(n) : n \in {k \in PG!Answered : k + MX_DUP_CK > pg_ntransmitted}}
  /\ PG!Received = Cardinality(PG!Answered)

\* FloodOne is taken with -f only.
FloodsOnlyAsked == pg_pc \in {"flood", "select"} => pg_flood

PingInv ==
  /\ PingTypes /\ AnswersOnce /\ FloodsOnlyAsked
  /\ pg_version = "bsdping" => Adds
  /\ pg_version = "bsdping" /\ ~pg_blurred => Exact
  /\ PG!SendsNoMore

LEMMA Sizes == ASSUME NEW S PROVE PG!Cardinality(S) = Cardinality(S)
BY DEF PG!Cardinality, Cardinality

LEMMA OursAreNotForeign == ASSUME NEW m \in Ours PROVE m \notin PG!Foreign /\ m.n \in Nat \ {0} /\ m.n <= pg_ntransmitted
BY PingAssumption DEF Ours, PG!Foreign, PG!Echo

LEMMA UnsetFinite == ASSUME NEW T, NEW x \in Nat PROVE IsFiniteSet({PG!Seq(n) : n \in 1 .. x} \ T)
<1>1. {PG!Seq(n) : n \in 1 .. x} \ T \in SUBSET (0 .. MX_DUP_CK - 1)
  BY SeqFacts
<1>2. IsFiniteSet(0 .. MX_DUP_CK - 1)
  BY FS_Interval, PingAssumption
<1> QED
  BY <1>1, <1>2, FS_Subset

LEMMA AnsweredFinite == ASSUME PingInv PROVE PG!Answered \subseteq 1 .. pg_ntransmitted /\ IsFiniteSet(PG!Answered)
<1>1. PG!Answered \in SUBSET (1 .. pg_ntransmitted)
  BY DEF PG!Answered, PingInv, AnswersOnce, Ours
<1>2. IsFiniteSet(1 .. pg_ntransmitted)
  BY FS_Interval DEF PingInv, PingTypes
<1> QED
  BY <1>1, <1>2, FS_Subset

LEMMA PingInit == PG!Init => PingInv
<1> SUFFICES ASSUME PG!Init PROVE PingInv
  OBVIOUS
<1>1. PingTypes /\ FloodsOnlyAsked
  BY PingAssumption DEF PG!Init, PingTypes, FloodsOnlyAsked
<1>2. AnswersOnce
  BY FS_EmptySet DEF PG!Init, AnswersOnce, PG!Foreign, PG!OtherType
<1>3. Adds /\ Exact
  <2>1. Unset = {} /\ Table = {} /\ PG!Answered = {} /\ PG!Received = 0
    BY DEF PG!Init, Unset, Table, PG!Answered, PG!Received
  <2> QED
    BY <2>1, FS_EmptySet DEF Adds, Exact, PG!Init
<1>4. PG!SendsNoMore
  BY DEF PG!Init, PG!SendsNoMore
<1> QED
  BY <1>1, <1>2, <1>3, <1>4 DEF PingInv

LEMMA PingMeans == PingInv => PG!PingCounts
<1> SUFFICES ASSUME PingInv PROVE PG!PingCounts
  OBVIOUS
<1>1. PG!TypeOK
  BY DEF PingInv, PingTypes, PG!TypeOK
<1>2. PG!PrintsOwn
  BY OursAreNotForeign DEF PingInv, AnswersOnce, PG!PrintsOwn
<1>3. ASSUME pg_version = "bsdping"
      PROVE  /\ PG!Received + pg_nrepeats = PG!Cardinality(pg_taken)
             /\ PG!Received <= pg_ntransmitted
             /\ ~pg_blurred => PG!Received = PG!Cardinality(PG!Answered)
  <2>1. Adds
    BY <1>3 DEF PingInv
  <2>2. Cardinality(Unset) \in Nat
    <3>1. pg_ntransmitted \in Nat
      BY PingAssumption DEF PingInv, PingTypes
    <3>2. IsFiniteSet(Unset)
      BY <3>1, UnsetFinite DEF Unset
    <3> QED
      BY <3>2, FS_CardinalityType
  <2>3. PG!Received \in Nat /\ pg_ntransmitted \in Nat
    BY DEF PG!Received, PingInv, PingTypes
  <2>4. PG!Received <= pg_ntransmitted
    BY <2>1, <2>2, <2>3 DEF Adds
  <2>5. ~pg_blurred => PG!Received = Cardinality(PG!Answered)
    BY <1>3, Zenon DEF PingInv, Exact
  <2> QED
    BY <2>1, <2>4, <2>5, Sizes DEF Adds
<1>4. PG!CountsAnswers
  BY <1>3, Zenon DEF PG!CountsAnswers
<1> QED
  BY <1>1, <1>2, <1>4 DEF PG!PingCounts, PingInv

LEMMA PingFacts ==
  ASSUME PingInv
  PROVE  /\ pg_ntransmitted \in Nat /\ pg_ntransmitted <= Packets
         /\ PG!Received \in Nat
         /\ IsFiniteSet(Unset) /\ Cardinality(Unset) \in Nat
         /\ IsFiniteSet(pg_taken) /\ Cardinality(pg_taken) \in Nat
<1>1. pg_ntransmitted \in Nat /\ pg_ntransmitted <= Packets
  BY PingAssumption DEF PingInv, PingTypes
<1>2. PG!Received \in Nat
  BY DEF PG!Received, PingInv, PingTypes
<1>3. IsFiniteSet(Unset)
  BY <1>1, UnsetFinite DEF Unset
<1> QED
  BY <1>1, <1>2, <1>3, FS_CardinalityType DEF PingInv, AnswersOnce

\* A request that goes out: its answers are new.
LEMMA TransmitFacts ==
  ASSUME PingInv, PG!Transmit, UNCHANGED <<pg_taken, pg_packet>>,
         pg_pc' = pg_pc \/ pg_pc' \notin {"packet", "test", "set"}
  PROVE  /\ pg_ntransmitted' = pg_ntransmitted + 1 /\ pg_ntransmitted' \in 0 .. Packets
         /\ AnswersOnce'
<1>1. pg_ntransmitted' = pg_ntransmitted + 1 /\ pg_ntransmitted' \in 0 .. Packets
  BY PingFacts, PingAssumption DEF PG!Transmit
<1>2. PICK k \in 0 .. 2 :
        pg_arriving' = pg_arriving \union {PG!Echo(pg_ntransmitted', c) : c \in 1 .. k}
  BY DEF PG!Transmit
<1> DEFINE new == {PG!Echo(pg_ntransmitted', c) : c \in 1 .. k}
<1>3. Ours \subseteq Ours'
  BY <1>1, PingFacts DEF Ours
<1>4. \A m \in new : m \in Ours' /\ m.n = pg_ntransmitted'
  BY <1>1, PingFacts DEF Ours, PG!Echo
<1>5. \A m \in Ours : m \notin new
  BY <1>1, <1>4, PingFacts, OursAreNotForeign
<1> HIDE DEF new
<1>6. pg_arriving' = pg_arriving \cup new
  BY <1>2 DEF new
<1>7. AnswersOnce
  BY DEF PingInv
<1>8. pg_taken' \subseteq Ours' /\ IsFiniteSet(pg_taken') /\ pg_arriving' \subseteq Ours' \cup PG!Foreign
      /\ pg_packet' \in Ours' \cup PG!Foreign
  BY <1>3, <1>4, <1>6, <1>7 DEF AnswersOnce
<1>9. pg_taken' \cap pg_arriving' = {}
  BY <1>5, <1>6, <1>7 DEF AnswersOnce
<1>10. /\ pg_pc' \in {"packet", "test"} /\ pg_packet' \notin PG!Foreign
            => pg_packet' \notin pg_taken' /\ pg_packet' \notin pg_arriving'
       /\ pg_pc' \in {"test", "set"} => pg_packet' \notin PG!Foreign
  BY <1>5, <1>6, <1>7 DEF AnswersOnce
<1>11. PG!Foreign' = PG!Foreign
  BY DEF PG!Foreign, PG!Echo
<1> QED
  BY <1>1, <1>8, <1>9, <1>10, <1>11 DEF AnswersOnce

\* pinger uses the next number: its bit is cleared, unless main was about to set it.
LEMMA PingerFacts ==
  ASSUME PingInv, pg_version = "bsdping", PG!Pinger, UNCHANGED <<pg_version, pg_packet, pg_byte>>,
         pg_pc' = pg_pc \/ (pg_pc = "flood" /\ pg_pc' = "select")
  PROVE  Adds' /\ (~pg_blurred' => Exact') /\ pg_rcvd_tbl' \in SUBSET (0 .. MX_DUP_CK - 1)
<1> DEFINE t == pg_ntransmitted + 1
<1>1. /\ pg_ntransmitted' = t /\ t \in Nat \ {0} /\ pg_ntransmitted \in Nat
      /\ pg_nreceived' = pg_nreceived /\ pg_nrepeats' = pg_nrepeats /\ pg_taken' = pg_taken
  BY PingFacts DEF PG!Pinger, PG!Transmit
<1>2. pg_rcvd_tbl' = pg_rcvd_tbl \ {PG!Seq(t)}
  BY <1>1 DEF PG!Pinger, PG!Clr
<1>3. pg_pc = "set" => Table' = Table
  BY DEF Table
<1>4. pg_pc # "set" => Table' = Table \ {PG!Seq(t)}
  BY <1>2 DEF Table
<1>5. PG!Received' = PG!Received /\ PG!Answered' = PG!Answered
  BY <1>1 DEF PG!Received, PG!Answered
<1>6. Adds'
  <2>1. 1 .. pg_ntransmitted' = (1 .. pg_ntransmitted) \cup {t}
    BY <1>1
  <2>2. Unset' \in SUBSET (Unset \cup {PG!Seq(t)})
    <3>1. Table \ {PG!Seq(t)} \subseteq Table'
      BY <1>3, <1>4
    <3> QED
      BY <2>1, <3>1 DEF Unset
  <2>3. /\ IsFiniteSet(Unset \cup {PG!Seq(t)})
        /\ Cardinality(Unset \cup {PG!Seq(t)}) \in Nat
        /\ Cardinality(Unset \cup {PG!Seq(t)}) <= Cardinality(Unset) + 1
    <3>1. IsFiniteSet(Unset) /\ Cardinality(Unset) \in Nat
      BY PingFacts
    <3>2. /\ IsFiniteSet(Unset \cup {PG!Seq(t)})
          /\ Cardinality(Unset \cup {PG!Seq(t)}) =
               IF PG!Seq(t) \in Unset THEN Cardinality(Unset) ELSE Cardinality(Unset) + 1
      BY <3>1, FS_AddElement
    <3> QED
      BY <3>1, <3>2
  <2>4. Cardinality(Unset') \in Nat /\ Cardinality(Unset') <= Cardinality(Unset) + 1
    <3>1. IsFiniteSet(Unset') /\ Cardinality(Unset') <= Cardinality(Unset \cup {PG!Seq(t)})
      BY <2>2, <2>3, FS_Subset
    <3>2. Cardinality(Unset') \in Nat
      BY <3>1, FS_CardinalityType
    <3> QED
      BY <2>3, <3>1, <3>2, PingFacts
  <2>5. Adds
    BY DEF PingInv
  <2>6. PG!Received + Cardinality(Unset') <= pg_ntransmitted'
    BY <1>1, <2>4, <2>5, PingFacts DEF Adds
  <2> QED
    BY <1>1, <1>5, <2>5, <2>6 DEF Adds
<1>7. ASSUME ~pg_blurred' PROVE Exact'
  <2>1. ~pg_blurred /\ ~(pg_pc = "set" /\ PG!Seq(t) \in Table)
    <3>1. pg_blurred' = (pg_blurred \/ (pg_pc = "set" /\ PG!Seq(pg_ntransmitted') \in pg_byte \union {PG!Seq(pg_packet.n)}))
      BY DEF PG!Pinger
    <3>2. ~pg_blurred /\ ~(pg_pc = "set" /\ PG!Seq(pg_ntransmitted') \in pg_byte \union {PG!Seq(pg_packet.n)})
      BY <1>7, <3>1, Zenon
    <3>3. pg_pc = "set" => PG!Seq(t) \notin Table
      BY <1>1, <3>2 DEF Table
    <3> QED
      BY <3>2, <3>3
  <2>2. Exact
    BY <2>1, Zenon DEF PingInv
  <2>3. PG!Answered \subseteq 1 .. pg_ntransmitted
    BY AnsweredFinite
  <2>4. Table' = Table \ {PG!Seq(t)}
    BY <1>3, <1>4, <2>1
  <2>5. ASSUME NEW x, x \in Table \ {PG!Seq(t)}
        PROVE  \E k \in PG!Answered : x = PG!Seq(k) /\ k + MX_DUP_CK > t
    <3>1. PICK k \in PG!Answered : x = PG!Seq(k) /\ k + MX_DUP_CK > pg_ntransmitted
      BY <2>2, <2>5 DEF Exact
    <3>2. k \in Nat \ {0}
      BY <2>3, <1>1
    <3>3. k + MX_DUP_CK # t
      BY <2>5, <3>1, <3>2, SeqFacts
    <3> QED
      BY <1>1, <3>1, <3>2, <3>3, PingAssumption
  <2>6. ASSUME NEW k \in PG!Answered, k + MX_DUP_CK > t
        PROVE  PG!Seq(k) \in Table \ {PG!Seq(t)}
    <3>1. k \in Nat \ {0} /\ k <= t /\ k # t /\ t < k + MX_DUP_CK
      BY <2>3, <2>6, <1>1, PingAssumption
    <3>2. PG!Seq(k) # PG!Seq(t)
      BY <1>1, <3>1, SeqFacts
    <3>3. k + MX_DUP_CK > pg_ntransmitted
      BY <1>1, <3>1, PingAssumption
    <3>4. PG!Seq(k) \in Table
      BY <2>2, <3>3 DEF Exact
    <3> QED
      BY <3>2, <3>4
  <2>7. Table' = {PG!Seq(n) : n \in {k \in PG!Answered : k + MX_DUP_CK > t}}
    <3> DEFINE W == {PG!Seq(n) : n \in {k \in PG!Answered : k + MX_DUP_CK > t}}
    <3>1. \A x : x \in W <=> \E k \in PG!Answered : x = PG!Seq(k) /\ k + MX_DUP_CK > t
      OBVIOUS
    <3> HIDE DEF W
    <3>2. \A x : x \in Table \ {PG!Seq(t)} <=> x \in W
      BY <2>5, <2>6, <3>1
    <3>3. Table' = W
      BY <2>4, <3>2
    <3> QED
      BY <3>3 DEF W
  <2> QED
    BY <1>1, <1>5, <2>2, <2>7 DEF Exact
<1>8. pg_rcvd_tbl' \in SUBSET (0 .. MX_DUP_CK - 1)
  BY <1>2 DEF PingInv, PingTypes
<1> QED
  BY <1>6, <1>7, <1>8

\* main takes an answer: counted, or a repeat of one.
LEMMA TstSeqFacts ==
  ASSUME PingInv, pg_version = "bsdping", PG!TstSeq
  PROVE  PingInv'
<1> DEFINE p == pg_packet
           x == PG!Seq(pg_packet.n)
<1>1. /\ pg_pc = "test" /\ pg_taken' = pg_taken \cup {p}
      /\ UNCHANGED <<pg_version, pg_npackets, pg_preload, pg_flood, pg_packet, pg_ntransmitted,
                     pg_rcvd_tbl, pg_arriving>>
  BY DEF PG!TstSeq, PG!options
<1>2. p \in Ours /\ p \notin pg_taken /\ p \notin pg_arriving /\ p \notin PG!Foreign
  BY <1>1 DEF PingInv, AnswersOnce
<1>3. p.n \in 1 .. pg_ntransmitted /\ p.n \in Nat \ {0} /\ pg_ntransmitted \in Nat
  BY <1>2, PingFacts, OursAreNotForeign
<1>4. \/ /\ x \in pg_rcvd_tbl /\ pg_nrepeats' = pg_nrepeats + 1 /\ pg_nreceived' = pg_nreceived - 1
         /\ pg_pc' = "loop" /\ pg_byte' = pg_byte
      \/ /\ x \notin pg_rcvd_tbl /\ pg_byte' = pg_rcvd_tbl /\ pg_pc' = "set"
         /\ pg_nreceived' = pg_nreceived /\ pg_nrepeats' = pg_nrepeats
  BY DEF PG!TstSeq
<1>5. PingTypes'
  <2>1. PingTypes /\ pg_nreceived > 0
    BY <1>1 DEF PingInv, PingTypes
  <2>2. pg_nreceived' \in Nat /\ pg_nrepeats' \in Nat
    BY <1>4, <2>1 DEF PingTypes
  <2>3. pg_pc' \in {"loop", "set"} /\ pg_byte' \in {pg_byte, pg_rcvd_tbl}
    BY <1>4
  <2> QED
    BY <1>1, <2>1, <2>2, <2>3 DEF PingTypes
<1>6. Ours' = Ours /\ PG!Foreign' = PG!Foreign
  BY <1>1 DEF Ours, PG!Foreign, PG!Echo
<1>7. AnswersOnce'
  <2>1. IsFiniteSet(pg_taken')
    BY <1>1, FS_AddElement DEF PingInv, AnswersOnce
  <2> QED
    BY <1>1, <1>2, <1>4, <1>6, <2>1 DEF PingInv, AnswersOnce
<1>8. FloodsOnlyAsked' /\ PG!SendsNoMore'
  BY <1>1, <1>4 DEF PingInv, FloodsOnlyAsked, PG!SendsNoMore
<1>9. Cardinality(pg_taken') = Cardinality(pg_taken) + 1 /\ Cardinality(pg_taken) \in Nat
  BY <1>1, <1>2, PingFacts, FS_AddElement
<1>10. PG!Received = pg_nreceived - 1 /\ PG!Received' = pg_nreceived' /\ pg_nreceived \in Nat
       /\ pg_nreceived > 0
  BY <1>1, <1>4 DEF PG!Received, PingInv, PingTypes
<1>11. Table = pg_rcvd_tbl
  BY <1>1 DEF Table
<1>12. Table' = Table \cup {x}
  BY <1>1, <1>4, <1>11 DEF Table
<1>13. Adds'
  <2>1. Adds
    BY DEF PingInv
  <2>2. PG!Received' + pg_nrepeats' = Cardinality(pg_taken')
    BY <1>4, <1>9, <1>10, <2>1 DEF Adds, PingInv, PingTypes
  <2>3. x \in {PG!Seq(n) : n \in 1 .. pg_ntransmitted}
    BY <1>3
  <2>4. Unset' = Unset \ {x}
    BY <1>1, <1>12 DEF Unset
  <2>5. CASE x \in Table
    <3>1. Unset' = Unset /\ PG!Received' = PG!Received
      BY <1>4, <1>10, <1>11, <2>4, <2>5 DEF Unset
    <3> QED
      BY <1>1, <2>1, <2>2, <3>1 DEF Adds
  <2>6. CASE x \notin Table
    <3>1. x \in Unset
      BY <2>3, <2>6 DEF Unset
    <3>2. IsFiniteSet(Unset) /\ Cardinality(Unset) \in Nat
      BY PingFacts
    <3>3. Cardinality(Unset') = Cardinality(Unset) - 1
      BY <2>4, <3>1, <3>2, FS_RemoveElement
    <3>4. PG!Received' = PG!Received + 1 /\ PG!Received \in Nat
      BY <1>4, <1>10, <1>11, <2>6
    <3>5. PG!Received' + Cardinality(Unset') <= pg_ntransmitted'
      BY <1>1, <1>3, <2>1, <3>2, <3>3, <3>4 DEF Adds
    <3> QED
      BY <2>2, <3>5 DEF Adds
  <2> QED
    BY <2>5, <2>6
<1>14. ASSUME ~pg_blurred' PROVE Exact'
  <2>1. ~pg_blurred /\ ~(p.n + MX_DUP_CK <= pg_ntransmitted)
    <3>1. pg_blurred' = (pg_blurred \/ p.n + MX_DUP_CK <= pg_ntransmitted)
      BY DEF PG!TstSeq
    <3> QED
      BY <1>14, <3>1, Zenon
  <2>2. Exact
    BY <2>1, Zenon DEF PingInv
  <2>3. p.n + MX_DUP_CK > pg_ntransmitted
    BY <1>3, <2>1, PingAssumption
  <2>4. PG!Answered' = PG!Answered \cup {p.n}
    BY <1>1 DEF PG!Answered
  <2>5. PG!Answered \subseteq 1 .. pg_ntransmitted /\ IsFiniteSet(PG!Answered)
    BY AnsweredFinite
  <2>6. x \in Table <=> p.n \in PG!Answered
    <3>1. ASSUME x \in Table PROVE p.n \in PG!Answered
      <4>1. PICK k \in PG!Answered : x = PG!Seq(k) /\ k + MX_DUP_CK > pg_ntransmitted
        BY <2>2, <3>1 DEF Exact
      <4>2. k \in Nat \ {0} /\ k <= pg_ntransmitted
        BY <2>5, <1>3
      <4>3. k <= p.n => k = p.n
        BY <1>3, <2>3, <4>1, <4>2, SeqFacts, PingAssumption
      <4>4. p.n <= k => k = p.n
        BY <1>3, <2>3, <4>1, <4>2, SeqFacts, PingAssumption
      <4> QED
        BY <1>3, <4>2, <4>3, <4>4
    <3>2. ASSUME p.n \in PG!Answered PROVE x \in Table
      BY <2>2, <2>3, <3>2 DEF Exact
    <3> QED
      BY <3>1, <3>2
  <2>7. Table' = {PG!Seq(n) : n \in {k \in PG!Answered' : k + MX_DUP_CK > pg_ntransmitted'}}
    BY <1>1, <1>12, <2>2, <2>3, <2>4 DEF Exact
  <2>8. PG!Received' = Cardinality(PG!Answered')
    <3>1. Cardinality(PG!Answered') = IF p.n \in PG!Answered THEN Cardinality(PG!Answered)
                                      ELSE Cardinality(PG!Answered) + 1
      BY <2>4, <2>5, FS_AddElement
    <3>2. PG!Received' = IF x \in Table THEN PG!Received ELSE PG!Received + 1
      BY <1>4, <1>10, <1>11
    <3> QED
      BY <2>2, <2>6, <3>1, <3>2 DEF Exact
  <2> QED
    BY <2>7, <2>8 DEF Exact
<1> QED
  BY <1>1, <1>5, <1>7, <1>8, <1>13, <1>14, Zenon DEF PingInv

\* Steps that neither send nor count.
LEMMA PingKept ==
  ASSUME PingInv, PingTypes', AnswersOnce', FloodsOnlyAsked', Table' = Table,
         PG!Received' = PG!Received,
         UNCHANGED <<pg_version, pg_npackets, pg_preload, pg_flood, pg_ntransmitted, pg_nrepeats,
                     pg_taken, pg_blurred>>
  PROVE  PingInv'
<1>1. Unset' = Unset /\ PG!Answered' = PG!Answered
  BY DEF Unset, PG!Answered
<1>2. Adds => Adds'
  BY <1>1 DEF Adds
<1>3. Exact => Exact'
  BY <1>1 DEF Exact
<1>4. PG!SendsNoMore'
  BY DEF PingInv, PG!SendsNoMore
<1>5. pg_version' = pg_version /\ pg_blurred' = pg_blurred
  OBVIOUS
<1> QED
  <2>1. pg_version' = "bsdping" => Adds'
    BY <1>2, <1>5 DEF PingInv
  <2>2. pg_version' = "bsdping" /\ ~pg_blurred' => Exact'
    BY <1>3, <1>5 DEF PingInv
  <2> QED
    BY <1>4, <2>1, <2>2 DEF PingInv

Idle == {"start", "flood", "select", "recv", "loop"}

\* Only main's place, the timer or the end of the program changes.
LEMMA QuietStep ==
  ASSUME PingInv,
         UNCHANGED <<pg_version, pg_npackets, pg_preload, pg_flood, pg_ntransmitted, pg_nreceived,
                     pg_nrepeats, pg_taken, pg_blurred, pg_rcvd_tbl, pg_byte, pg_packet, pg_arriving>>,
         pg_pc' = pg_pc \/ (pg_pc \in Idle /\ pg_pc' \in Idle),
         pg_pc' \in {"flood", "select"} => pg_flood
  PROVE  PingInv'
<1>1. PingTypes' /\ FloodsOnlyAsked'
  BY DEF PingInv, PingTypes, FloodsOnlyAsked, Idle
<1>2. Ours' = Ours /\ PG!Foreign' = PG!Foreign
  BY DEF Ours, PG!Foreign, PG!Echo
<1>3. AnswersOnce'
  BY <1>2 DEF PingInv, AnswersOnce, Idle
<1>4. Table' = Table
  BY DEF Table, Idle
<1>5. PG!Received' = PG!Received
  BY DEF PG!Received, Idle
<1> QED
  BY <1>1, <1>3, <1>4, <1>5, PingKept

LEMMA ReadPacketStep ==
  ASSUME PingInv, pg_pc = "recv", pg_pc' = "packet",
         NEW m \in pg_arriving, pg_packet' = m, pg_arriving' = pg_arriving \ {m},
         UNCHANGED <<pg_version, pg_npackets, pg_preload, pg_flood, pg_ntransmitted, pg_nreceived,
                     pg_nrepeats, pg_taken, pg_blurred, pg_rcvd_tbl, pg_byte>>
  PROVE  PingInv'
<1>1. PingTypes' /\ FloodsOnlyAsked'
  BY DEF PingInv, PingTypes, FloodsOnlyAsked
<1>2. Ours' = Ours /\ PG!Foreign' = PG!Foreign
  BY DEF Ours, PG!Foreign, PG!Echo
<1>3. AnswersOnce'
  BY <1>2 DEF PingInv, AnswersOnce
<1>4. Table' = Table /\ PG!Received' = PG!Received
  BY DEF Table, PG!Received
<1> QED
  BY <1>1, <1>3, <1>4, PingKept

LEMMA PrPackStep == ASSUME PingInv, PG!PrPack PROVE PingInv'
<1>1. /\ pg_pc = "packet"
      /\ UNCHANGED <<pg_version, pg_npackets, pg_preload, pg_flood, pg_ntransmitted, pg_packet,
                     pg_nrepeats, pg_taken, pg_blurred, pg_rcvd_tbl, pg_byte, pg_arriving>>
      /\ \/ pg_packet \in PG!Foreign /\ pg_pc' = "loop" /\ pg_nreceived' = pg_nreceived
         \/ pg_packet \notin PG!Foreign /\ pg_pc' = "test" /\ pg_nreceived' = pg_nreceived + 1
  BY DEF PG!PrPack, PG!options
<1>2. PingTypes' /\ FloodsOnlyAsked'
  BY <1>1 DEF PingInv, PingTypes, FloodsOnlyAsked
<1>3. Ours' = Ours /\ PG!Foreign' = PG!Foreign
  BY <1>1 DEF Ours, PG!Foreign, PG!Echo
<1>4. AnswersOnce'
  BY <1>1, <1>3 DEF PingInv, AnswersOnce
<1>5. Table' = Table
  BY <1>1 DEF Table
<1>6. PG!Received' = PG!Received
  BY <1>1 DEF PG!Received, PingInv, PingTypes
<1> QED
  BY <1>1, <1>2, <1>4, <1>5, <1>6, PingKept

LEMMA SetSeqStep == ASSUME PingInv, PG!SetSeq PROVE PingInv'
<1>1. /\ pg_pc = "set" /\ pg_pc' = "loop" /\ pg_rcvd_tbl' = pg_byte \cup {PG!Seq(pg_packet.n)}
      /\ UNCHANGED <<pg_version, pg_npackets, pg_preload, pg_flood, pg_ntransmitted, pg_packet,
                     pg_nreceived, pg_nrepeats, pg_taken, pg_blurred, pg_byte, pg_arriving>>
  BY DEF PG!SetSeq, PG!options, PG!counters
<1>2. pg_packet \in Ours
  BY <1>1 DEF PingInv, AnswersOnce
<1>3. PG!Seq(pg_packet.n) \in 0 .. MX_DUP_CK - 1
  BY <1>2, OursAreNotForeign, SeqFacts
<1>4. PingTypes' /\ FloodsOnlyAsked'
  BY <1>1, <1>3 DEF PingInv, PingTypes, FloodsOnlyAsked
<1>5. Ours' = Ours /\ PG!Foreign' = PG!Foreign
  BY <1>1 DEF Ours, PG!Foreign, PG!Echo
<1>6. AnswersOnce'
  BY <1>1, <1>5 DEF PingInv, AnswersOnce
<1>7. Table' = Table /\ PG!Received' = PG!Received
  BY <1>1 DEF Table, PG!Received
<1> QED
  BY <1>1, <1>4, <1>6, <1>7, PingKept

\* pinger, from main with -l or -f, or from the handler.
LEMMA PingerStep ==
  ASSUME PingInv, pg_version = "bsdping", PG!Pinger,
         UNCHANGED <<pg_version, pg_npackets, pg_preload, pg_flood, pg_packet, pg_byte>>,
         pg_pc' = pg_pc \/ (pg_pc = "flood" /\ pg_pc' = "select"),
         \/ pg_ntransmitted < pg_preload \/ pg_flood
         \/ pg_npackets = 0 \/ pg_ntransmitted < pg_npackets
  PROVE  PingInv'
<1>1. /\ PG!Transmit /\ pg_nreceived' = pg_nreceived /\ pg_nrepeats' = pg_nrepeats
      /\ pg_taken' = pg_taken
  BY DEF PG!Pinger
<1>2. /\ pg_ntransmitted' = pg_ntransmitted + 1 /\ pg_ntransmitted' \in 0 .. Packets
      /\ AnswersOnce'
  BY <1>1, TransmitFacts
<1>3. Adds' /\ (~pg_blurred' => Exact') /\ pg_rcvd_tbl' \in SUBSET (0 .. MX_DUP_CK - 1)
  BY PingerFacts
<1>4. PingTypes'
  BY <1>1, <1>2, <1>3 DEF PingInv, PingTypes
<1>5. FloodsOnlyAsked'
  BY DEF PingInv, FloodsOnlyAsked
<1>6. PG!SendsNoMore'
  BY <1>2, PingFacts DEF PingInv, PingTypes, PG!SendsNoMore
<1> QED
  BY <1>2, <1>3, <1>4, <1>5, <1>6, Zenon DEF PingInv

\* The book's ping counts nothing; it prints each answer.
LEMMA StevensStep == ASSUME PingInv, PG!Stevens PROVE PingInv'
<1>0. pg_version # "bsdping"
  BY DEF PG!Stevens
<1>1. CASE PG!SigAlrm
  <2>1. /\ UNCHANGED <<pg_version, pg_npackets, pg_preload, pg_flood, pg_nreceived, pg_nrepeats,
                       pg_taken, pg_blurred, pg_rcvd_tbl, pg_byte, pg_packet>>
        /\ pg_pc' = IF pg_pc = "start" THEN "recv" ELSE pg_pc
        /\ \/ PG!Transmit
           \/ pg_ntransmitted' = pg_ntransmitted /\ pg_arriving' = pg_arriving
    BY <1>1 DEF PG!SigAlrm, PG!options, PG!counters
  <2>2. CASE PG!Transmit
    <3>1. pg_ntransmitted' \in 0 .. Packets /\ AnswersOnce'
      BY <2>1, <2>2, TransmitFacts
    <3>2. PingTypes' /\ FloodsOnlyAsked'
      BY <2>1, <3>1 DEF PingInv, PingTypes, FloodsOnlyAsked
    <3> QED
      BY <1>0, <2>1, <3>1, <3>2 DEF PingInv, PG!SendsNoMore
  <2>3. CASE pg_ntransmitted' = pg_ntransmitted /\ pg_arriving' = pg_arriving
    <3>1. pg_pc' = pg_pc \/ (pg_pc \in Idle /\ pg_pc' \in Idle)
      BY <2>1 DEF Idle
    <3>2. pg_pc' \in {"flood", "select"} => pg_flood
      BY <2>1 DEF PingInv, FloodsOnlyAsked
    <3> QED
      BY <2>1, <2>3, <3>1, <3>2, QuietStep
  <2> QED
    BY <2>1, <2>2, <2>3
<1>2. CASE PG!Recvmsg
  BY <1>2, ReadPacketStep DEF PG!Recvmsg, PG!options, PG!counters
<1>3. CASE PG!Proc
  <2>1. /\ pg_pc = "packet" /\ pg_pc' = "recv"
        /\ UNCHANGED <<pg_version, pg_npackets, pg_preload, pg_flood, pg_ntransmitted, pg_nreceived,
                       pg_nrepeats, pg_blurred, pg_rcvd_tbl, pg_byte, pg_packet, pg_arriving>>
        /\ pg_taken' = IF pg_packet \notin PG!Foreign THEN pg_taken \cup {pg_packet} ELSE pg_taken
    BY <1>3 DEF PG!Proc, PG!options, PG!IsOurs
  <2>2. PingTypes' /\ FloodsOnlyAsked'
    BY <2>1 DEF PingInv, PingTypes, FloodsOnlyAsked
  <2>3. Ours' = Ours /\ PG!Foreign' = PG!Foreign
    BY <2>1 DEF Ours, PG!Foreign, PG!Echo
  <2>4. IsFiniteSet(pg_taken')
    BY <2>1, FS_AddElement DEF PingInv, AnswersOnce
  <2>5. AnswersOnce'
    BY <2>1, <2>3, <2>4 DEF PingInv, AnswersOnce
  <2> QED
    BY <1>0, <2>1, <2>2, <2>5 DEF PingInv, PG!SendsNoMore
<1> QED
  BY <1>1, <1>2, <1>3 DEF PG!Stevens, PG!Readloop, PG!ProcV4, PG!ProcV6

LEMMA BsdStep == ASSUME PingInv, PG!BsdPing PROVE PingInv'
<1>0. pg_version = "bsdping" /\ (PG!BsdMain \/ PG!Onalrm \/ PG!Onint)
  BY DEF PG!BsdPing
<1>1. CASE PG!PreloadOne
  BY <1>0, <1>1, PingerStep DEF PG!PreloadOne, PG!options, PG!main
<1>2. CASE PG!FloodOne
  <2>1. pg_flood
    BY <1>2 DEF PG!FloodOne, PingInv, FloodsOnlyAsked
  <2> QED
    BY <1>0, <1>2, <2>1, PingerStep DEF PG!FloodOne, PG!options
<1>3. CASE PG!SetTimer \/ PG!Select \/ PG!SelectTimeout \/ PG!LoopTest \/ PG!Onint
  <2>1. /\ UNCHANGED <<pg_version, pg_npackets, pg_preload, pg_flood, pg_ntransmitted, pg_nreceived,
                       pg_nrepeats, pg_taken, pg_blurred, pg_rcvd_tbl, pg_byte, pg_packet, pg_arriving>>
        /\ pg_pc' = pg_pc \/ (pg_pc \in Idle /\ pg_pc' \in Idle)
        /\ pg_pc' \in {"flood", "select"} => pg_flood \/ pg_pc \in {"flood", "select"}
    BY <1>3 DEF PG!SetTimer, PG!Select, PG!SelectTimeout, PG!LoopTest, PG!Onint, PG!options,
       PG!counters, PG!main, Idle
  <2>2. pg_pc' \in {"flood", "select"} => pg_flood
    BY <2>1 DEF PingInv, FloodsOnlyAsked
  <2> QED
    BY <2>1, <2>2, QuietStep
<1>4. CASE PG!Recvfrom
  BY <1>4, ReadPacketStep DEF PG!Recvfrom, PG!options, PG!counters
<1>5. CASE PG!PrPack
  BY <1>5, PrPackStep
<1>6. CASE PG!TstSeq
  BY <1>0, <1>6, TstSeqFacts
<1>7. CASE PG!SetSeq
  BY <1>7, SetSeqStep
<1>8. CASE PG!Onalrm
  <2>1. CASE PG!SendsMore /\ PG!Pinger
    BY <1>0, <1>8, <2>1, PingerStep DEF PG!Onalrm, PG!SendsMore, PG!options, PG!main
  <2>2. CASE UNCHANGED <<pg_ntransmitted, PG!counters, pg_rcvd_tbl, pg_arriving>>
    BY <1>8, <2>2, QuietStep DEF PG!Onalrm, PG!options, PG!main, PG!counters, PingInv, FloodsOnlyAsked
  <2> QED
    BY <1>8, <2>1, <2>2 DEF PG!Onalrm
<1> QED
  BY <1>0, <1>1, <1>2, <1>3, <1>4, <1>5, <1>6, <1>7, <1>8 DEF PG!BsdMain

LEMMA PingStep == PingInv /\ [PG!Next]_pg_vars => PingInv'
<1> SUFFICES ASSUME PingInv, [PG!Next]_pg_vars PROVE PingInv'
  OBVIOUS
<1>1. CASE PG!ForeignPacket
  <2>1. PICK m \in PG!Foreign : pg_arriving' = pg_arriving \cup {m}
    BY <1>1 DEF PG!ForeignPacket
  <2>2. UNCHANGED <<pg_version, pg_npackets, pg_preload, pg_flood, pg_ntransmitted, pg_nreceived,
                    pg_nrepeats, pg_taken, pg_blurred, pg_rcvd_tbl, pg_byte, pg_packet, pg_pc>>
    BY <1>1 DEF PG!ForeignPacket, PG!options, PG!main, PG!counters
  <2>3. PingTypes' /\ FloodsOnlyAsked'
    BY <2>2 DEF PingInv, PingTypes, FloodsOnlyAsked
  <2>4. Ours' = Ours /\ PG!Foreign' = PG!Foreign
    BY <2>2 DEF Ours, PG!Foreign, PG!Echo
  <2>5. m \notin pg_taken
    BY OursAreNotForeign DEF PingInv, AnswersOnce
  <2>6. AnswersOnce'
    BY <2>1, <2>2, <2>4, <2>5 DEF PingInv, AnswersOnce
  <2>7. Table' = Table /\ PG!Received' = PG!Received
    BY <2>2 DEF Table, PG!Received
  <2> QED
    BY <2>2, <2>3, <2>6, <2>7, PingKept
<1>2. CASE UNCHANGED pg_vars
  BY <1>2, QuietStep DEF pg_vars, PingInv, FloodsOnlyAsked
<1> QED
  BY <1>1, <1>2, BsdStep, StevensStep DEF PG!Next

\* ping and bsdping count their own answers, whatever is lost, repeated or late and
\* however the handler interrupts main: answers and repeats add up, there are never
\* more answers than requests, also when icmp_seq wraps, and while nothing is older
\* than the table exactly the answered requests are counted (bsdping.c:93-97, 501-508).
THEOREM PingCountsOwn == SumSpec => []PG!PingCounts
<1>1. SumInit => PingInv
  BY PingInit DEF SumInit
<1>2. PingInv /\ [SumNext]_all => PingInv'
  <2> SUFFICES ASSUME PingInv, [SumNext]_all PROVE PingInv'
    OBVIOUS
  <2>1. [PG!Next]_pg_vars
    BY DEF SumNext, all, Rtt, Timed, Trace, Urgent, Beat, Pinging, Connecting
  <2> QED
    BY <2>1, PingStep
<1> QED
  BY <1>1, <1>2, PingMeans, PTL DEF SumSpec

-----------------------------------------------------------------------------
\* Every client that waits for what may not come gets its own answers: retransmission
\* timeouts double within their bounds (lib/rtt.c:114-121), a wait is ended by its own
\* alarm, traceroute prints a probe's own answer, ping counts its own answers and a
\* connect with a time limit returns what its caller may rely on; for every value of
\* the bounds.
THEOREM OwnAnswers == SumSpec => []AnswersAreOwn
<1>1. SumInit => IInv /\ BackoffInv
  BY InitInv, BackoffInit DEF SumInit
<1>2. IInv /\ BackoffInv /\ [SumNext]_all => IInv' /\ BackoffInv'
  <2> SUFFICES ASSUME IInv, BackoffInv, [SumNext]_all PROVE IInv' /\ BackoffInv'
    OBVIOUS
  <2>1. [Next]_vars
    BY DEF SumNext, all, Rtt, Timed, Trace, Urgent, Beat, Pinging, Connecting
  <2>2. TypeOK' /\ CallInv' /\ AnswersInStep' /\ NoStrayAlarm'
    BY <2>1, TypingStep, AnswerStep
  <2>3. BackoffInv'
    BY <2>1, BackoffStep
  <2> QED
    BY <2>2, <2>3 DEF IInv
<1>3. BackoffInv => BoundedBackoff
  BY DEF BackoffInv
<1> QED
  BY <1>1, <1>2, <1>3, TimedConnects, TracesTrueHops, WaitsForOwn, PingCountsOwn, PTL
     DEF SumSpec, AnswersAreOwn

===============================================================================
