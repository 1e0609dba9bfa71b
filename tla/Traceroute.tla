----------------------------- MODULE Traceroute ------------------------------
(* traceroute: traceroute/traceloop.c and the two readers of ICMP answers,     *)
(* recv_v4.c and recv_v6.c, which give up after three seconds.  The raw socket *)
(* sees every ICMP message of the host: answers to this probe, late ones to    *)
(* earlier probes, other programs'.                                            *)
EXTENDS Integers, Sequences

CONSTANTS MaxTtl,     \* max_ttl
          Nprobes,    \* nprobes
          MaxForeign  \* bound: ICMP messages for other programs

VARIABLES
  version,   \* pr: "v4" or "v6"
  dist,      \* hops to the destination
  ttl, probe, seq, done,
  pc,        \* "probe", then in recv: "alarm", "test", "call", "recvfrom",
             \* "cancel"; "print", "end"
  gotalarm,
  alarm,     \* is the alarm set
  ret,       \* what recv returns
  mistaken,  \* has recv_v6 returned for a message that is not its probe's
  transit,   \* probes whose answer has not been read: on its way, late or lost
  foreign,   \* messages for other programs so far
  misprinted \* the values of mistaken for the columns not true of their hop

vars == <<version, dist, ttl, probe, seq, done, pc, gotalarm, alarm, ret, mistaken,
          transit, foreign, misprinted>>
fixed == <<version, dist>>
loop  == <<ttl, probe, seq, done>>
net   == <<transit, foreign>>

Versions == {"v4", "v6"}
Timedout == -3
Intransit == -2
Reached  == -1
Unreach  == 1      \* the other codes of ICMP unreachable
Results  == {Timedout, Intransit, Reached, Unreach}

Init ==
  /\ version \in Versions /\ dist \in 1 .. MaxTtl + 1
  /\ ttl = 1 /\ probe = 0 /\ seq = 0 /\ done = 0
  /\ pc = "probe" /\ gotalarm = TRUE /\ alarm = FALSE
  /\ ret = Timedout /\ mistaken = FALSE
  /\ transit = {} /\ foreign = 0 /\ misprinted = {}

TtlOf(n) == 1 + (n - 1) \div Nprobes

-----------------------------------------------------------------------------
(* The network                                                               *)

\* What a router or the destination says of a probe.
Kinds(n) == {"unreach", IF TtlOf(n) < dist THEN "exceeded" ELSE "port"}

\* A message that recvfrom may return: the answer to a probe, in any order and
\* as late as it likes, or a foreign one.  Nothing else looks at the socket.
Messages ==
  (UNION {[n : {n}, kind : Kinds(n)] : n \in transit})
    \cup [n : IF foreign < MaxForeign THEN {0} ELSE {}, kind : {"exceeded", "port"}]

-----------------------------------------------------------------------------
(* traceloop and recv                                                        *)

Sendto ==
  /\ pc = "probe" /\ pc' = "alarm"
  /\ seq' = seq + 1 /\ transit' = transit \cup {seq'}
  /\ UNCHANGED <<fixed, ttl, probe, done, gotalarm, alarm, ret, mistaken, foreign,
                 misprinted>>

StartAlarm ==
  /\ pc = "alarm" /\ pc' = "test" /\ gotalarm' = FALSE /\ alarm' = TRUE
  /\ UNCHANGED <<fixed, loop, ret, mistaken, net, misprinted>>

TestAlarm ==
  /\ pc = "test"
  /\ IF gotalarm THEN pc' = "print" /\ ret' = Timedout
     ELSE pc' = "call" /\ UNCHANGED ret
  /\ UNCHANGED <<fixed, loop, gotalarm, alarm, mistaken, net, misprinted>>

\* recvfrom is entered: from here a signal interrupts it.
Call ==
  /\ pc = "call" /\ pc' = "recvfrom"
  /\ UNCHANGED <<fixed, loop, gotalarm, alarm, ret, mistaken, net, misprinted>>

\* The handler; recvfrom fails with EINTR, continue.
SigAlrmMutant ==
  /\ alarm /\ alarm' = FALSE
  /\ pc' = IF pc = "recvfrom" THEN "test" ELSE pc
  /\ UNCHANGED <<fixed, loop, gotalarm, ret, mistaken, net, misprinted>>
SigAlrm ==
  /\ alarm /\ alarm' = FALSE /\ gotalarm' = TRUE
  /\ pc' = IF pc = "recvfrom" THEN "test" ELSE pc
  /\ UNCHANGED <<fixed, loop, ret, mistaken, net, misprinted>>

\* The UDP header in the message: our source port, dport + seq.
MatchesMutant(m) == m.n # 0
Matches(m) == m.n = seq

Code(m) == CASE m.kind = "exceeded" -> Intransit
             [] m.kind = "port"     -> Reached
             [] m.kind = "unreach"  -> Unreach

\* In recv_v6 the break for time exceeded stands outside the if (line 53): it is
\* taken for every such message, with ret not set (whatever the stack holds).
Recvfrom ==
  /\ pc = "recvfrom"
  /\ \E m \in Messages :
       /\ transit' = transit \ {m.n}
       /\ foreign' = IF m.n = 0 THEN foreign + 1 ELSE foreign
       /\ \/ /\ Matches(m) /\ ret' = Code(m) /\ pc' = "cancel"
             /\ UNCHANGED mistaken
          \/ /\ ~Matches(m) /\ version = "v6" /\ m.kind = "exceeded"
             /\ ret' \in Results /\ pc' = "cancel" /\ mistaken' = TRUE
          \/ /\ ~Matches(m) /\ ~(version = "v6" /\ m.kind = "exceeded")
             /\ pc' = "test" /\ UNCHANGED <<ret, mistaken>>
  /\ UNCHANGED <<fixed, loop, gotalarm, alarm, misprinted>>

AlarmZero ==
  /\ pc = "cancel" /\ pc' = "print" /\ alarm' = FALSE
  /\ UNCHANGED <<fixed, loop, gotalarm, ret, mistaken, net, misprinted>>

\* Port unreachable comes from the destination, time exceeded from a hop before.
TrueOf(t) == /\ ret = Reached   => t >= dist
             /\ ret = Intransit => t < dist

\* One column is printed; the loops over probe and ttl go on.  done ends the
\* outer one only: all probes of the last hop are sent.
PrintColumn ==
  /\ pc = "print"
  /\ misprinted' = IF TrueOf(ttl) THEN misprinted ELSE misprinted \cup {mistaken}
  /\ ret' = Timedout /\ mistaken' = FALSE
  /\ done' = IF ret = Reached THEN done + 1 ELSE done
  /\ IF probe + 1 < Nprobes
     THEN probe' = probe + 1 /\ pc' = "probe" /\ UNCHANGED ttl
     ELSE /\ probe' = 0 /\ ttl' = ttl + 1
          /\ pc' = IF ttl' <= MaxTtl /\ done' = 0 THEN "probe" ELSE "end"
  /\ UNCHANGED <<fixed, seq, gotalarm, alarm, net>>

Program == Sendto \/ StartAlarm \/ TestAlarm \/ Call \/ AlarmZero \/ PrintColumn

Next == Program \/ Recvfrom \/ SigAlrm

-----------------------------------------------------------------------------
(* Properties                                                                *)

\* What is printed for a probe (traceloop.c:52-74) is true of its hop, however
\* late the answers to earlier probes come: "at destination" only at or past it,
\* time exceeded only before it, and the trace stops early only there.  recv_v6
\* (lines 49-53) breaks this when it reads any other time exceeded.
HopsAreTrue ==
  /\ FALSE \notin misprinted
  /\ pc = "end" /\ ttl <= MaxTtl /\ misprinted = {} => ttl > dist

\* Every probe is answered or timed out within its three seconds, unless SIGALRM
\* came after the test of gotalarm and before recvfrom (recv_v4.c:25-28): the
\* program then waits for some ICMP message without an alarm.
Overslept == pc \in {"call", "recvfrom"} /\ gotalarm
ProbeEnds == pc = "alarm" ~> pc = "print" \/ Overslept
==============================================================================
