------------------------------ MODULE Heartbeat ------------------------------
(* Heartbeats over out-of-band data: oob/heartbeatcli.c under the echo client  *)
(* strcliselect02.c, and heartbeatserv.c under the server's strecho02.c.  Each *)
(* side's two signal handlers share nprobes with each other and run on top of  *)
(* one another.  TCP is external, with one urgent pointer per direction.       *)
EXTENDS Integers, Sequences

CONSTANTS MaxProbes,   \* maxnprobes of the client, maxnalarms of the server
          MaxInFlight  \* bound: urgent pointers under way in one direction

VARIABLES
  nprobes,   \* of each side
  register,  \* the value loaded by ++nprobes
  stack,     \* of each side: its handlers, the running one last, with their places
  timer,     \* is the alarm set
  sigalrm,   \* is SIGALRM pending
  sigurg,    \* is SIGURG pending
  oob,       \* byte at the mark: "none", "coming", "here", "taken"
  inflight,  \* urgent pointers sent to each side that have not arrived
  input,     \* the client's standard input: "open", "eof"
  cut,       \* is the network gone
  ended,     \* why each side has ended, or "no"
  silent,    \* alarms counted since sig_urg last returned
  lost,      \* was the last reset of nprobes overwritten
  merged     \* did an urgent pointer come while a SIGURG was unfinished

vars == <<nprobes, register, stack, timer, sigalrm, sigurg, oob, inflight, input,
          cut, ended, silent, lost, merged>>
counts  == <<nprobes, register>>
signals == <<timer, sigalrm, sigurg>>
history == <<silent, lost, merged>>

Sides    == {"cli", "serv"}
Other(p) == IF p = "cli" THEN "serv" ELSE "cli"
Running(p) == ended[p] = "no"
Set(f, p, v) == f' = [f EXCEPT ![p] = v]

\* heartbeat_cli and heartbeat_serv: handlers set, the first alarm set.
Init ==
  /\ nprobes = [p \in Sides |-> 0] /\ register = [p \in Sides |-> 0]
  /\ stack = [p \in Sides |-> <<>>]
  /\ timer = [p \in Sides |-> TRUE]
  /\ sigalrm = [p \in Sides |-> FALSE] /\ sigurg = [p \in Sides |-> FALSE]
  /\ oob = [p \in Sides |-> "none"] /\ inflight = [p \in Sides |-> 0]
  /\ input = "open" /\ cut = FALSE /\ ended = [p \in Sides |-> "no"]
  /\ silent = [p \in Sides |-> 0] /\ lost = [p \in Sides |-> FALSE]
  /\ merged = [p \in Sides |-> FALSE]

Handlers(p) == {stack[p][i][1] : i \in 1 .. Len(stack[p])}
Top(p)      == stack[p][Len(stack[p])]
In(p, h, place) == Running(p) /\ stack[p] # <<>> /\ Top(p) = <<h, place>>
Place(p, h, place) ==
  Set(stack, p, [stack[p] EXCEPT ![Len(stack[p])] = <<h, place>>])
Return(p) == Set(stack, p, SubSeq(stack[p], 1, Len(stack[p]) - 1))
Exit(p, why) == Set(ended, p, why) /\ UNCHANGED stack

\* Send(servfd, &c, 1, MSG_OOB)
SendOob(p) ==
  inflight' = [inflight EXCEPT ![Other(p)] = IF @ < MaxInFlight THEN @ + 1 ELSE @]

-----------------------------------------------------------------------------
(* Signals and TCP                                                           *)

\* A handler starts, sig_alrm by loading nprobes; only its own signal is blocked
\* while it runs.
Enter(p) ==
  /\ Running(p)
  /\ \/ /\ sigalrm[p] /\ "sig_alrm" \notin Handlers(p) /\ Set(sigalrm, p, FALSE)
        /\ Set(stack, p, Append(stack[p], <<"sig_alrm", "store">>))
        /\ Set(register, p, nprobes[p] + 1)
        /\ UNCHANGED sigurg
     \/ /\ sigurg[p] /\ "sig_urg" \notin Handlers(p) /\ Set(sigurg, p, FALSE)
        /\ Set(stack, p, Append(stack[p], <<"sig_urg", "recv">>))
        /\ UNCHANGED <<sigalrm, register>>
  /\ UNCHANGED <<nprobes, timer, oob, inflight, input, cut, ended, history>>

AlarmGoesOff(p) ==
  /\ Running(p) /\ timer[p] /\ Set(timer, p, FALSE) /\ Set(sigalrm, p, TRUE)
  /\ UNCHANGED <<counts, stack, sigurg, oob, inflight, input, cut, ended, history>>

\* An urgent pointer, with its byte or ahead of it.
UrgentArrives(p) ==
  /\ ~cut /\ Running(p) /\ inflight[p] > 0
  /\ \E n \in 0 .. inflight[p] - 1 : Set(inflight, p, n)
  /\ \E b \in {"here", "coming"} : Set(oob, p, b)
  /\ Set(sigurg, p, TRUE)
  /\ Set(merged, p, merged[p] \/ sigurg[p] \/ "sig_urg" \in Handlers(p))
  /\ UNCHANGED <<counts, stack, timer, sigalrm, input, cut, ended, silent, lost>>

ByteArrives(p) ==
  /\ ~cut /\ oob[p] = "coming" /\ Set(oob, p, "here")
  /\ UNCHANGED <<counts, stack, signals, inflight, input, cut, ended, history>>

Cut == /\ ~cut /\ cut' = TRUE
       /\ UNCHANGED <<counts, stack, signals, oob, inflight, input, ended, history>>

-----------------------------------------------------------------------------
(* sig_urg                                                                   *)

\* recv(MSG_OOB); EWOULDBLOCK is let pass, EINVAL is not.
Recv(p) ==
  /\ In(p, "sig_urg", "recv")
  /\ IF oob[p] \in {"here", "coming"}
     THEN /\ Place(p, "sig_urg", "reset")
          /\ oob' = [oob EXCEPT ![p] = IF @ = "here" THEN "taken" ELSE @]
          /\ UNCHANGED ended
     ELSE Exit(p, "recv_error") /\ UNCHANGED oob
  /\ UNCHANGED <<counts, signals, inflight, input, cut, history>>

\* The server sends c back, also when recv has not set it.
Echo(p) == IF p = "serv" THEN SendOob(p) ELSE UNCHANGED inflight

\* nprobes = 0, perhaps inside the ++nprobes of an interrupted sig_alrm.
ResetMutant(p) == UNCHANGED nprobes
Reset(p)       == Set(nprobes, p, 0)
EchoAndReset(p) ==
  /\ In(p, "sig_urg", "reset") /\ Return(p) /\ Echo(p) /\ Reset(p)
  /\ Set(silent, p, 0)
  /\ Set(lost, p, \E i \in 1 .. Len(stack[p]) : stack[p][i] = <<"sig_alrm", "store">>)
  /\ UNCHANGED <<register, signals, oob, input, cut, ended, merged>>

-----------------------------------------------------------------------------
(* sig_alrm                                                                  *)

\* alarm(nsec), and the client's probe.
NextAlarmMutant(p) == UNCHANGED timer
NextAlarm(p)       == Set(timer, p, TRUE)
Probe(p)           == IF p = "cli" THEN SendOob(p) ELSE UNCHANGED inflight

\* ++nprobes > maxnprobes
Unanswered(p) == register[p] > MaxProbes

CountAndProbe(p) ==
  /\ In(p, "sig_alrm", "store")
  /\ Set(nprobes, p, register[p]) /\ Set(register, p, 0)
  /\ Set(silent, p, IF silent[p] > MaxProbes THEN silent[p] ELSE silent[p] + 1)
  /\ IF Unanswered(p)
     THEN Exit(p, "unreachable") /\ UNCHANGED <<inflight, timer>>
     ELSE Return(p) /\ Probe(p) /\ NextAlarm(p) /\ UNCHANGED ended
  /\ UNCHANGED <<sigalrm, sigurg, oob, input, cut, lost, merged>>

-----------------------------------------------------------------------------
(* str_cli and str_echo                                                      *)

\* End of file on standard input: alarm(0) turns the heartbeat off, the FIN
\* goes out.
InputEnds ==
  /\ Running("cli") /\ stack["cli"] = <<>> /\ input = "open" /\ input' = "eof"
  /\ ~sigalrm["cli"] /\ ~sigurg["cli"] /\ Set(timer, "cli", FALSE)
  /\ UNCHANGED <<counts, stack, sigalrm, sigurg, oob, inflight, cut, ended, history>>

\* Readline returns 0: the other side has closed its end.
PeerClosed(p) ==
  /\ Running(p) /\ stack[p] = <<>> /\ ~cut
  /\ ~Running(Other(p)) \/ (p = "serv" /\ input = "eof")
  /\ Exit(p, "closed")
  /\ UNCHANGED <<counts, signals, oob, inflight, input, cut, history>>

Handler(p) ==
  Enter(p) \/ Recv(p) \/ EchoAndReset(p) \/ CountAndProbe(p)
Step(p) == Handler(p) \/ AlarmGoesOff(p)

Next ==
  \/ \E p \in Sides : Step(p) \/ UrgentArrives(p) \/ ByteArrives(p) \/ PeerClosed(p)
  \/ Cut \/ InputEnds

-----------------------------------------------------------------------------
(* Properties                                                                *)

\* A side gives up (heartbeatcli.c:43, heartbeatserv.c:44) only after more than
\* MaxProbes alarms in a row without a byte from the other, unless ++nprobes
\* overwrote the reset of a sig_urg in its middle; and recv fails only when one
\* urgent pointer came before the previous one's SIGURG was through
\* (heartbeatcli.c:32): then a byte is there once for two signals.
GivesUpForAReason ==
  \A p \in Sides :
    /\ ended[p] = "unreachable" => silent[p] > MaxProbes \/ lost[p]
    /\ ended[p] = "recv_error" => merged[p]

\* When the network is gone both sides notice (heartbeatcli.c:43), but for a
\* client whose input has ended: alarm(0) of strcliselect02.c:39 leaves it
\* waiting for the server's FIN.
BothNotice ==
  /\ ~Running("serv")
  /\ ~Running("cli") \/ input = "eof"
CutIsNoticed == cut ~> BothNotice
==============================================================================
