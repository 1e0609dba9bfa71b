------------------------------ MODULE MCEvents ------------------------------
(* Programs that wait for what may not come, in one run: clients with SIGALRM *)
(* (RttSendRecv, RecvTimeout, ConnectTimeout, Traceroute, Ping) and programs  *)
(* with SIGURG (OutOfBand, Heartbeat); program says which of them runs.       *)
EXTENDS RttSendRecv

CONSTANTS MaxLines, MaxAnswers, MaxTtl, Nprobes, MaxForeign, MaxProbes,
          MaxInFlight, Packets, MX_DUP_CK, MaxRepeats, MaxStrange

ASSUME PingAssumption ==
  /\ Packets \in Nat /\ MX_DUP_CK \in Nat \ {0}
  /\ MaxRepeats \in Nat /\ MaxStrange \in Nat

ASSUME BeatAssumption == MaxProbes \in Nat /\ MaxInFlight \in Nat

ASSUME TraceAssumption ==
  MaxTtl \in Nat /\ Nprobes \in Nat \ {0} /\ MaxForeign \in Nat

ASSUME WaitAssumption == MaxLines \in Nat /\ MaxAnswers \in Nat

VARIABLES
  program,  \* the one that runs
  rt_version, rt_pc, rt_line, rt_result, rt_sock, rt_owed, rt_alarm,
  rt_pending, rt_blocked, rt_jmpbuf, rt_pipe, rt_ended, rt_timeouts, rt_copies,
  rt_astray,
  tr_version, tr_dist, tr_ttl, tr_probe, tr_seq, tr_done, tr_pc, tr_gotalarm,
  tr_alarm, tr_ret, tr_mistaken, tr_transit, tr_foreign, tr_misprinted,
  ob_version, ob_script, ob_writes, ob_arrived, ob_mark, ob_oob, ob_pulled,
  ob_pos, ob_pending, ob_merged, ob_missed, ob_pc, ob_handler, ob_ready,
  ob_justreadoob, ob_oobpos, ob_got, ob_errno,
  hb_nprobes, hb_register, hb_stack, hb_timer, hb_sigalrm, hb_sigurg, hb_oob,
  hb_inflight, hb_input, hb_cut, hb_ended, hb_silent, hb_lost, hb_merged,
  pg_version, pg_npackets, pg_preload, pg_flood, pg_verbose, pg_pc,
  pg_ntransmitted, pg_nreceived, pg_nrepeats, pg_rcvd_tbl, pg_byte, pg_packet,
  pg_timer, pg_ended, pg_arriving, pg_taken, pg_repeats, pg_strange, pg_blurred,
  ct_version, ct_pc, ct_handler, ct_alarm, ct_sock, ct_flags, ct_tcp, ct_n,
  ct_errno, ct_late

RT ==
  INSTANCE RecvTimeout WITH version <- rt_version, pc <- rt_pc,
                            line <- rt_line, result <- rt_result,
                            sock <- rt_sock, owed <- rt_owed,
                            alarm <- rt_alarm, pending <- rt_pending,
                            blocked <- rt_blocked, jmpbuf <- rt_jmpbuf,
                            pipe <- rt_pipe, ended <- rt_ended,
                            timeouts <- rt_timeouts, copies <- rt_copies,
                            astray <- rt_astray
TR ==
  INSTANCE Traceroute WITH version <- tr_version, dist <- tr_dist,
                           ttl <- tr_ttl, probe <- tr_probe, seq <- tr_seq,
                           done <- tr_done, pc <- tr_pc,
                           gotalarm <- tr_gotalarm, alarm <- tr_alarm,
                           ret <- tr_ret, mistaken <- tr_mistaken,
                           transit <- tr_transit, foreign <- tr_foreign,
                           misprinted <- tr_misprinted
OB ==
  INSTANCE OutOfBand WITH version <- ob_version, script <- ob_script,
                          writes <- ob_writes, arrived <- ob_arrived,
                          mark <- ob_mark, oob <- ob_oob, pulled <- ob_pulled,
                          pos <- ob_pos, pending <- ob_pending,
                          merged <- ob_merged, missed <- ob_missed,
                          pc <- ob_pc, handler <- ob_handler,
                          ready <- ob_ready, justreadoob <- ob_justreadoob,
                          oobpos <- ob_oobpos, got <- ob_got, errno <- ob_errno
HB ==
  INSTANCE Heartbeat WITH nprobes <- hb_nprobes, register <- hb_register,
                          stack <- hb_stack, timer <- hb_timer,
                          sigalrm <- hb_sigalrm, sigurg <- hb_sigurg,
                          oob <- hb_oob, inflight <- hb_inflight,
                          input <- hb_input, cut <- hb_cut, ended <- hb_ended,
                          silent <- hb_silent, lost <- hb_lost,
                          merged <- hb_merged
PG ==
  INSTANCE Ping WITH version <- pg_version, npackets <- pg_npackets,
                     preload <- pg_preload, flood <- pg_flood,
                     verbose <- pg_verbose, pc <- pg_pc,
                     ntransmitted <- pg_ntransmitted,
                     nreceived <- pg_nreceived, nrepeats <- pg_nrepeats,
                     rcvd_tbl <- pg_rcvd_tbl, byte <- pg_byte,
                     packet <- pg_packet, timer <- pg_timer, ended <- pg_ended,
                     arriving <- pg_arriving, taken <- pg_taken,
                     repeats <- pg_repeats, strange <- pg_strange,
                     blurred <- pg_blurred
CT ==
  INSTANCE ConnectTimeout WITH version <- ct_version, pc <- ct_pc,
                               handler <- ct_handler, alarm <- ct_alarm,
                               sock <- ct_sock, flags <- ct_flags,
                               tcp <- ct_tcp, n <- ct_n, errno <- ct_errno,
                               late <- ct_late

rt_vars == <<rt_version, rt_pc, rt_line, rt_result, rt_sock, rt_owed, rt_alarm,
             rt_pending, rt_blocked, rt_jmpbuf, rt_pipe, rt_ended, rt_timeouts,
             rt_copies, rt_astray>>
tr_vars == <<tr_version, tr_dist, tr_ttl, tr_probe, tr_seq, tr_done, tr_pc,
             tr_gotalarm, tr_alarm, tr_ret, tr_mistaken, tr_transit,
             tr_foreign, tr_misprinted>>
ob_vars == <<ob_version, ob_script, ob_writes, ob_arrived, ob_mark, ob_oob,
             ob_pulled, ob_pos, ob_pending, ob_merged, ob_missed, ob_pc,
             ob_handler, ob_ready, ob_justreadoob, ob_oobpos, ob_got, ob_errno>>
hb_vars == <<hb_nprobes, hb_register, hb_stack, hb_timer, hb_sigalrm,
             hb_sigurg, hb_oob, hb_inflight, hb_input, hb_cut, hb_ended,
             hb_silent, hb_lost, hb_merged>>
pg_vars == <<pg_version, pg_npackets, pg_preload, pg_flood, pg_verbose, pg_pc,
             pg_ntransmitted, pg_nreceived, pg_nrepeats, pg_rcvd_tbl, pg_byte,
             pg_packet, pg_timer, pg_ended, pg_arriving, pg_taken, pg_repeats,
             pg_strange, pg_blurred>>
ct_vars == <<ct_version, ct_pc, ct_handler, ct_alarm, ct_sock, ct_flags,
             ct_tcp, ct_n, ct_errno, ct_late>>
all == <<vars, rt_vars, tr_vars, ob_vars, hb_vars, pg_vars, ct_vars, program>>

\* One program runs; the others do not.
Rtt == program = "rtt" /\ UNCHANGED <<rt_vars, tr_vars, ob_vars, hb_vars,
                                      pg_vars, ct_vars, program>>
Timed == program = "timeout" /\ UNCHANGED <<vars, tr_vars, ob_vars, hb_vars,
                                            pg_vars, ct_vars, program>>
Trace == program = "traceroute" /\ UNCHANGED <<vars, rt_vars, ob_vars, hb_vars,
                                               pg_vars, ct_vars, program>>
Urgent == program = "oob" /\ UNCHANGED <<vars, rt_vars, tr_vars, hb_vars,
                                         pg_vars, ct_vars, program>>
Beat == program = "heartbeat" /\ UNCHANGED <<vars, rt_vars, tr_vars, ob_vars,
                                             pg_vars, ct_vars, program>>
Pinging == program = "ping" /\ UNCHANGED <<vars, rt_vars, tr_vars, ob_vars,
                                           hb_vars, ct_vars, program>>
Connecting == program = "connect" /\ UNCHANGED <<vars, rt_vars, tr_vars,
                                                 ob_vars, hb_vars, pg_vars,
                                                 program>>

Programs == {"rtt", "timeout", "traceroute", "oob", "heartbeat", "ping",
             "connect"}

\* What does not run starts in one state.
SumInit ==
  /\ program \in Programs /\ Init /\ RT!Init /\ TR!Init /\ OB!Init /\ HB!Init /\ PG!Init /\ CT!Init
  /\ program # "rtt" => rto = RTT_RXTMIN
  /\ program # "timeout" => rt_version = "bcast1"
  /\ program # "traceroute" => tr_version = "v4" /\ tr_dist = 1
  /\ program # "connect" => ct_version = "nonb" /\ ct_alarm = "off"
  /\ program # "ping" => pg_version = "v4" /\ pg_verbose = FALSE
  /\ program # "oob" => ob_version = "tcprecv01" /\ ob_script = OB!Tcpsend01

SumNext ==
  \/ Rtt /\ Next
  \/ Timed /\ RT!Next
  \/ Trace /\ TR!Next
  \/ Urgent /\ OB!Next
  \/ Beat /\ HB!Next
  \/ Pinging /\ PG!Next
  \/ Connecting /\ CT!Next

\* The programs are scheduled and their timers go off.  No network and no
\* user owes an answer.
SumSpec ==
  /\ SumInit /\ [][SumNext]_all
  /\ WF_all(Rtt /\ Client) /\ WF_all(Rtt /\ SigAlrm)
  /\ WF_all(Timed /\ RT!Step) /\ WF_all(Timed /\ RT!SigAlrm)
  /\ WF_all(Trace /\ TR!Program) /\ WF_all(Trace /\ TR!SigAlrm)
  /\ \A p \in HB!Sides : WF_all(Beat /\ HB!Step(p))
  /\ WF_all(Pinging /\ PG!Timer) /\ WF_all(Pinging /\ PG!Main)
  /\ WF_all(Connecting /\ (CT!Timeo \/ CT!Nonb)) /\ WF_all(Connecting /\ CT!SigAlrm)

-----------------------------------------------------------------------------
(* Properties                                                                *)

\* lib/rtt.c:114-121: timeouts double within bounds (RttSendRecv); a wait of
\* dgclibcast*.c and dgclitimeo*.c is ended by its own alarm, and answers are out
\* of step only after a timeout (RecvTimeout); traceroute prints a probe's own
\* answer (Traceroute); ping counts its own answers (Ping);
\* a connect with a time limit returns what its caller may rely on (ConnectTimeout).
AnswersAreOwn ==
  /\ BoundedBackoff /\ RT!OwnAlarmEndsWait /\ RT!OutOfStepOnlyAfterTimeout
  /\ TR!HopsAreTrue /\ PG!PingCounts /\ CT!TimedConnect

\* tcprecv*.c read what urgent data TCP keeps (OutOfBand), and the heartbeat ends
\* a connection only when the other side has been silent (Heartbeat).
UrgentDataMeans ==
  OB!LastUrgentByteRead /\ OB!SecondRecvOnlyAtMark /\ HB!GivesUpForAReason

\* dg_send_recv returns, a wait, a connect with a limit and a probe of traceroute end,
\* a cut of the network is noticed; but for the races these four name.  ping ends,
\* or goes on sending.
WaitsEnd ==
  /\ Returns /\ RT!WaitEnds /\ TR!ProbeEnds /\ HB!CutIsNoticed
  /\ program = "ping" => PG!PingEnds
  /\ program = "connect" => CT!ConnectEnds
==============================================================================
