------------------------------- MODULE MCEcho -------------------------------
(* Echo clients and servers in one run: str_cli over TCP (StrCli), the SCTP   *)
(* programs (SctpEcho), the UDP programs (UdpEcho) and the server for UDP and *)
(* TCP (UdpTcpServer); program says which of them run.                        *)
EXTENDS StrCli, FiniteSets

CONSTANTS Clients, Streams, MoreStreams, ClientStreams, EchoStreams, IncrSize,
          Threshold, Parts, MaxMessages, MaxLosses, UdpLines, MaxFaults

ASSUME BoundsAssumption ==
  /\ UdpLines \in Nat \ {0} /\ MaxFaults \in Nat /\ IsFiniteSet(Clients)
  /\ {Streams, MoreStreams, ClientStreams, EchoStreams, IncrSize, Threshold, Parts}
       \subseteq Nat \ {0}

\* The host of the UDP servers.
Interfaces == <<"lo", "eth0", "eth0:1">>
Late       == "late" 

VARIABLES
  program,  \* the one that runs
  se_version, se_increment, se_kind, se_host, se_spc, se_cause, se_buf,
  se_size, se_alloc, se_cliaddr, se_stream, se_snotes, se_assoc, se_peeled,
  se_up, se_down, se_notes, se_cpc, se_line, se_i, se_got, se_lost, se_split,
  se_glued,
  ue_client, ue_server, ue_servaddr, ue_at, ue_sent, ue_printed, ue_toServer,
  ue_toClient, ue_peeked, ue_bound, ue_told, ue_count, ue_lost, ue_strange,
  ue_cause,
  ut_restarts, ut_client, ut_queue, ut_dgrams, ut_sent, ut_damaged, ut_pc,
  ut_rset, ut_connfd, ut_mesg, ut_errno, ut_holds, ut_child, ut_sigchld,
  ut_handler, ut_answered

SE ==
  INSTANCE SctpEcho WITH version <- se_version, increment <- se_increment,
                         kind <- se_kind, host <- se_host, spc <- se_spc,
                         cause <- se_cause, buf <- se_buf, size <- se_size,
                         alloc <- se_alloc, cliaddr <- se_cliaddr,
                         stream <- se_stream, snotes <- se_snotes,
                         assoc <- se_assoc, peeled <- se_peeled, up <- se_up,
                         down <- se_down, notes <- se_notes, cpc <- se_cpc,
                         line <- se_line, i <- se_i, got <- se_got,
                         lost <- se_lost, split <- se_split, glued <- se_glued
UE ==
  INSTANCE UdpEcho WITH Lines <- UdpLines, client <- ue_client,
                        server <- ue_server, servaddr <- ue_servaddr,
                        at <- ue_at, sent <- ue_sent, printed <- ue_printed,
                        toServer <- ue_toServer, toClient <- ue_toClient,
                        peeked <- ue_peeked, bound <- ue_bound,
                        told <- ue_told, count <- ue_count, lost <- ue_lost,
                        strange <- ue_strange, cause <- ue_cause
UT ==
  INSTANCE UdpTcpServer WITH Conns <- Clients, MaxDgrams <- UdpLines,
                             restarts <- ut_restarts, client <- ut_client,
                             queue <- ut_queue, dgrams <- ut_dgrams,
                             sent <- ut_sent, damaged <- ut_damaged,
                             pc <- ut_pc, rset <- ut_rset, connfd <- ut_connfd,
                             mesg <- ut_mesg, errno <- ut_errno,
                             holds <- ut_holds, child <- ut_child,
                             sigchld <- ut_sigchld, handler <- ut_handler,
                             answered <- ut_answered

se_vars == <<se_version, se_increment, se_kind, se_host, se_spc, se_cause,
             se_buf, se_size, se_alloc, se_cliaddr, se_stream, se_snotes,
             se_assoc, se_peeled, se_up, se_down, se_notes, se_cpc, se_line,
             se_i, se_got, se_lost, se_split, se_glued>>
ue_vars == <<ue_client, ue_server, ue_servaddr, ue_at, ue_sent, ue_printed,
             ue_toServer, ue_toClient, ue_peeked, ue_bound, ue_told, ue_count,
             ue_lost, ue_strange, ue_cause>>
ut_vars == <<ut_restarts, ut_client, ut_queue, ut_dgrams, ut_sent, ut_damaged,
             ut_pc, ut_rset, ut_connfd, ut_mesg, ut_errno, ut_holds, ut_child,
             ut_sigchld, ut_handler, ut_answered>>
all == <<vars, se_vars, ue_vars, ut_vars, program>>

\* One program runs; the others do not.
Copying == program = "str_cli" /\ UNCHANGED <<se_vars, ue_vars, ut_vars,
                                              program>>
Sctp == program = "sctp" /\ UNCHANGED <<vars, ue_vars, ut_vars, program>>
Datagrams == program = "udp" /\ UNCHANGED <<vars, se_vars, ut_vars, program>>
Both == program = "both" /\ UNCHANGED <<vars, se_vars, ue_vars, program>>

Programs == {"str_cli", "sctp", "udp", "both"}

\* What does not run starts in one state.
SumInit ==
  /\ program \in Programs /\ Init /\ SE!Init /\ UE!Init /\ UT!Init
  /\ program # "str_cli" => version = "str_cli"
  /\ program # "sctp" => se_version = "serv01" /\ ~se_increment /\ se_kind = "cli" /\ se_host = "whole"
  /\ program # "udp" => ue_client = "udpcli01" /\ ue_server = "none" /\ ue_servaddr = Interfaces[1]
  /\ program # "both" => ut_restarts

SumNext ==
  \/ Copying /\ Next
  \/ Sctp /\ SE!Next
  \/ Datagrams /\ UE!Next
  \/ Both /\ UT!Next

\* The fairness of the modules' own FairSpec.
SumSpec ==
  /\ SumInit /\ [][SumNext]_all
  /\ WF_all(Copying /\ Server) /\ WF_all(Copying /\ Copy) /\ WF_all(Copying /\ Back)
  /\ WF_all(Copying /\ Show)
  /\ WF_all(Sctp /\ SE!Server)
  /\ WF_all(Datagrams /\ UE!ClientStep) /\ WF_all(Datagrams /\ UE!ServerStep)
  /\ WF_all(Datagrams /\ UE!Unreachable)
  /\ \A x \in Clients : WF_all(Sctp /\ SE!Waits(x)) /\ WF_all(Sctp /\ SE!ChildEcho(x))
  /\ WF_all(Both /\ UT!ServerStep) /\ WF_all(Both /\ UT!HandlerStep)
  /\ \A x \in Clients : WF_all(Both /\ UT!StrEchoAndExit(x))

-----------------------------------------------------------------------------
(* Properties                                                                *)

\* sctpserv*.c and the clients: see SctpEcho.
RepliesMatch == SE!SctpEchoes
Answered     == SE!SctpAnswers

\* The UDP clients and servers (UdpEcho), and udpservselect01.c (UdpTcpServer):
\* what is answered, and what may stop the service.
DatagramsMatch == UE!UdpAnswers /\ UT!StopsOnlyFor
EndsOrWaits ==
  /\ program = "udp" => UE!EndsOrWaits
  /\ program = "both" => UT!BothServed
==============================================================================
