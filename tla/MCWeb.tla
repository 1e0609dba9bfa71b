------------------------------- MODULE MCWeb --------------------------------
(* Clients that ask servers for a text, in one run: the two web clients       *)
(* (WebThreads, WebNonblock), the TCP daytime programs (Daytime), and the     *)
(* clients of servers with a thread per connection (ThreadServer); program    *)
(* says which of them works, the others stay in their initial states.         *)
EXTENDS Naturals, FiniteSets

CONSTANTS nfiles, maxnconn, Clients, Text, MaxAddresses, MaxKills, MaxChildren,
          MaxLoops, MaxRequests, Third, Pieces

ASSUME BoundsAssumption ==
  /\ nfiles \in Nat \ {0} /\ maxnconn \in Nat
  /\ IsFiniteSet(Clients) /\ Text \in Nat \ {0} /\ MaxAddresses \in Nat \ {0}
  /\ MaxKills \in Nat /\ {MaxChildren, MaxLoops, MaxRequests, Pieces} \subseteq Nat \ {0}
  /\ Third \in Nat

VARIABLES
  program,  \* the one that runs
  wt_version, wt_main, wt_i, wt_thread, wt_f_flags, wt_nconn, wt_nlefttoconn,
  wt_nlefttoread, wt_ndone, wt_mutex, wt_process,
  nb_pc, nb_i, nb_f_flags, nb_socket, nb_rset, nb_wset, nb_rs, nb_ws, nb_nconn,
  nb_nlefttoconn, nb_nlefttoread,
  dt_client, dt_server, dt_addresses, dt_cli, dt_tried, dt_printed, dt_peeked,
  dt_place, dt_served, dt_written, dt_queue, dt_inbox, dt_end, dt_gone,
  dt_kills,
  ts_version, ts_client, ts_nchildren, ts_nloops, ts_nbytes, ts_child,
  ts_loops, ts_resets, ts_made, ts_ofChild, ts_queue, ts_request, ts_reply,
  ts_peer, ts_main, ts_cell, ts_created, ts_thread, ts_connfd, ts_towrite,
  ts_closed, ts_server, ts_kills, ts_forgotten

WT ==
  INSTANCE WebThreads WITH version <- wt_version, main <- wt_main, i <- wt_i,
                           thread <- wt_thread, f_flags <- wt_f_flags,
                           nconn <- wt_nconn, nlefttoconn <- wt_nlefttoconn,
                           nlefttoread <- wt_nlefttoread, ndone <- wt_ndone,
                           mutex <- wt_mutex, process <- wt_process
NB ==
  INSTANCE WebNonblock WITH Nfiles <- nfiles, Maxnconn <- maxnconn,
                            pc <- nb_pc, i <- nb_i, f_flags <- nb_f_flags,
                            socket <- nb_socket, rset <- nb_rset,
                            wset <- nb_wset, rs <- nb_rs, ws <- nb_ws,
                            nconn <- nb_nconn, nlefttoconn <- nb_nlefttoconn,
                            nlefttoread <- nb_nlefttoread
DT ==
  INSTANCE Daytime WITH client <- dt_client, server <- dt_server,
                        addresses <- dt_addresses, cli <- dt_cli,
                        tried <- dt_tried, printed <- dt_printed,
                        peeked <- dt_peeked, place <- dt_place,
                        served <- dt_served, written <- dt_written,
                        queue <- dt_queue, inbox <- dt_inbox, end <- dt_end,
                        gone <- dt_gone, kills <- dt_kills
TS ==
  INSTANCE ThreadServer WITH version <- ts_version, client <- ts_client,
                             nchildren <- ts_nchildren, nloops <- ts_nloops,
                             nbytes <- ts_nbytes, child <- ts_child,
                             loops <- ts_loops, resets <- ts_resets,
                             made <- ts_made, ofChild <- ts_ofChild,
                             queue <- ts_queue, request <- ts_request,
                             reply <- ts_reply, peer <- ts_peer,
                             main <- ts_main, cell <- ts_cell,
                             created <- ts_created, thread <- ts_thread,
                             connfd <- ts_connfd, towrite <- ts_towrite,
                             closed <- ts_closed, server <- ts_server,
                             kills <- ts_kills, forgotten <- ts_forgotten

wt_vars == <<wt_version, wt_main, wt_i, wt_thread, wt_f_flags, wt_nconn,
             wt_nlefttoconn, wt_nlefttoread, wt_ndone, wt_mutex, wt_process>>
nb_vars == <<nb_pc, nb_i, nb_f_flags, nb_socket, nb_rset, nb_wset, nb_rs,
             nb_ws, nb_nconn, nb_nlefttoconn, nb_nlefttoread>>
dt_vars == <<dt_client, dt_server, dt_addresses, dt_cli, dt_tried, dt_printed,
             dt_peeked, dt_place, dt_served, dt_written, dt_queue, dt_inbox,
             dt_end, dt_gone, dt_kills>>
ts_vars == <<ts_version, ts_client, ts_nchildren, ts_nloops, ts_nbytes,
             ts_child, ts_loops, ts_resets, ts_made, ts_ofChild, ts_queue,
             ts_request, ts_reply, ts_peer, ts_main, ts_cell, ts_created,
             ts_thread, ts_connfd, ts_towrite, ts_closed, ts_server, ts_kills,
             ts_forgotten>>
all == <<wt_vars, nb_vars, dt_vars, ts_vars, program>>

\* One program runs; the others do not.
Threaded == program = "web0x" /\ UNCHANGED <<nb_vars, dt_vars, ts_vars, program>>
Nonblock == program = "web" /\ UNCHANGED <<wt_vars, dt_vars, ts_vars, program>>
Times == program = "daytime" /\ UNCHANGED <<wt_vars, nb_vars, ts_vars, program>>
Serving == program = "per_client" /\ UNCHANGED <<wt_vars, nb_vars, dt_vars,
                                                 program>>

Programs == {"web0x", "web", "daytime", "per_client"}

\* What does not run starts in one state.
SumInit ==
  /\ program \in Programs /\ WT!Init /\ NB!Init /\ DT!Init /\ TS!Init
  /\ program # "web0x" => wt_version = "web01"
  /\ program # "daytime" => dt_client = "daytimetcpcli" /\ dt_server = "names_daytimetcpsrv1" /\ dt_addresses = <<"accepts">>
  /\ program # "per_client" => ts_version = "serv06" /\ ts_client = "client" /\ ts_nbytes = "valid"
  /\ program # "per_client" => ts_nchildren = 1 /\ ts_nloops = 1

SumNext ==
  \/ Threaded /\ WT!Next
  \/ Nonblock /\ NB!Next
  \/ Times /\ DT!Next
  \/ Serving /\ TS!Next

\* The programs are scheduled and the mutex is granted to whoever keeps asking,
\* as in FairSpec; a connect ends, and the server finishes every page.
SumSpec ==
  /\ SumInit /\ [][SumNext]_all
  /\ WF_all(Threaded /\ WT!MainStep) /\ SF_all(Threaded /\ WT!MainLock)
  /\ WF_all(Nonblock /\ NB!Step)
  /\ \A f \in WT!Files :
       /\ WF_all(Threaded /\ WT!ThreadStep(f)) /\ SF_all(Threaded /\ WT!ThreadLock(f))
       /\ WF_all(Nonblock /\ NB!Answer(f)) /\ SF_all(Nonblock /\ NB!Finish(f))
  /\ WF_all(Times /\ DT!ServerStep)
  /\ \A x \in Clients : WF_all(Times /\ DT!ClientStep(x))
  /\ WF_all(Serving /\ (TS!Accept \/ TS!Create))
  /\ \A k \in TS!Conns : WF_all(Serving /\ k <= ts_created /\ TS!Thread(k))
  /\ \A c \in 1 .. MaxChildren : WF_all(Serving /\ c \in TS!Children /\ TS!Child(c))

-----------------------------------------------------------------------------
(* Properties                                                                *)

\* web0x.c, web.c:33-43, 70-74: counters, flags, threads and descriptor sets agree.
\* Each descriptor of serv06.c and tcpserv0x.c has one thread (ThreadServer).
CountersAgree == WT!Consistent /\ NB!CountersAgree /\ TS!ThreadsServe

\* web0x.c ends or is stuck in a named way; web.c's loop ends, with every file or
\* with an error.  Every daytime client ends, and every client of serv06.c and
\* tcpserv0x.c, also when the server's process does.
DownloadsEnd ==
  <>( /\ program = "web0x" => WT!ReadOrStuck
      /\ program = "web" => NB!EndsWithEveryFile
      /\ program = "daytime" => DT!ClientsEnded
      /\ program = "per_client" => TS!AllEnded )

\* The daytime programs: see Daytime.
DaytimeTold == DT!DaytimeTold
==============================================================================
