------------------------------ MODULE SockOpen -------------------------------
(* sock: how the tool gets its data socket.  cliopen and servopen make it in   *)
(* stages, buffers and sockopts(doall) set what the command line asks for, and *)
(* a concurrent server (-F) lets each child tell it by SIGUSR2 (tellwait.c)    *)
(* when it is done with the terminal.                                          *)
EXTENDS Naturals, FiniteSets

CONSTANTS MaxAsked,  \* bound: options given on one command line
          MaxConns   \* bound: connections to a server

VARIABLES
  cfg,       \* the command line and the host; never changes
  pc,        \* where main is, "ready" with its data socket, "exit"
  cause,     \* of the exit
  fd,        \* options in effect on the socket main works on
  sroute,    \* sroute_cnt # 0
  interrupted,  \* has a connect returned EINTR
  queue, conns, \* connections to accept; connections so far
  child,     \* of connection i: "none", "start", "ready", "gone"
  childfd,   \* options in effect on its socket
  sigflag, blocked, pending   \* SIGUSR2 at the parent

vars == <<cfg, pc, cause, fd, sroute, interrupted, queue, conns, child, childfd,
          sigflag, blocked, pending>>
tell == <<child, childfd, sigflag, blocked, pending>>
net  == <<queue, conns>>

\* Options that sockopts treats alike have one name: "debug" is -D and -Y, "tos"
\* -H and -J, "bcast" -B and -t, "keepalive" -K, -N and -L, "timeo" -x and -y.
Options == {"reuse", "rcvbuf", "debug", "tos", "maxseg", "sroute", "bcast", "join",
            "keepalive", "timeo", "recvdst", "sigio"}
Children == 1 .. MaxConns

\* "dofork" is -F, "unconnected" -o, "foreign" -f.  Of the host: its byte
\* order, whether accepted sockets inherit options, and whether the first and the
\* last octet of the server's address are 224 to 239.
Flags == {"server", "udp", "dofork", "unconnected", "foreign", "bigendian",
          "propagates", "first", "last"}
Is(f)    == f \in cfg.flags
Asked(o) == o \in cfg.asked
Wanted(S) == S \cap cfg.asked

Init ==
  /\ cfg \in [flags : SUBSET Flags,
              asked : {S \in SUBSET Options : Cardinality(S) <= MaxAsked}]
  /\ Is("dofork") => Is("server") /\ ~Is("udp")
  /\ Is("unconnected") => Is("udp") /\ ~Is("server")
  /\ Is("foreign") => Is("udp") /\ Is("server")
  /\ Is("propagates") => Is("server") /\ ~Is("udp")
  /\ Is("first") \/ Is("last") \/ Is("bigendian") => Is("server")
  /\ pc = "bind" /\ cause = "none" /\ fd = {}
  /\ sroute = Asked("sroute") /\ interrupted = FALSE
  /\ queue = 0 /\ conns = 0
  /\ child = [i \in Children |-> "none"] /\ childfd = [i \in Children |-> {}]
  /\ sigflag = FALSE /\ blocked = FALSE /\ pending = FALSE

Quit(why) == pc' = "exit" /\ cause' = why

-----------------------------------------------------------------------------
(* Making the socket                                                         *)

\* socket, SO_REUSEADDR, bind.
Bind ==
  /\ pc = "bind" /\ pc' = (IF Is("server") THEN "join" ELSE "buffers")
  /\ fd' = Wanted({"reuse"})
  /\ UNCHANGED <<cfg, cause, sroute, interrupted, net, tell>>

InMulticastMutant == Is("last")

\* IN_MULTICAST wants an address in host order and gets one in network order.
InMulticast == IF Is("bigendian") THEN Is("first") ELSE Is("last")

JoinMcast ==
  /\ pc = "join"
  /\ IF InMulticast /\ ~Is("first")
     THEN Quit("not_multicast") /\ UNCHANGED fd
     ELSE /\ pc' = "buffers" /\ UNCHANGED cause
          /\ fd' = fd \cup (IF InMulticast THEN {"join"} ELSE {})
  /\ UNCHANGED <<cfg, sroute, interrupted, net, tell>>

Buffers ==
  /\ pc = "buffers"
  /\ pc' = CASE ~(Is("server") /\ Is("udp")) -> "sockopts0"
             [] Is("foreign")              -> "connect"
             [] OTHER                    -> "sockopts1"
  /\ fd' = fd \cup Wanted({"rcvbuf"})
  /\ UNCHANGED <<cfg, cause, sroute, interrupted, net, tell>>

\* What sockopts(., doall) sets, in its order; each option is read back.
DebugAndRoute       == Wanted({"debug"})
TypeOfService(doall) == IF doall THEN {} ELSE Wanted({"tos"})
SegmentSizeMutant   == {}
SegmentSize         == IF Is("udp") THEN {} ELSE Wanted({"maxseg"})
SourceRoute         == IF sroute THEN {"sroute"} ELSE {}
BroadcastAndGroup   == Wanted({"bcast", "join"})
AfterConnect(doall) ==
  IF doall /\ ~Is("udp") THEN Wanted({"keepalive"}) ELSE {}
Timeouts(doall)     == IF doall THEN Wanted({"timeo"}) ELSE {}
Notification        == Wanted({"sigio"} \cup IF Is("udp") THEN {"recvdst"} ELSE {})
SetWhen(doall) ==
  DebugAndRoute \cup TypeOfService(doall) \cup SegmentSize \cup SourceRoute
    \cup BroadcastAndGroup \cup AfterConnect(doall) \cup Timeouts(doall)
    \cup Notification

\* A group that the socket belongs to cannot be joined again.
Sockopts(doall, next) ==
  /\ IF Asked("join") /\ "join" \in fd
     THEN Quit("joined_twice") /\ UNCHANGED <<fd, sroute>>
     ELSE /\ pc' = next /\ UNCHANGED cause
          /\ fd' = fd \cup SetWhen(doall) /\ sroute' = FALSE
  /\ UNCHANGED <<cfg, interrupted, net, tell>>

Sockopts0 ==
  pc = "sockopts0" /\ Sockopts(FALSE, IF Is("server") THEN "listen"
                                      ELSE IF Is("unconnected") THEN "sockopts1" ELSE "connect")
Sockopts1 == pc = "sockopts1" /\ Sockopts(TRUE, "ready")

-----------------------------------------------------------------------------
(* Connecting                                                                *)

\* Connected, or an interrupted connect is done when it is asked for again.
Connect ==
  /\ pc = "connect" /\ pc' = "sockopts1"
  /\ UNCHANGED <<cfg, cause, fd, sroute, interrupted, net, tell>>

\* SIGIO ends the call; the connection goes on by itself.
ConnectEINTR ==
  /\ pc = "connect" /\ ~Is("server") /\ ~Is("udp") /\ "sigio" \in fd /\ ~interrupted
  /\ interrupted' = TRUE
  /\ UNCHANGED <<cfg, pc, cause, fd, sroute, net, tell>>

ConnectEALREADY ==
  /\ pc = "connect" /\ interrupted /\ Quit("already")
  /\ UNCHANGED <<cfg, fd, sroute, interrupted, net, tell>>

\* Any of the calls may be refused; accept also where the connection has been
\* reset, or SIGIO comes.
KernelRefuses ==
  /\ pc \in {"bind", "join", "buffers", "sockopts0", "sockopts1", "connect", "accept", "newfd"}
  /\ Quit("kernel")
  /\ UNCHANGED <<cfg, fd, sroute, interrupted, net, tell>>

-----------------------------------------------------------------------------
(* The TCP server                                                            *)

TellWaitMutant == blocked' = FALSE
TellWait == blocked' = Is("dofork")

\* listen, and TELL_WAIT for a concurrent server.
Listen ==
  /\ pc = "listen" /\ pc' = "accept" /\ TellWait
  /\ UNCHANGED <<cfg, cause, fd, sroute, interrupted, net, child, childfd, sigflag,
                 pending>>

Arrive ==
  /\ Is("server") /\ ~Is("udp") /\ conns < MaxConns
  /\ pc \in {"accept", "test", "call", "suspend", "clear"}
  /\ queue' = queue + 1 /\ conns' = conns + 1
  /\ UNCHANGED <<cfg, pc, cause, fd, sroute, interrupted, tell>>

\* A connected socket has the listening one's options where the host hands
\* them on, the groups it never has.
Inherited == IF Is("propagates") THEN fd \ {"join"} ELSE {}
Accepted(i) == child[i] = "none" /\ \A j \in 1 .. i - 1 : child[j] # "none"

Accept ==
  /\ pc = "accept" /\ queue > 0 /\ queue' = queue - 1
  /\ IF Is("dofork")
     THEN /\ pc' = "test" /\ UNCHANGED fd
          /\ \E i \in Children : /\ Accepted(i) /\ child' = [child EXCEPT ![i] = "start"]
                                 /\ childfd' = [childfd EXCEPT ![i] = Inherited]
     ELSE pc' = "newfd" /\ fd' = Inherited /\ UNCHANGED <<child, childfd>>
  /\ UNCHANGED <<cfg, cause, sroute, interrupted, conns, sigflag, blocked, pending>>

\* "fork error": what accept has returned is lost, and the server ends.
ForkFails ==
  /\ pc = "accept" /\ Is("dofork") /\ queue > 0 /\ queue' = queue - 1
  /\ Quit("kernel")
  /\ UNCHANGED <<cfg, fd, sroute, interrupted, conns, tell>>

SetUpMutant(s) == s \cup SetWhen(TRUE)

\* buffers(newfd), sockopts(newfd, 1).
SetUp(s) == s \cup Wanted({"rcvbuf"}) \cup SetWhen(TRUE)

\* The iterative server returns with its first connection.
NewSocket ==
  /\ pc = "newfd" /\ pc' = "ready" /\ fd' = SetUp(fd)
  /\ UNCHANGED <<cfg, cause, sroute, interrupted, net, tell>>

-----------------------------------------------------------------------------
(* tellwait.c                                                                *)

\* The child sets its socket up and calls TELL_PARENT.
ChildReady(i) ==
  /\ child[i] = "start" /\ child' = [child EXCEPT ![i] = "ready"]
  /\ childfd' = [childfd EXCEPT ![i] = SetUp(@)]
  /\ pending' = (pc # "exit")
  /\ UNCHANGED <<cfg, pc, cause, fd, sroute, interrupted, net, sigflag, blocked>>

\* One of its calls fails.
ChildFails(i) ==
  /\ child[i] = "start" /\ child' = [child EXCEPT ![i] = "gone"]
  /\ UNCHANGED <<cfg, pc, cause, fd, sroute, interrupted, net, childfd, sigflag, blocked,
                 pending>>

\* WAIT_CHILD
TestFlag ==
  /\ pc = "test" /\ pc' = (IF sigflag THEN "clear" ELSE "call")
  /\ UNCHANGED <<cfg, cause, fd, sroute, interrupted, net, tell>>
Sigsuspend ==
  /\ pc = "call" /\ pc' = "suspend"
  /\ UNCHANGED <<cfg, cause, fd, sroute, interrupted, net, tell>>

SigUsrMutant ==
  /\ pending /\ ~blocked
  /\ pending' = FALSE /\ sigflag' = TRUE
  /\ pc' = (IF pc = "suspend" THEN "test" ELSE pc)
  /\ UNCHANGED <<cfg, cause, fd, sroute, interrupted, net, child, childfd, blocked>>

\* sig_usr runs where the signal is not blocked; in sigsuspend none is.
SigUsr ==
  /\ pending /\ (pc = "suspend" \/ ~blocked)
  /\ pending' = FALSE /\ sigflag' = TRUE
  /\ pc' = (IF pc = "suspend" THEN "test" ELSE pc)
  /\ UNCHANGED <<cfg, cause, fd, sroute, interrupted, net, child, childfd, blocked>>

\* sigflag = 0 and sigprocmask(SIG_SETMASK, &oldmask): no child is left that
\* could signal in between.
ClearFlag ==
  /\ pc = "clear" /\ pc' = "accept" /\ sigflag' = FALSE /\ blocked' = FALSE
  /\ UNCHANGED <<cfg, cause, fd, sroute, interrupted, net, child, childfd, pending>>

-----------------------------------------------------------------------------
Parent ==
  \/ Bind \/ JoinMcast \/ Buffers \/ Sockopts0 \/ Sockopts1 \/ Connect \/ Listen
  \/ Accept \/ NewSocket \/ TestFlag \/ Sigsuspend \/ SigUsr \/ ClearFlag
Child(i) == ChildReady(i) \/ ChildFails(i)
Next ==
  \/ Parent \/ ConnectEINTR \/ ConnectEALREADY \/ KernelRefuses \/ ForkFails \/ Arrive
  \/ \E i \in Children : Child(i)

Spec == Init /\ [][Next]_vars
FairSpec == Spec /\ WF_vars(Parent) /\ \A i \in Children : WF_vars(Child(i))

-----------------------------------------------------------------------------
(* Properties                                                                *)

\* buffers and sockopts come "before connect(), since they can affect TCP
\* options" (cliopen.c), "to get correct window advertised on SYN" (servopen.c).
BeforeSyn ==
  ~Is("udp") /\ pc \in {"connect", "listen"} =>
    Wanted({"reuse", "rcvbuf", "maxseg", "sroute"}) \subseteq fd

\* What the command line asks for is in effect on the data socket where it has
\* a meaning, with these exceptions: type of service and TTL are set only while
\* doall is 0, which it never is for a UDP server; what a TCP server sets on
\* its listening socket alone depends on the host.
Meaningful == cfg.asked \ (IF Is("udp") THEN {"maxseg", "keepalive"} ELSE {"recvdst"})
Lost ==
  CASE Is("server") /\ Is("udp")         -> {"tos"}
    [] Is("server") /\ ~Is("propagates") -> {"tos", "sroute", "reuse"}
    [] OTHER                         -> {}
InEffect(s) == Meaningful \ Lost \subseteq s
OptionsInEffect ==
  /\ pc = "ready" => InEffect(fd)
  /\ \A i \in Children : child[i] = "ready" => InEffect(childfd[i])

\* The tool gives up by its own doing in three cases only: sockopts joins a
\* group of -j in both calls for a client, or after join_mcast; the octets of
\* the server's address are looked at in the wrong order; a connect that SIGIO
\* interrupted is tried again too soon.
GivesUpOnlyFor ==
  /\ cause = "joined_twice" => Asked("join") /\ (Is("server") => InMulticast)
  /\ cause = "not_multicast" => ~Is("bigendian")
  /\ cause = "already" => Asked("sigio") /\ ~Is("server")

\* WAIT_CHILD: the parent sleeps while a child is going to tell it.  The first
\* wait is safe.  Its sigprocmask leaves SIGUSR2 unblocked, and a later child
\* may signal after the test and before sigsuspend; and a child that fails
\* first never signals.
ToTell == pending \/ \E i \in Children : child[i] = "start"
SleepsInVain == pc = "suspend" /\ ~ToTell
TellLost ==
  /\ SleepsInVain
  /\ \/ sigflag /\ Cardinality({i \in Children : child[i] = "ready"}) > 1
     \/ \E i \in Children : child[i] = "gone"

SetupSound ==
  BeforeSyn /\ OptionsInEffect /\ GivesUpOnlyFor /\ (SleepsInVain => TellLost)

\* servopen.c:103-117: but for these the server accepts whoever connects, unless
\* accept or fork fails: err_sys ends the server in its loop, for all who wait.
ConcurrentServerAccepts ==
  Is("dofork") /\ queue > 0 ~> queue = 0 \/ TellLost \/ cause = "kernel"
==============================================================================
