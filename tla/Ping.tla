--------------------------------- MODULE Ping ---------------------------------
(* ping/: the book's ping (main.c, readloop.c, sig_alrm.c and the functions    *)
(* for IPv4 and IPv6), and bsdping.c with its counters, its table of sequence  *)
(* numbers and its options -c, -l and -f.  SIGALRM's handler sends; main       *)
(* receives and counts.                                                        *)
EXTENDS Naturals, FiniteSets

CONSTANTS Packets,    \* bound: requests sent
          MX_DUP_CK,  \* sequence numbers: 65536 in the code, where icmp_seq has 16 bits too
          MaxRepeats, \* bound: answers that come twice
          MaxStrange  \* bound: packets that are no answer to this process

VARIABLES
  version,       \* "v4" or "v6" of ping, "bsdping"
  npackets,      \* -c, 0 without
  preload,       \* -l: sent before SIGALRM is caught
  flood,         \* -f
  verbose,       \* -v of ping, which the filter of init_v6 depends on
  pc,            \* main: "start", "flood", "select", "recv", "packet", "test", "set", "loop"
  ntransmitted, nreceived, nrepeats,
  rcvd_tbl,      \* the numbers whose bit is set
  byte,          \* what main read of rcvd_tbl before it sets a bit
  packet,        \* the one in pr_pack, proc_v4 or proc_v6
  timer,         \* "off", "interval", "onint": the last one
  ended,         \* "no", "exit", "killed", "failed"
  arriving,      \* packets that the raw socket will have: the request, the copy
  taken,         \* answers counted, or printed by ping
  repeats, strange,
  blurred        \* an old answer, or a lost CLR: what was counted may be wrong

options  == <<version, npackets, preload, flood, verbose>>
counters == <<nreceived, nrepeats, taken, blurred>>
main     == <<pc, byte, packet>>
vars == <<options, main, ntransmitted, counters, rcvd_tbl, timer, ended, arriving,
          repeats, strange>>

Echo(n, copy) == [n |-> n, copy |-> copy]
Foreign       == {Echo(0, 0), Echo(0, 1)}   \* another's echo reply, another type
OtherType     == Echo(0, 1)
Seq(n)        == (n - 1) % MX_DUP_CK        \* icmp_seq of the nth request

Init ==
  /\ \/ /\ version \in {"v4", "v6"} /\ npackets = 0 /\ preload = 0 /\ flood = FALSE
        /\ verbose \in BOOLEAN
     \/ /\ version = "bsdping" /\ npackets \in {0, 2} /\ preload \in {0, 3}
        /\ flood \in BOOLEAN /\ verbose = FALSE
  /\ pc = "start" /\ byte = {} /\ packet = OtherType
  /\ ntransmitted = 0 /\ nreceived = 0 /\ nrepeats = 0 /\ taken = {} /\ blurred = FALSE
  /\ rcvd_tbl = {} /\ timer = "off" /\ ended = "no" /\ arriving = {}
  /\ repeats = 0 /\ strange = 0

Running == ended = "no"

\* The request goes out, and is answered, not answered, or answered twice.
Transmit ==
  /\ ntransmitted < Packets
  /\ ntransmitted' = ntransmitted + 1
  /\ \E k \in 0 .. 2 :
       /\ repeats' = repeats + (IF k = 2 THEN 1 ELSE 0) /\ repeats' <= MaxRepeats
       /\ arriving' = arriving \union {Echo(ntransmitted', c) : c \in 1 .. k}
  /\ UNCHANGED strange

\* CLR; main may be about to write the byte back.
ClrMutant(n) == UNCHANGED rcvd_tbl
Clr(n) == rcvd_tbl' = rcvd_tbl \ {Seq(n)}

Pinger ==
  /\ Transmit
  /\ Clr(ntransmitted')
  /\ blurred' = (blurred \/ (pc = "set" /\ Seq(ntransmitted') \in byte \union {Seq(packet.n)}))
  /\ UNCHANGED <<nreceived, nrepeats, taken>>

-----------------------------------------------------------------------------
(* bsdping.c                                                                 *)

PreloadOne ==
  /\ pc = "start" /\ ntransmitted < preload
  /\ Pinger
  /\ UNCHANGED <<options, main, timer, ended>>

SetTimer ==
  /\ pc = "start" /\ ntransmitted = preload
  /\ IF flood THEN pc' = "flood" /\ UNCHANGED timer ELSE pc' = "recv" /\ timer' = "interval"
  /\ UNCHANGED <<options, byte, packet, ntransmitted, counters, rcvd_tbl, ended,
                 arriving, repeats, strange>>

FloodOne ==
  /\ pc = "flood"
  /\ Pinger /\ pc' = "select"
  /\ UNCHANGED <<options, byte, packet, timer, ended>>

\* Of packets that come together the loop reads one for each that it sends.
Select ==
  /\ pc = "select"
  /\ pc' = IF arriving # {} THEN "recv" ELSE "flood"
  /\ UNCHANGED <<options, byte, packet, ntransmitted, counters, rcvd_tbl, timer,
                 ended, arriving, repeats, strange>>

SelectTimeout ==
  /\ pc = "select" /\ pc' = "flood"
  /\ UNCHANGED <<options, byte, packet, ntransmitted, counters, rcvd_tbl, timer,
                 ended, arriving, repeats, strange>>

Recvfrom ==
  /\ pc = "recv" /\ pc' = "packet"
  /\ \E m \in arriving : packet' = m /\ arriving' = arriving \ {m}
  /\ UNCHANGED <<options, byte, ntransmitted, counters, rcvd_tbl, timer, ended,
                 repeats, strange>>

PrPack ==
  /\ pc = "packet"
  /\ IF packet \in Foreign THEN pc' = "loop" /\ UNCHANGED nreceived
                         ELSE pc' = "test" /\ nreceived' = nreceived + 1
  /\ UNCHANGED <<options, byte, packet, ntransmitted, nrepeats, taken, blurred,
                 rcvd_tbl, timer, ended, arriving, repeats, strange>>

\* ++nrepeats and --nreceived, or the first half of SET.
TstSeq ==
  /\ pc = "test"
  /\ IF Seq(packet.n) \in rcvd_tbl
     THEN /\ nrepeats' = nrepeats + 1 /\ nreceived' = nreceived - 1
          /\ pc' = "loop" /\ UNCHANGED byte
     ELSE byte' = rcvd_tbl /\ pc' = "set" /\ UNCHANGED <<nreceived, nrepeats>>
  /\ taken' = taken \union {packet}
  /\ blurred' = (blurred \/ packet.n + MX_DUP_CK <= ntransmitted)
  /\ UNCHANGED <<options, packet, ntransmitted, rcvd_tbl, timer, ended, arriving,
                 repeats, strange>>

SetSeq ==
  /\ pc = "set" /\ pc' = "loop"
  /\ rcvd_tbl' = byte \union {Seq(packet.n)}
  /\ UNCHANGED <<options, byte, packet, ntransmitted, counters, timer, ended,
                 arriving, repeats, strange>>

LoopTest ==
  /\ pc = "loop"
  /\ IF npackets > 0 /\ nreceived >= npackets
     THEN ended' = "exit" /\ UNCHANGED pc
     ELSE pc' = (IF flood THEN "flood" ELSE "recv") /\ UNCHANGED ended
  /\ UNCHANGED <<options, byte, packet, ntransmitted, counters, rcvd_tbl, timer,
                 arriving, repeats, strange>>

\* onalrm: another request, or the wait for the last answers.
SendsMore == npackets = 0 \/ ntransmitted < npackets
LastTimerMutant == "off"
LastTimer == "onint"

Onalrm ==
  /\ timer = "interval"
  /\ IF SendsMore THEN Pinger /\ UNCHANGED timer
     ELSE timer' = LastTimer
          /\ UNCHANGED <<ntransmitted, counters, rcvd_tbl, arriving, repeats, strange>>
  /\ UNCHANGED <<options, main, ended>>

\* onint: by the last timer, or by the user.
Onint ==
  /\ timer = "onint" \/ pc # "start"
  /\ ended' = "killed"
  /\ UNCHANGED <<options, main, ntransmitted, counters, rcvd_tbl, timer, arriving,
                 repeats, strange>>

BsdMain == PreloadOne \/ SetTimer \/ FloodOne \/ Select \/ SelectTimeout \/ Recvfrom
           \/ PrPack \/ TstSeq \/ SetSeq \/ LoopTest
BsdPing == version = "bsdping" /\ Running /\ (BsdMain \/ Onalrm \/ Onint)

-----------------------------------------------------------------------------
(* ping                                                                      *)

\* sig_alrm, called by readloop for the first request: Sendto ends the program if
\* it fails, else alarm(1).
SigAlrm ==
  /\ timer = "interval" \/ pc = "start"
  /\ \/ Transmit /\ timer' = "interval" /\ UNCHANGED ended
     \/ ended' = "failed" /\ UNCHANGED <<timer, ntransmitted, arriving, repeats, strange>>
  /\ pc' = IF pc = "start" THEN "recv" ELSE pc
  /\ UNCHANGED <<options, byte, packet, counters, rcvd_tbl>>

\* init_v6 lets only echo replies through, unless verbose.
Passes(m) == m # OtherType \/ version = "v4" \/ verbose

Recvmsg ==
  /\ pc = "recv" /\ pc' = "packet"
  /\ \E m \in arriving : Passes(m) /\ packet' = m /\ arriving' = arriving \ {m}
  /\ UNCHANGED <<options, byte, ntransmitted, counters, rcvd_tbl, timer, ended,
                 repeats, strange>>

\* Prints what comes, twice if it comes twice.
IsOurs == packet \notin Foreign

Proc ==
  /\ pc = "packet" /\ pc' = "recv"
  /\ taken' = IF IsOurs THEN taken \union {packet} ELSE taken
  /\ UNCHANGED <<options, byte, packet, ntransmitted, nreceived, nrepeats, blurred,
                 rcvd_tbl, timer, ended, arriving, repeats, strange>>
ProcV4 == version = "v4" /\ Proc
ProcV6 == version = "v6" /\ Proc

Readloop == Recvmsg \/ ProcV4 \/ ProcV6
Stevens  == version # "bsdping" /\ Running /\ (SigAlrm \/ Readloop)

-----------------------------------------------------------------------------

\* Every raw socket gets a copy of every ICMP packet.
ForeignPacket ==
  /\ Running /\ strange < MaxStrange
  /\ \E m \in Foreign \ arriving : arriving' = arriving \union {m}
  /\ strange' = strange + 1
  /\ UNCHANGED <<options, main, ntransmitted, counters, rcvd_tbl, timer, ended, repeats>>

Next == BsdPing \/ Stevens \/ ForeignPacket

Spec == Init /\ [][Next]_vars

Timer == Running /\ IF version = "bsdping"
                    THEN Onalrm \/ (timer = "onint" /\ Onint)
                    ELSE SigAlrm
Main  == Running /\ version = "bsdping" /\ BsdMain

\* The timer expires and main is scheduled; nothing is assumed of answers.
FairSpec == Spec /\ WF_vars(Timer) /\ WF_vars(Main)

-----------------------------------------------------------------------------
(* Properties                                                                *)

TypeOK ==
  /\ pc \in {"start", "flood", "select", "recv", "packet", "test", "set", "loop"}
  /\ ntransmitted \in 0 .. Packets /\ rcvd_tbl \subseteq 0 .. MX_DUP_CK - 1
  /\ {nreceived, nrepeats} \subseteq Nat

Answered == {m.n : m \in taken}
Received == IF pc = "test" THEN nreceived - 1 ELSE nreceived    \* within pr_pack

\* What summary prints (oninfo may come at any moment; between bsdping.c:484 and
\* 503 it counts the answer in hand, which Received leaves out): answers and repeats
\* add up, no more answers than requests, also when the numbers wrap; and exactly
\* the requests answered, while no answer is older than the table and the handler
\* has not cleared a bit that main was about to write (bsdping.c:93-97, 419, 501-508).
CountsAnswers ==
  version = "bsdping" =>
    /\ Received + nrepeats = Cardinality(taken)
    /\ Received <= ntransmitted
    /\ ~blurred => Received = Cardinality(Answered)

\* proc_v4.c:22 and proc_v6.c: only answers to this process are printed.
PrintsOwn == taken \intersect Foreign = {}

\* -c says how many requests are sent, except with -f, and with -l of more
\* (bsdping.c:129 'max packets to transmit').
SendsNoMore ==
  version = "bsdping" /\ npackets > 0 /\ ~flood =>
    ntransmitted <= npackets \/ ntransmitted <= preload

PingCounts == TypeOK /\ CountsAnswers /\ PrintsOwn /\ SendsNoMore

\* With -c ping ends even if no answer comes, but not with -f; without -c, and
\* ping, go on sending.
PingEnds ==
  /\ (version = "bsdping" /\ npackets > 0 /\ ~flood) => <>~Running
  /\ version # "bsdping" \/ (npackets = 0 /\ ~flood) => <>(~Running \/ ntransmitted = Packets)
=============================================================================
