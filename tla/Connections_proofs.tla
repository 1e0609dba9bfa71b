------------------------ MODULE Connections_proofs ------------------------
(* Servers with a process or a thread per connection, and clients with many of *)
(* them.  ForkServer: what the SIGCHLD handlers promise.  MCWeb: the counters  *)
(* of the web clients, the daytime programs, and the servers with a thread per *)
(* connection, for any numbers of files, clients, children and connections.    *)
EXTENDS ForkServer, MCWeb, FiniteSetTheorems, WellFoundedInduction,
        SequenceTheorems, TLAPS

\* A parent that has ended has no handler, no signal and no zombies to wait for.
EndedInv == ~Alive => handler = "out" /\ pending = {} /\ Zombies = {}

IInv == TypeOK /\ EndedInv /\ ZombiesAnnounced /\ WaitFindsZombie

\* At the start nobody has ended.
LEMMA InitInv == Init => IInv
<1> SUFFICES ASSUME Init PROVE IInv
  OBVIOUS
<1>1. Zombies = {} /\ Cardinality({}) = 0
  BY FS_EmptySet DEF Init, Zombies
<1>2. TypeOK
  BY DEF Init, TypeOK, Parent
<1> QED
  BY <1>1, <1>2 DEF IInv, Init, EndedInv, ZombiesAnnounced, WaitFindsZombie

-----------------------------------------------------------------------------
(* Types                                                                     *)

\* The descriptors that a process's end leaves are descriptors.
LEMMA CloseAllType ==
  ASSUME TypeOK, NEW p \in Pids \union {Parent}, CloseAllOf(p)
  PROVE  /\ holders' \in [Conns -> SUBSET (Pids \union {Parent})]
         /\ listeners' \subseteq Pids \union {Parent}
         /\ queue' \in Seq(Conns)
<1>1. holders' \in [Conns -> SUBSET (Pids \union {Parent})]
  BY DEF CloseAllOf, TypeOK
<1>2. listeners' \subseteq Pids \union {Parent}
  BY DEF CloseAllOf, TypeOK
<1>3. queue' \in Seq(Conns)
  BY DEF CloseAllOf, TypeOK
<1> QED
  BY <1>1, <1>2, <1>3

\* So is what the end of the parent leaves.
LEMMA TypingEnd ==
  ASSUME TypeOK, NEW how \in {"failed", "exited"}, EndParent(how), UNCHANGED cause
  PROVE  TypeOK'
<1>1. /\ holders' \in [Conns -> SUBSET (Pids \union {Parent})]
      /\ listeners' \subseteq Pids \union {Parent}
      /\ queue' \in Seq(Conns)
  BY CloseAllType DEF EndParent
<1>2. child' \in [Pids -> {"none", "forked", "serving", "zombie", "reaped"}]
  BY DEF EndParent, TypeOK
<1> QED
  BY <1>1, <1>2 DEF EndParent, TypeOK, fixed

\* Whatever the program, its own process takes one of these steps.
LEMMA ParentSteps ==
  ParentStep => \/ Accept \/ AcceptAborted \/ AcceptInterrupted \/ TestErrno \/ ErrSys
                \/ NoTest \/ Fork \/ ForkFails \/ Close \/ CloseFails
BY DEF ParentStep, Accepts, Forks, Tcpserv01, Tcpserv02, Tcpserv03, Tcpserv04, Serv01,
       Paradigm1, Tcpsrv01, Tcpsrv02, Tcpsrv04, Unixstrserv01, Unix_str_srv01

\* Accept, the tests of its value, Fork and Close keep every variable's type.
LEMMA TypingParent == TypeOK /\ ParentStep => TypeOK'
<1> SUFFICES ASSUME TypeOK, ParentStep PROVE TypeOK'
  OBVIOUS
<1> USE DEF fixed, children, signals, Main, Parent
<1>1. CASE Accept
  <2>1. Head(queue) \in Conns /\ Tail(queue) \in Seq(Conns)
    BY <1>1 DEF Accept, TypeOK
  <2> QED
    BY <1>1, <2>1 DEF Accept, TypeOK
<1>2. CASE AcceptAborted
  <2>1. Tail(queue) \in Seq(Conns)
    BY <1>2 DEF AcceptAborted, TypeOK
  <2> QED
    BY <1>2, <2>1 DEF AcceptAborted, TypeOK
<1>3. CASE AcceptInterrupted
  BY <1>3 DEF AcceptInterrupted, TypeOK, sockets
<1>4. CASE TestErrno \/ NoTest
  BY <1>4 DEF TestErrno, NoTest, TypeOK, sockets
<1>5. CASE ErrSys \/ ForkFails \/ CloseFails
  BY <1>5, TypingEnd DEF ErrSys, ForkFails, CloseFails
<1>6. CASE Fork
  <2> PICK p \in Pids :
        /\ child' = [child EXCEPT ![p] = "forked"]
        /\ served' = [served EXCEPT ![p] = connfd]
        /\ listeners' = listeners \union {p}
        /\ holders' = [c \in Conns |-> holders[c] \union
                                         (IF 0 \in holders[c] THEN {p} ELSE {})]
    BY <1>6 DEF Fork
  <2>1. /\ child' \in [Pids -> {"none", "forked", "serving", "zombie", "reaped"}]
        /\ served' \in [Pids -> Conns \union {0}]
    BY DEF TypeOK
  <2>2. holders' \in [Conns -> SUBSET (Pids \union {0})]
    BY DEF TypeOK
  <2>3. listeners' \subseteq Pids \union {0}
    BY DEF TypeOK
  <2> QED
    BY <1>6, <2>1, <2>2, <2>3 DEF Fork, TypeOK
<1>7. CASE Close
  <2>1. holders' \in [Conns -> SUBSET (Pids \union {0})]
    BY <1>7 DEF Close, CloseConnfd, TypeOK
  <2> QED
    BY <1>7, <2>1 DEF Close, TypeOK
<1> QED
  BY <1>1, <1>2, <1>3, <1>4, <1>5, <1>6, <1>7, ParentSteps

\* Every step keeps every variable's type.
LEMMA TypingStep == TypeOK /\ [Next]_vars => TypeOK'
<1> SUFFICES ASSUME TypeOK, [Next]_vars PROVE TypeOK'
  OBVIOUS
<1> USE DEF fixed, sockets, parent, children, signals
<1>1. CASE ParentStep
  BY <1>1, TypingParent
<1>2. CASE SigInt
  BY <1>2, TypingEnd DEF SigInt
<1>3. CASE Deliver
  BY <1>3 DEF Deliver, TypeOK
<1>4. ASSUME NEW p \in Pids, SigChldReaps(p) PROVE TypeOK'
  <2>1. handler' \in {"out", "reap"}
    BY <1>4 DEF SigChldReaps
  <2> QED
    BY <1>4, <2>1 DEF SigChldReaps, TypeOK
<1>5. CASE SigChldFindsNone
  <2>1. errno' \in {"none", "EINTR", "ECONNABORTED", "ECHILD"}
    BY <1>5 DEF SigChldFindsNone, TypeOK
  <2> QED
    BY <1>5, <2>1 DEF SigChldFindsNone, TypeOK
<1>6. ASSUME NEW c \in Conns, Connect(c) PROVE TypeOK'
  <2>1. queue' \in Seq(Conns)
    BY <1>6 DEF Connect, TypeOK
  <2> QED
    BY <1>6, <2>1 DEF Connect, TypeOK
<1>7. ASSUME NEW c \in Conns, Disconnect(c) PROVE TypeOK'
  BY <1>7 DEF Disconnect, TypeOK
<1>8. ASSUME NEW p \in Pids, CloseListenfd(p) PROVE TypeOK'
  <2>1. queue' \in Seq(Conns)
    BY <1>8 DEF CloseListenfd, TypeOK
  <2> QED
    BY <1>8, <2>1 DEF CloseListenfd, TypeOK
<1>9. ASSUME NEW p \in Pids, StrEchoAndExit(p) PROVE TypeOK'
  <2>1. /\ holders' \in [Conns -> SUBSET (Pids \union {Parent})]
        /\ listeners' \subseteq Pids \union {Parent}
        /\ queue' \in Seq(Conns)
    BY <1>9, CloseAllType DEF StrEchoAndExit
  <2>2. child' \in [Pids -> {"none", "forked", "serving", "zombie", "reaped"}]
    BY <1>9 DEF StrEchoAndExit, TypeOK
  <2>3. pending' \subseteq {"SIGCHLD"}
    BY <1>9 DEF StrEchoAndExit, TypeOK
  <2> QED
    BY <1>9, <2>1, <2>2, <2>3 DEF StrEchoAndExit, TypeOK
<1>10. CASE UNCHANGED vars
  BY <1>10 DEF vars, TypeOK
<1> QED
  BY <1>1, <1>2, <1>3, <1>4, <1>5, <1>6, <1>7, <1>8, <1>9, <1>10
  DEF Next, HandlerStep

-----------------------------------------------------------------------------
(* Zombies and signals                                                       *)

\* The steps that leave children and signals alone.
Quiet ==
  /\ UNCHANGED <<handler, pending, version>>
  /\ Zombies' = Zombies
  /\ ~Alive' => ~Alive

LEMMA QuietSteps ==
  ASSUME TypeOK, Accept \/ AcceptAborted \/ AcceptInterrupted \/ TestErrno \/ NoTest
                 \/ Fork \/ Close \/ UNCHANGED vars
                 \/ (\E c \in Conns : Connect(c) \/ Disconnect(c))
                 \/ (\E p \in Pids : CloseListenfd(p))
  PROVE  Quiet
<1> USE DEF Quiet, fixed, children, signals, parent, Zombies, Alive, Main
<1>1. CASE Accept \/ AcceptAborted \/ AcceptInterrupted
  BY <1>1 DEF Accept, AcceptAborted, AcceptInterrupted
<1>2. CASE TestErrno \/ NoTest \/ Close
  BY <1>2 DEF TestErrno, NoTest, Close
<1>3. CASE Fork
  <2>1. /\ pc' = "close" /\ UNCHANGED <<handler, pending, version>>
        /\ \E p \in Pids : child[p] = "none" /\ child' = [child EXCEPT ![p] = "forked"]
    BY <1>3 DEF Fork
  <2> QED
    BY <2>1 DEF TypeOK
<1>4. CASE \E c \in Conns : Connect(c) \/ Disconnect(c)
  BY <1>4 DEF Connect, Disconnect
<1>5. CASE \E p \in Pids : CloseListenfd(p)
  <2> PICK p \in Pids : CloseListenfd(p)
    BY <1>5
  <2>1. /\ UNCHANGED <<handler, pending, version, pc>>
        /\ child[p] = "forked" /\ child' = [child EXCEPT ![p] = "serving"]
    BY DEF CloseListenfd
  <2> QED
    BY <2>1 DEF TypeOK
<1>6. CASE UNCHANGED vars
  BY <1>6 DEF vars
<1> QED
  BY <1>1, <1>2, <1>3, <1>4, <1>5, <1>6

\* The parent's end leaves nothing to announce and nothing to wait for.
LEMMA EndSteps ==
  ASSUME TypeOK, NEW how \in {"failed", "exited"}, EndParent(how)
  PROVE  handler' = "out" /\ pending' = {} /\ Zombies' = {} /\ ~Alive'
  BY DEF EndParent, Zombies, Alive, TypeOK

\* There is at most one signal pending.
LEMMA PendingCardinality ==
  ASSUME TypeOK
  PROVE  /\ Cardinality(pending) \in {0, 1}
         /\ Cardinality({}) = 0 /\ Cardinality({"SIGCHLD"}) = 1
         /\ pending = {} \/ pending = {"SIGCHLD"}
<1>1. pending = {} \/ pending = {"SIGCHLD"}
  BY DEF TypeOK
<1> QED
  BY <1>1, FS_EmptySet, FS_Singleton

\* There are finitely many process identifiers.
LEMMA ZombiesFinite == IsFiniteSet(Zombies)
<1>1. IsFiniteSet(Pids)
  BY FS_Interval, MaxForksAssumption DEF Pids
<1> QED
  BY <1>1, FS_Subset DEF Zombies

\* A child's end adds a zombie, and sig_chld takes one away.
LEMMA ZombieCardinality ==
  ASSUME TypeOK, NEW p \in Pids
  PROVE  /\ child[p] # "zombie" /\ child' = [child EXCEPT ![p] = "zombie"]
              => Cardinality(Zombies') = Cardinality(Zombies) + 1
         /\ child[p] = "zombie" /\ child' = [child EXCEPT ![p] = "reaped"]
              => Cardinality(Zombies') = Cardinality(Zombies) - 1
<1>1. ASSUME child[p] # "zombie", child' = [child EXCEPT ![p] = "zombie"]
      PROVE  Cardinality(Zombies') = Cardinality(Zombies) + 1
  <2>1. Zombies' = Zombies \union {p} /\ p \notin Zombies
    BY <1>1 DEF Zombies, TypeOK
  <2> QED
    BY <2>1, ZombiesFinite, FS_AddElement
<1>2. ASSUME child[p] = "zombie", child' = [child EXCEPT ![p] = "reaped"]
      PROVE  Cardinality(Zombies') = Cardinality(Zombies) - 1
  <2>1. Zombies' = Zombies \ {p} /\ p \in Zombies
    BY <1>2 DEF Zombies, TypeOK
  <2> QED
    BY <2>1, ZombiesFinite, FS_RemoveElement
<1> QED
  BY <1>1, <1>2

\* The four invariants are kept by every step.
LEMMA StepInv == IInv /\ [Next]_vars => IInv'
<1> SUFFICES ASSUME IInv, [Next]_vars PROVE EndedInv' /\ ZombiesAnnounced' /\ WaitFindsZombie'
  BY TypingStep DEF IInv
<1>0. /\ TypeOK /\ EndedInv /\ ZombiesAnnounced /\ WaitFindsZombie
      /\ Cardinality(Zombies) \in Nat
      /\ handler \in {"out", "reap"} /\ Waits \intersect Loops = {}
  BY ZombiesFinite, FS_CardinalityType DEF IInv, TypeOK, Waits, Loops
<1> USE <1>0, PendingCardinality
<1>1. CASE Quiet
  BY <1>1 DEF Quiet, EndedInv, ZombiesAnnounced, WaitFindsZombie
<1>2. CASE \E how \in {"failed", "exited"} : EndParent(how)
  <2>1. handler' = "out" /\ pending' = {} /\ Zombies' = {}
    BY <1>2, EndSteps
  <2> QED
    BY <2>1 DEF EndedInv, ZombiesAnnounced, WaitFindsZombie
<1>3. ASSUME NEW p \in Pids, StrEchoAndExit(p)
      PROVE  EndedInv' /\ ZombiesAnnounced' /\ WaitFindsZombie'
  <2>1. /\ UNCHANGED <<version, handler>> /\ child[p] = "serving" /\ (Alive' <=> Alive)
    BY <1>3 DEF StrEchoAndExit, fixed, parent, Alive
  <2>2. CASE Alive
    <3>1. Cardinality(Zombies') = Cardinality(Zombies) + 1
      BY <1>3, <2>2, ZombieCardinality DEF StrEchoAndExit
    <3>2. version \in Waits \union Loops => pending' = {"SIGCHLD"}
      BY <1>3, <2>2 DEF StrEchoAndExit, Ignores, Waits, Loops
    <3> QED
      BY <2>1, <2>2, <3>1, <3>2 DEF EndedInv, ZombiesAnnounced, WaitFindsZombie
  <2>3. CASE ~Alive
    <3>1. pending' = {} /\ Zombies' = {}
      BY <1>3, <2>3 DEF StrEchoAndExit, EndedInv, Zombies, TypeOK
    <3> QED
      BY <2>1, <2>3, <3>1 DEF EndedInv, ZombiesAnnounced, WaitFindsZombie
  <2> QED
    BY <2>2, <2>3
<1>4. CASE Deliver
  <2>1. /\ Alive /\ handler = "out" /\ pending = {"SIGCHLD"} /\ UNCHANGED version
        /\ handler' = "reap" /\ pending' = {} /\ Zombies' = Zombies
    BY <1>4 DEF Deliver, fixed, children, Zombies
  <2>2. Alive'
    BY <1>4, <2>1 DEF Deliver, Alive
  <2> QED
    BY <2>1, <2>2 DEF EndedInv, ZombiesAnnounced, WaitFindsZombie
<1>5. ASSUME NEW p \in Pids, SigChldReaps(p)
      PROVE  EndedInv' /\ ZombiesAnnounced' /\ WaitFindsZombie'
  <2>1. /\ handler = "reap" /\ UNCHANGED <<version, pending>> /\ Alive
        /\ handler' = IF version \in Loops THEN "reap" ELSE "out"
    BY <1>5 DEF SigChldReaps, CallsAgain, fixed, EndedInv
  <2>2. Alive'
    BY <1>5, <2>1 DEF SigChldReaps, parent, Alive
  <2>3. Cardinality(Zombies') = Cardinality(Zombies) - 1
    BY <1>5, ZombieCardinality DEF SigChldReaps
  <2> QED
    BY <2>1, <2>2, <2>3 DEF EndedInv, ZombiesAnnounced, WaitFindsZombie
<1>6. CASE SigChldFindsNone
  <2>1. /\ handler = "reap" /\ handler' = "out" /\ Zombies = {} /\ Zombies' = {}
        /\ UNCHANGED <<version, pending>>
    BY <1>6 DEF SigChldFindsNone, fixed, children, Zombies
  <2>2. Alive' /\ version \notin Waits
    BY <1>6, <2>1 DEF SigChldFindsNone, EndedInv, Alive, WaitFindsZombie
  <2> QED
    BY <2>1, <2>2 DEF EndedInv, ZombiesAnnounced, WaitFindsZombie
<1>7. \/ Quiet \/ Deliver \/ SigChldFindsNone
      \/ \E how \in {"failed", "exited"} : EndParent(how)
      \/ \E p \in Pids : StrEchoAndExit(p) \/ SigChldReaps(p)
  BY QuietSteps, ParentSteps DEF Next, HandlerStep, ErrSys, ForkFails, CloseFails, SigInt
<1> QED
  BY <1>1, <1>2, <1>3, <1>4, <1>5, <1>6, <1>7

-----------------------------------------------------------------------------
(* The theorems                                                              *)

\* What the four parts of the invariant say of a parent, its children and sig_chld
\* holds in every state of every server.
THEOREM Inductive == Spec => []IInv
<1> QED
  BY InitInv, StepInv, PTL DEF Spec

\* However many connections: descriptors, children and the signal stay well-typed
\* through every interleaving of accept, fork, close and sig_chld.
THEOREM Typing == Spec => []TypeOK
<1>1. IInv => TypeOK
  BY DEF IInv
<1> QED
  BY Inductive, <1>1, PTL

\* The waitpid loop of sigchldwaitpid.c forgets no zombie, although the signals
\* of children that end together are merged.
THEOREM Reaping == Spec => []ZombiesAnnounced
<1>1. IInv => ZombiesAnnounced
  BY DEF IInv
<1> QED
  BY Inductive, <1>1, PTL

\* The wait of sigchldwait.c has a zombie to find whenever the handler runs.
THEOREM Waiting == Spec => []WaitFindsZombie
<1>1. IInv => WaitFindsZombie
  BY DEF IInv
<1> QED
  BY Inductive, <1>1, PTL

-----------------------------------------------------------------------------
(* Numbers and places                                                        *)

\* The least number of a set.
LEMMA Least ==
  ASSUME NEW S \in SUBSET Nat, S # {}
  PROVE  \E x \in S : \A y \in S : x <= y
<1>1. \E x \in S : \A y \in S : <<y, x>> \notin OpToRel(<, Nat)
  BY NatLessThanWellFounded, WFMin, Zenon
<1>2. \E x \in S : \A y \in S : ~(y < x)
  BY <1>1, Zenon DEF OpToRel
<1> QED
  BY <1>2

\* The arguments at which a function has one of the values.
CountIn(g, values) == Cardinality({x \in DOMAIN g : g[x] \in values})

LEMMA CountInType ==
  ASSUME NEW g, IsFiniteSet(DOMAIN g), NEW P
  PROVE  /\ CountIn(g, P) \in Nat /\ CountIn(g, P) <= Cardinality(DOMAIN g)
         /\ CountIn(g, P) = 0 => \A x \in DOMAIN g : g[x] \notin P
<1> DEFINE A == {x \in DOMAIN g : g[x] \in P}
<1>1. IsFiniteSet(A) /\ Cardinality(A) <= Cardinality(DOMAIN g)
  BY FS_Subset
<1>2. Cardinality(A) \in Nat /\ (Cardinality(A) = 0 => A = {})
  BY <1>1, FS_CardinalityType, FS_EmptySet
<1> QED
  BY <1>1, <1>2 DEF CountIn

\* One argument gets another value.
LEMMA CountMoves ==
  ASSUME NEW g, IsFiniteSet(DOMAIN g), NEW f \in DOMAIN g, NEW v, NEW h,
         DOMAIN h = DOMAIN g, h[f] = v, \A x \in DOMAIN g \ {f} : h[x] = g[x]
  PROVE  \A P : CountIn(h, P) =
           CountIn(g, P) + (IF v \in P THEN 1 ELSE 0) - (IF g[f] \in P THEN 1 ELSE 0)
<1> TAKE P
<1> DEFINE A == {x \in DOMAIN g : g[x] \in P}
           B == {x \in DOMAIN h : h[x] \in P}
           C == A \ {f}
<1>1. IsFiniteSet(A) /\ Cardinality(A) \in Nat
  BY FS_Subset, FS_CardinalityType
<1>2. /\ IsFiniteSet(C)
      /\ Cardinality(C) = IF g[f] \in P THEN Cardinality(A) - 1 ELSE Cardinality(A)
  <2>1. f \in A <=> g[f] \in P
    OBVIOUS
  <2> QED
    BY <1>1, <2>1, FS_RemoveElement
<1>3. Cardinality(C \cup {f}) = Cardinality(C) + 1
  BY <1>2, FS_AddElement
<1>4. B = IF v \in P THEN C \cup {f} ELSE C
  OBVIOUS
<1>5. CountIn(g, P) = Cardinality(A) /\ CountIn(h, P) = Cardinality(B)
  BY DEF CountIn
<1> HIDE DEF A, B, C
<1>6. CountIn(h, P) =
           CountIn(g, P) + (IF v \in P THEN 1 ELSE 0) - (IF g[f] \in P THEN 1 ELSE 0)
  BY <1>1, <1>2, <1>3, <1>4, <1>5
<1> QED
  BY <1>6

-----------------------------------------------------------------------------
(* The web clients with threads                                              *)

WtVersions == {"web01", "web02", "web03"}
WtMains == {"home_page", "fill", "created", "thr_join", "lock", "relock", "test", "cond_wait",
            "scan", "join"}
WtFlags == {"0", "F_CONNECTING", "F_READING", "F_DONE", "F_JOINED"}
WtBusy  == {"connect", "write_get_cmd", "read", "flag", "lock", "count", "signal", "returned"}
WtEnded == {"signal", "returned"}

\* What has its type, where the indices are in bounds, and web01 counts nothing.
WtTypes ==
  /\ wt_version \in WtVersions /\ wt_main \in WtMains
  /\ wt_i \in 1 .. nfiles + 1
  /\ wt_thread \in [WT!Files -> WtBusy \cup {"none", "joined"}]
  /\ wt_f_flags \in [WT!Files -> WtFlags]
  /\ wt_nconn \in Int /\ wt_nlefttoconn \in Int /\ wt_nlefttoread \in Int /\ wt_ndone \in Int
  /\ wt_mutex \in 0 .. nfiles + 1
  /\ wt_process \in {"running", "exited", "nothing_found"}
  /\ wt_version = "web01" => wt_ndone = 0
  /\ wt_main \in {"created", "join"} => wt_i \in WT!Files
  /\ wt_main = "created" => wt_thread[wt_i] \in WtBusy

\* A file without a thread has no flag, and the other way round but for the file
\* whose thread web02 has just created.
WtUnread ==
  \A f \in WT!Files :
    /\ wt_thread[f] = "none" => wt_f_flags[f] = "0"
    /\ wt_f_flags[f] = "0" =>
         wt_thread[f] = "none" \/ (wt_version = "web02" /\ wt_main = "created" /\ wt_i = f)

WtCreating == IF wt_main = "created" THEN 1 ELSE 0

\* The counters count threads.
WtCounted ==
  /\ wt_nconn + WtCreating = CountIn(wt_thread, WtBusy)
  /\ wt_nconn + WtCreating <= maxnconn
  /\ wt_nlefttoconn - WtCreating = CountIn(wt_thread, {"none"})
  /\ wt_nlefttoread = nfiles - CountIn(wt_thread, {"joined"})
  /\ wt_version # "web01" => wt_ndone = CountIn(wt_thread, WtEnded)

WtInv ==
  /\ WtTypes /\ WtUnread /\ WtCounted
  /\ WT!ConnectingMeansConnecting /\ wt_process # "nothing_found"

LEMMA WtFiles ==
  /\ nfiles \in Nat \ {0} /\ maxnconn \in Nat
  /\ WT!Files = 1 .. nfiles /\ IsFiniteSet(WT!Files) /\ Cardinality(WT!Files) = nfiles
<1>1. nfiles \in Nat \ {0} /\ maxnconn \in Nat
  BY BoundsAssumption
<1> QED
  BY <1>1, FS_Interval DEF WT!Files

LEMMA WtInit == WT!Init => WtInv
<1> SUFFICES ASSUME WT!Init PROVE WtInv
  OBVIOUS
<1>1. WtTypes /\ wt_process # "nothing_found"
  <2>1. 1 \in 1 .. nfiles + 1 /\ 0 \in 0 .. nfiles + 1 /\ nfiles \in Int
    BY WtFiles
  <2> QED
    BY <2>1 DEF WT!Init, WT!Free, WtTypes, WtVersions, WtMains, WtFlags, WtBusy
<1>5. WtUnread /\ WT!ConnectingMeansConnecting
  BY DEF WT!Init, WtUnread, WT!ConnectingMeansConnecting
<1>2. CountIn(wt_thread, {"none"}) = nfiles
  <2>1. {x \in DOMAIN wt_thread : wt_thread[x] \in {"none"}} = WT!Files
    BY DEF WT!Init
  <2> QED
    BY <2>1, WtFiles DEF CountIn
<1>3. ASSUME NEW P \in {WtBusy, {"joined"}, WtEnded} PROVE CountIn(wt_thread, P) = 0
  <2>1. {x \in DOMAIN wt_thread : wt_thread[x] \in P} = {}
    BY DEF WT!Init, WtBusy, WtEnded
  <2> QED
    BY <2>1, FS_EmptySet DEF CountIn
<1>4. WtCounted
  BY <1>2, <1>3, WtFiles DEF WT!Init, WtCounted, WtCreating
<1> QED
  BY <1>1, <1>4, <1>5 DEF WtInv

\* An action of main, or of the thread of a file.
LEMMA WtActions ==
  ASSUME [WT!Next]_wt_vars
  PROVE  \/ WT!HomePage \/ WT!CreateThread \/ WT!Created \/ WT!Filled \/ WT!SpuriousWakeup
         \/ wt_version = "web01" /\ WT!JoinAny
         \/ wt_version # "web01" /\ (WT!MainLock \/ WT!TestNdone \/ WT!Scan \/ WT!Join)
         \/ \E f \in WT!Files :
              \/ WT!Connect(f) \/ WT!WriteGetCmd(f) \/ WT!EndOfFile(f) \/ WT!SetDone(f)
              \/ wt_version # "web01" /\ (WT!ThreadLock(f) \/ WT!Count(f) \/ WT!SignalAndReturn(f))
              \/ WT!ConnectionFails(f)
         \/ UNCHANGED wt_vars
BY DEF WT!Next, WT!MainStep, WT!ThreadStep, WT!Web01Main, WT!Web02Main, WT!Web03Main,
       WT!Web01Thread, WT!Web02Thread, WT!Web03Thread, WT!Fills, WT!Reads, WT!Tells

\* There is a file to make a thread for, and it gets the first one.
LEMMA WtCreates ==
  ASSUME WtInv, WT!CreateThread
  PROVE  \E f \in WT!Files :
           /\ wt_f_flags[f] = "0" /\ wt_thread[f] = "none"
           /\ wt_main = "fill" /\ wt_main' = "created" /\ wt_i' = f
           /\ wt_thread' = [wt_thread EXCEPT ![f] = "connect"]
           /\ \/ wt_version # "web02" /\ wt_f_flags' = [wt_f_flags EXCEPT ![f] = "F_CONNECTING"]
              \/ wt_version = "web02" /\ wt_f_flags' = wt_f_flags
           /\ wt_nconn < maxnconn
           /\ UNCHANGED <<wt_version, wt_nconn, wt_nlefttoconn, wt_nlefttoread, wt_ndone, wt_mutex,
                          wt_process>>
<1> DEFINE unread == {f \in WT!Files : wt_f_flags[f] = "0"}
<1>1. WT!MainAt("fill") /\ WT!MustFill
  BY DEF WT!CreateThread
<1>2. wt_main = "fill" /\ wt_nconn < maxnconn /\ wt_nlefttoconn > 0
  BY <1>1 DEF WT!MainAt, WT!MustFill
<1>3. unread # {}
  <2>1. CountIn(wt_thread, {"none"}) # 0
    BY <1>2 DEF WtInv, WtCounted, WtCreating, WtTypes
  <2>2. DOMAIN wt_thread = WT!Files
    BY DEF WtInv, WtTypes
  <2>3. {x \in DOMAIN wt_thread : wt_thread[x] \in {"none"}} # {}
    BY <2>1, FS_EmptySet DEF CountIn
  <2> QED
    BY <2>2, <2>3 DEF WtInv, WtUnread
<1>4. WT!Min(unread) \in unread
  <2>1. unread \subseteq Nat
    BY WtFiles
  <2>2. \E x \in unread : \A y \in unread : x <= y
    BY <1>3, <2>1, Least
  <2> QED
    BY <2>2 DEF WT!Min
<1>5. /\ wt_main' = "created" /\ wt_i' = WT!Min(unread)
      /\ WT!ThreadGoto(WT!Min(unread), "connect")
      /\ IF WT!MarkFirst THEN WT!SetFlag(WT!Min(unread), "F_CONNECTING") ELSE UNCHANGED wt_f_flags
      /\ UNCHANGED wt_process
  BY <1>3 DEF WT!CreateThread
<1> HIDE DEF unread
<1>6. WT!Min(unread) \in WT!Files /\ wt_f_flags[WT!Min(unread)] = "0"
  BY <1>4 DEF unread
<1>7. wt_thread[WT!Min(unread)] = "none"
  BY <1>2, <1>6 DEF WtInv, WtUnread
<1>8. UNCHANGED <<wt_version, wt_nconn, wt_nlefttoconn, wt_nlefttoread, wt_ndone, wt_mutex>>
  BY DEF WT!CreateThread, WT!counts
<1> QED
  BY <1>2, <1>5, <1>6, <1>7, <1>8 DEF WT!ThreadGoto, WT!SetFlag, WT!MarkFirst

\* A step of a file's thread, or main's join of it.
WtMoves(f, to) == wt_thread' = [wt_thread EXCEPT ![f] = to]

LEMMA WtCount ==
  ASSUME WtTypes, NEW f \in WT!Files, NEW to, WtMoves(f, to)
  PROVE  \A P : CountIn(wt_thread', P) =
           CountIn(wt_thread, P) + (IF to \in P THEN 1 ELSE 0)
             - (IF wt_thread[f] \in P THEN 1 ELSE 0)
<1>1. DOMAIN wt_thread = WT!Files
  BY DEF WtTypes
<1>2. IsFiniteSet(DOMAIN wt_thread)
  BY <1>1, WtFiles
<1>3. /\ DOMAIN wt_thread' = DOMAIN wt_thread /\ wt_thread'[f] = to
      /\ \A x \in DOMAIN wt_thread \ {f} : wt_thread'[x] = wt_thread[x]
  BY <1>1 DEF WtMoves
<1>4. f \in DOMAIN wt_thread
  BY <1>1
<1> HIDE <1>1
<1> QED
  BY ONLY <1>2, <1>3, <1>4, CountMoves

LEMMA WtCountTypes ==
  ASSUME WtTypes
  PROVE  /\ CountIn(wt_thread, WtBusy) \in Nat /\ CountIn(wt_thread, {"none"}) \in Nat
         /\ CountIn(wt_thread, {"joined"}) \in Nat /\ CountIn(wt_thread, WtEnded) \in Nat
         /\ CountIn(wt_thread, WtBusy) <= nfiles /\ CountIn(wt_thread, {"none"}) <= nfiles
         /\ CountIn(wt_thread, {"joined"}) <= nfiles /\ CountIn(wt_thread, WtEnded) <= nfiles
<1>1. DOMAIN wt_thread = WT!Files
  BY DEF WtTypes
<1> QED
  BY <1>1, WtFiles, CountInType

\* Steps of main that create and join no thread.
LEMMA WtMain ==
  ASSUME WtInv, WT!HomePage \/ WT!Filled \/ WT!SpuriousWakeup
                  \/ (wt_version # "web01" /\ (WT!MainLock \/ WT!TestNdone \/ WT!Scan))
                  \/ UNCHANGED wt_vars
  PROVE  WtInv'
<1>1. /\ wt_version' = wt_version /\ wt_thread' = wt_thread /\ wt_f_flags' = wt_f_flags
      /\ wt_nconn' = wt_nconn /\ wt_nlefttoconn' = wt_nlefttoconn
      /\ wt_nlefttoread' = wt_nlefttoread /\ wt_ndone' = wt_ndone
  BY DEF WT!HomePage, WT!Filled, WT!SpuriousWakeup, WT!MainLock, WT!TestNdone, WT!Scan, WT!counts,
         wt_vars
<1>2. /\ wt_main' \in WtMains /\ (wt_main' = "created" <=> wt_main = "created")
      /\ wt_main = "created" => wt_i' = wt_i
      /\ wt_i' \in 1 .. nfiles + 1 /\ (wt_main' = "join" => wt_i' \in WT!Files)
      /\ wt_mutex' \in 0 .. nfiles + 1 /\ wt_process' \in {wt_process, "exited"}
  <2>1. WtTypes /\ nfiles \in Nat \ {0} /\ WT!Files = 1 .. nfiles
    BY WtFiles DEF WtInv
  <2>2. CASE WT!HomePage
    BY <2>1, <2>2 DEF WT!HomePage, WT!MainAt, WtMains, WtTypes
  <2>3. CASE WT!Filled
    BY <2>1, <2>3 DEF WT!Filled, WT!MainAt, WtMains, WtTypes
  <2>4. CASE WT!SpuriousWakeup
    BY <2>1, <2>4 DEF WT!SpuriousWakeup, WT!MainAt, WtMains, WtTypes
  <2>5. CASE WT!MainLock
    BY <2>1, <2>5 DEF WT!MainLock, WT!MainAt, WtMains, WtTypes
  <2>6. CASE WT!TestNdone
    BY <2>1, <2>6 DEF WT!TestNdone, WT!MainAt, WT!Free, WtMains, WtTypes
  <2>7. CASE WT!Scan
    BY <2>1, <2>7 DEF WT!Scan, WT!MainAt, WT!Free, WtMains, WtTypes
  <2>8. CASE UNCHANGED wt_vars
    BY <2>1, <2>8 DEF wt_vars, WtTypes
  <2> QED
    BY <2>2, <2>3, <2>4, <2>5, <2>6, <2>7, <2>8
<1>3. WtTypes'
  BY <1>1, <1>2 DEF WtInv, WtTypes
<1>4. WtUnread' /\ WT!ConnectingMeansConnecting' /\ wt_process' # "nothing_found"
  BY <1>1, <1>2 DEF WtInv, WtUnread, WT!ConnectingMeansConnecting
<1>5. WtCounted'
  BY <1>1, <1>2 DEF WtInv, WtCounted, WtCreating
<1> QED
  BY <1>3, <1>4, <1>5 DEF WtInv

\* pthread_create, between the test of the counters and their update.
LEMMA WtCreate == ASSUME WtInv, WT!CreateThread PROVE WtInv'
<1>1. PICK f \in WT!Files :
           /\ wt_f_flags[f] = "0" /\ wt_thread[f] = "none"
           /\ wt_main = "fill" /\ wt_main' = "created" /\ wt_i' = f
           /\ wt_thread' = [wt_thread EXCEPT ![f] = "connect"]
           /\ \/ wt_version # "web02" /\ wt_f_flags' = [wt_f_flags EXCEPT ![f] = "F_CONNECTING"]
              \/ wt_version = "web02" /\ wt_f_flags' = wt_f_flags
           /\ wt_nconn < maxnconn
           /\ UNCHANGED <<wt_version, wt_nconn, wt_nlefttoconn, wt_nlefttoread, wt_ndone, wt_mutex,
                          wt_process>>
  BY WtCreates
<1>2. WtTypes /\ "connect" \in WtBusy /\ "F_CONNECTING" \in WtFlags /\ "created" \in WtMains
  BY DEF WtInv, WtBusy, WtFlags, WtMains
<1>3. WtTypes'
  <2>1. f \in 1 .. nfiles + 1
    BY WtFiles
  <2> QED
    BY <1>1, <1>2, <2>1 DEF WtTypes
<1>4. WtUnread' /\ WT!ConnectingMeansConnecting' /\ wt_process' # "nothing_found"
  BY <1>1, <1>2 DEF WtInv, WtUnread, WT!ConnectingMeansConnecting, WtTypes
<1>5. WtCounted'
  <2>1. /\ CountIn(wt_thread', WtBusy) = CountIn(wt_thread, WtBusy) + 1
        /\ CountIn(wt_thread', {"none"}) = CountIn(wt_thread, {"none"}) - 1
        /\ CountIn(wt_thread', {"joined"}) = CountIn(wt_thread, {"joined"})
        /\ CountIn(wt_thread', WtEnded) = CountIn(wt_thread, WtEnded)
    <3>1. \A P : CountIn(wt_thread', P) =
                   CountIn(wt_thread, P) + (IF "connect" \in P THEN 1 ELSE 0)
                     - (IF "none" \in P THEN 1 ELSE 0)
      <4>1. WtMoves(f, "connect")
        BY <1>1 DEF WtMoves
      <4>2. \A P : CountIn(wt_thread', P) =
                     CountIn(wt_thread, P) + (IF "connect" \in P THEN 1 ELSE 0)
                       - (IF wt_thread[f] \in P THEN 1 ELSE 0)
        BY ONLY <1>2, <4>1, f \in WT!Files, WtCount
      <4>3. wt_thread[f] = "none"
        BY <1>1
      <4> QED
        BY ONLY <4>2, <4>3
    <3>2. "none" \notin WtBusy /\ "none" \notin WtEnded /\ "connect" \notin WtEnded
      BY DEF WtBusy, WtEnded
    <3> QED
      BY <1>2, <3>1, <3>2, WtCountTypes
  <2> QED
    BY <1>1, <1>2, <2>1, WtCountTypes, WtFiles DEF WtInv, WtCounted, WtCreating, WtTypes
<1> QED
  BY <1>3, <1>4, <1>5 DEF WtInv

\* nconn++ and nlefttoconn--; web02 marks the file only now.
LEMMA WtCreated == ASSUME WtInv, WT!Created PROVE WtInv'
<1>1. /\ wt_main = "created" /\ wt_main' = "fill"
      /\ \/ wt_version # "web02" /\ wt_f_flags' = wt_f_flags
         \/ wt_version = "web02" /\ wt_f_flags' = [wt_f_flags EXCEPT ![wt_i] = "F_CONNECTING"]
      /\ wt_nconn' = wt_nconn + 1 /\ wt_nlefttoconn' = wt_nlefttoconn - 1
      /\ UNCHANGED <<wt_version, wt_i, wt_thread, wt_nlefttoread, wt_ndone, wt_mutex, wt_process>>
  BY DEF WT!Created, WT!MainAt, WT!MarkFirst, WT!SetFlag
<1>2. WtTypes /\ "F_CONNECTING" \in WtFlags /\ "fill" \in WtMains
  BY DEF WtInv, WtFlags, WtMains
<1>3. WtTypes'
  BY <1>1, <1>2 DEF WtTypes
<1>4. WtUnread' /\ WT!ConnectingMeansConnecting' /\ wt_process' # "nothing_found"
  <2>1. wt_i \in WT!Files /\ wt_thread[wt_i] # "none"
    BY <1>1, <1>2 DEF WtTypes, WtBusy
  <2>2. CASE wt_version # "web02"
    BY <1>1, <2>2 DEF WtInv, WtUnread, WT!ConnectingMeansConnecting
  <2>3. CASE wt_version = "web02"
    BY <1>1, <1>2, <2>1, <2>3 DEF WtInv, WtUnread, WT!ConnectingMeansConnecting, WtTypes
  <2> QED
    BY <2>2, <2>3
<1>5. WtCounted'
  BY <1>1, <1>2, WtCountTypes, WtFiles DEF WtInv, WtCounted, WtCreating, WtTypes
<1> QED
  BY <1>3, <1>4, <1>5 DEF WtInv

\* thr_join of any thread that has returned.
LEMMA WtJoinAny == ASSUME WtInv, wt_version = "web01", WT!JoinAny PROVE WtInv'
<1>1. PICK f \in WT!Files : wt_thread[f] = "returned" /\ WtMoves(f, "joined")
  BY DEF WT!JoinAny, WT!ThreadGoto, WtMoves
<1>2. /\ wt_main = "thr_join" /\ wt_main' = "fill"
      /\ wt_nconn' = wt_nconn - 1 /\ wt_nlefttoread' = wt_nlefttoread - 1
      /\ UNCHANGED <<wt_version, wt_i, wt_f_flags, wt_nlefttoconn, wt_ndone, wt_mutex, wt_process>>
  BY DEF WT!JoinAny, WT!MainAt
<1>3. WtTypes /\ "fill" \in WtMains
  BY DEF WtInv, WtMains
<1>4. WtTypes'
  BY <1>1, <1>2, <1>3 DEF WtTypes, WtMoves
<1>5. WtUnread' /\ WT!ConnectingMeansConnecting' /\ wt_process' # "nothing_found"
  <2>1. wt_f_flags[f] \notin {"0", "F_CONNECTING"}
    BY <1>1, <1>2, wt_version = "web01" DEF WtInv, WtUnread, WT!ConnectingMeansConnecting
  <2> QED
    BY <1>1, <1>2, <1>3, <2>1 DEF WtInv, WtUnread, WT!ConnectingMeansConnecting, WtTypes, WtMoves
<1>6. WtCounted'
  <2>1. \A P : CountIn(wt_thread', P) =
                 CountIn(wt_thread, P) + (IF "joined" \in P THEN 1 ELSE 0)
                   - (IF wt_thread[f] \in P THEN 1 ELSE 0)
    BY ONLY <1>1, <1>3, f \in WT!Files, WtCount
  <2>2. wt_thread[f] = "returned"
    BY <1>1
  <2>3. "joined" \notin WtBusy /\ "returned" \in WtBusy
    BY DEF WtBusy
  <2>4. /\ CountIn(wt_thread', WtBusy) = CountIn(wt_thread, WtBusy) - 1
        /\ CountIn(wt_thread', {"none"}) = CountIn(wt_thread, {"none"})
        /\ CountIn(wt_thread', {"joined"}) = CountIn(wt_thread, {"joined"}) + 1
    BY <1>3, <2>1, <2>2, <2>3, WtCountTypes
  <2> QED
    BY <1>2, <2>4, <1>3, WtCountTypes, WtFiles, wt_version = "web01"
    DEF WtInv, WtCounted, WtCreating, WtTypes
<1> QED
  BY <1>4, <1>5, <1>6 DEF WtInv

\* pthread_join of the file that main has found done.
LEMMA WtJoin == ASSUME WtInv, wt_version # "web01", WT!Join PROVE WtInv'
<1>1. /\ wt_main = "join" /\ wt_main' = "scan" /\ wt_thread[wt_i] = "returned"
      /\ WtMoves(wt_i, "joined") /\ wt_f_flags' = [wt_f_flags EXCEPT ![wt_i] = "F_JOINED"]
      /\ wt_ndone' = wt_ndone - 1 /\ wt_i' = wt_i + 1
      /\ wt_nconn' = wt_nconn - 1 /\ wt_nlefttoread' = wt_nlefttoread - 1
      /\ UNCHANGED <<wt_version, wt_nlefttoconn, wt_mutex, wt_process>>
  BY DEF WT!Join, WT!MainAt, WT!Joinable, WT!ThreadGoto, WT!SetFlag, WtMoves
<1>2. /\ WtTypes /\ "scan" \in WtMains /\ "F_JOINED" \in WtFlags
      /\ wt_i \in WT!Files /\ wt_i + 1 \in 1 .. nfiles + 1
  <2>1. WtTypes /\ wt_i \in WT!Files
    BY <1>1 DEF WtInv, WtTypes
  <2> QED
    BY <2>1, WtFiles DEF WtMains, WtFlags
<1>3. WtTypes'
  BY <1>1, <1>2, wt_version # "web01" DEF WtTypes, WtMoves
<1>4. WtUnread' /\ WT!ConnectingMeansConnecting' /\ wt_process' # "nothing_found"
  BY <1>1, <1>2 DEF WtInv, WtUnread, WT!ConnectingMeansConnecting, WtTypes, WtMoves
<1>5. WtCounted'
  <2>1. \A P : CountIn(wt_thread', P) =
                 CountIn(wt_thread, P) + (IF "joined" \in P THEN 1 ELSE 0)
                   - (IF wt_thread[wt_i] \in P THEN 1 ELSE 0)
    <3>1. WtTypes /\ wt_i \in WT!Files /\ WtMoves(wt_i, "joined")
      BY <1>1, <1>2
    <3> QED
      BY ONLY <3>1, WtCount
  <2>2. wt_thread[wt_i] = "returned"
    BY <1>1
  <2>3. /\ "joined" \notin WtBusy /\ "returned" \in WtBusy
        /\ "joined" \notin WtEnded /\ "returned" \in WtEnded
    BY DEF WtBusy, WtEnded
  <2>4. /\ CountIn(wt_thread', WtBusy) = CountIn(wt_thread, WtBusy) - 1
        /\ CountIn(wt_thread', {"none"}) = CountIn(wt_thread, {"none"})
        /\ CountIn(wt_thread', {"joined"}) = CountIn(wt_thread, {"joined"}) + 1
        /\ CountIn(wt_thread', WtEnded) = CountIn(wt_thread, WtEnded) - 1
    BY <1>2, <2>1, <2>2, <2>3, WtCountTypes
  <2> QED
    BY <1>1, <2>4, <1>2, WtCountTypes, WtFiles
    DEF WtInv, WtCounted, WtCreating, WtTypes
<1> QED
  BY <1>3, <1>4, <1>5 DEF WtInv

\* What a step of a thread does: it goes on, and may set its flag, count itself,
\* take or free the mutex, and wake main.
WtGoesOn(f, from, to) ==
  /\ wt_thread[f] = from /\ WtMoves(f, to)
  /\ UNCHANGED <<wt_version, wt_i, wt_nconn, wt_nlefttoconn, wt_nlefttoread, wt_process>>

\* It keeps the counts of main.
LEMMA WtGoesOnCounts ==
  ASSUME WtInv, NEW f \in WT!Files, NEW from \in WtBusy, NEW to \in WtBusy,
         WtGoesOn(f, from, to), wt_main' = "created" <=> wt_main = "created",
         wt_version # "web01" =>
           wt_ndone' = wt_ndone + (IF to \in WtEnded THEN 1 ELSE 0)
                         - (IF from \in WtEnded THEN 1 ELSE 0)
  PROVE  WtCounted'
<1>1. WtTypes
  BY DEF WtInv
<1>2. \A P : CountIn(wt_thread', P) =
               CountIn(wt_thread, P) + (IF to \in P THEN 1 ELSE 0)
                 - (IF from \in P THEN 1 ELSE 0)
  <2>1. WtMoves(f, to)
    BY DEF WtGoesOn
  <2>2. wt_thread[f] = from
    BY DEF WtGoesOn
  <2>3. \A P : CountIn(wt_thread', P) =
                 CountIn(wt_thread, P) + (IF to \in P THEN 1 ELSE 0)
                   - (IF wt_thread[f] \in P THEN 1 ELSE 0)
    BY ONLY <1>1, <2>1, f \in WT!Files, WtCount
  <2> QED
    BY ONLY <2>2, <2>3
<1>3. "none" \notin WtBusy /\ "joined" \notin WtBusy
  BY DEF WtBusy
<1>4. /\ CountIn(wt_thread', WtBusy) = CountIn(wt_thread, WtBusy)
      /\ CountIn(wt_thread', {"none"}) = CountIn(wt_thread, {"none"})
      /\ CountIn(wt_thread', {"joined"}) = CountIn(wt_thread, {"joined"})
      /\ CountIn(wt_thread', WtEnded) =
           CountIn(wt_thread, WtEnded) + (IF to \in WtEnded THEN 1 ELSE 0)
             - (IF from \in WtEnded THEN 1 ELSE 0)
  BY <1>1, <1>2, <1>3, WtCountTypes
<1> QED
  BY <1>1, <1>4, WtCountTypes, WtFiles DEF WtInv, WtCounted, WtCreating, WtTypes, WtGoesOn

\* It keeps the rest, if it sets its own flag, or goes on to a place that its flag
\* allows.
WtFlagged(f, v) == wt_f_flags' = [wt_f_flags EXCEPT ![f] = v]

LEMMA WtGoesOnKeeps ==
  ASSUME WtInv, NEW f \in WT!Files, NEW from \in WtBusy, NEW to \in WtBusy,
         WtGoesOn(f, from, to),
         wt_main' \in WtMains, wt_main' = "created" <=> wt_main = "created",
         wt_main' = "join" <=> wt_main = "join", wt_mutex' \in 0 .. nfiles + 1,
         wt_ndone' \in Int, wt_version = "web01" => wt_ndone' = 0,
         wt_version # "web01" =>
           wt_ndone' = wt_ndone + (IF to \in WtEnded THEN 1 ELSE 0)
                         - (IF from \in WtEnded THEN 1 ELSE 0),
         \/ UNCHANGED wt_f_flags /\ (to = "write_get_cmd" \/ from \notin {"connect", "write_get_cmd"})
         \/ WtFlagged(f, "F_READING")
         \/ WtFlagged(f, "F_DONE")
  PROVE  WtInv'
<1>1. WtTypes /\ "F_READING" \in WtFlags /\ "F_DONE" \in WtFlags
  BY DEF WtInv, WtFlags
<1>2. from \notin {"none", "joined"} /\ to \notin {"none", "joined"}
  BY DEF WtBusy
<1>3. WtTypes'
  BY <1>1 DEF WtTypes, WtGoesOn, WtMoves, WtFlagged
<1>4. WtUnread'
  BY <1>1, <1>2 DEF WtInv, WtUnread, WtGoesOn, WtMoves, WtFlagged, WtTypes
<1>5. WT!ConnectingMeansConnecting'
  BY <1>1, <1>2 DEF WtInv, WT!ConnectingMeansConnecting, WtGoesOn, WtMoves, WtFlagged, WtTypes
<1>6. WtCounted'
  BY WtGoesOnCounts
<1> QED
  BY <1>3, <1>4, <1>5, <1>6 DEF WtInv, WtGoesOn

\* do_get_read up to where the thread is done.
LEMMA WtReads ==
  ASSUME WtInv, NEW f \in WT!Files,
         WT!Connect(f) \/ WT!WriteGetCmd(f) \/ WT!EndOfFile(f) \/ WT!SetDone(f)
  PROVE  WtInv'
<1>1. WtTypes
  BY DEF WtInv
<1>2. \E from, to \in WtBusy :
        /\ WtGoesOn(f, from, to) /\ to \notin WtEnded \ {"returned"} /\ from \notin WtEnded
        /\ to = "returned" => wt_version = "web01"
        /\ \/ UNCHANGED wt_f_flags
              /\ (to = "write_get_cmd" \/ from \notin {"connect", "write_get_cmd"})
           \/ WtFlagged(f, "F_READING")
           \/ WtFlagged(f, "F_DONE")
  <2>1. CASE WT!Connect(f)
    <3>1. WtGoesOn(f, "connect", "write_get_cmd") /\ UNCHANGED wt_f_flags
      BY <2>1 DEF WT!Connect, WT!Step, WT!counts, WtGoesOn, WtMoves
    <3> QED
      BY <3>1 DEF WtBusy, WtEnded
  <2>2. CASE WT!WriteGetCmd(f)
    <3>1. WtGoesOn(f, "write_get_cmd", "read") /\ WtFlagged(f, "F_READING")
      BY <2>2 DEF WT!WriteGetCmd, WT!Step, WT!SetFlag, WT!counts, WtGoesOn, WtMoves, WtFlagged
    <3> QED
      BY <3>1 DEF WtBusy, WtEnded
  <2>3. CASE WT!EndOfFile(f)
    <3>1. WtGoesOn(f, "read", "flag") /\ UNCHANGED wt_f_flags
      BY <2>3 DEF WT!EndOfFile, WT!Step, WT!counts, WtGoesOn, WtMoves
    <3> QED
      BY <3>1 DEF WtBusy, WtEnded
  <2>4. CASE WT!SetDone(f)
    <3>1. CASE wt_version = "web01"
      <4>1. WtGoesOn(f, "flag", "returned") /\ WtFlagged(f, "F_DONE")
        BY <2>4, <3>1 DEF WT!SetDone, WT!Step, WT!SetFlag, WT!counts, WtGoesOn, WtMoves, WtFlagged
      <4> QED
        BY <4>1, <3>1 DEF WtBusy, WtEnded
    <3>2. CASE wt_version # "web01"
      <4>1. WtGoesOn(f, "flag", "lock") /\ WtFlagged(f, "F_DONE")
        BY <2>4, <3>2 DEF WT!SetDone, WT!Step, WT!SetFlag, WT!counts, WtGoesOn, WtMoves, WtFlagged
      <4> QED
        BY <4>1 DEF WtBusy, WtEnded
    <3> QED
      BY <3>1, <3>2
  <2> QED
    BY <2>1, <2>2, <2>3, <2>4
<1>3. UNCHANGED <<wt_main, wt_ndone, wt_mutex>>
  BY DEF WT!Connect, WT!WriteGetCmd, WT!EndOfFile, WT!SetDone
<1>4. PICK from \in WtBusy, to \in WtBusy :
        /\ WtGoesOn(f, from, to) /\ to \notin WtEnded \ {"returned"} /\ from \notin WtEnded
        /\ to = "returned" => wt_version = "web01"
        /\ \/ UNCHANGED wt_f_flags
              /\ (to = "write_get_cmd" \/ from \notin {"connect", "write_get_cmd"})
           \/ WtFlagged(f, "F_READING")
           \/ WtFlagged(f, "F_DONE")
  BY <1>2, Zenon
<1>5. wt_version # "web01" =>
           wt_ndone' = wt_ndone + (IF to \in WtEnded THEN 1 ELSE 0)
                         - (IF from \in WtEnded THEN 1 ELSE 0)
  BY <1>1, <1>3, <1>4 DEF WtTypes
<1>6. /\ wt_main' \in WtMains /\ (wt_main' = "created" <=> wt_main = "created")
      /\ (wt_main' = "join" <=> wt_main = "join") /\ wt_mutex' \in 0 .. nfiles + 1
      /\ wt_ndone' \in Int /\ (wt_version = "web01" => wt_ndone' = 0)
  BY <1>1, <1>3 DEF WtTypes
<1> QED
  BY <1>4, <1>5, <1>6, WtGoesOnKeeps

\* ndone++ under the mutex, and the signal, which may wake main.
LEMMA WtTells ==
  ASSUME WtInv, NEW f \in WT!Files, wt_version # "web01",
         WT!ThreadLock(f) \/ WT!Count(f) \/ WT!SignalAndReturn(f)
  PROVE  WtInv'
<1>1. /\ WtTypes /\ {"lock", "count", "signal", "returned"} \subseteq WtBusy
      /\ {"lock", "count", "signal", "returned"} \cap WtEnded = {"signal", "returned"}
      /\ "relock" \in WtMains /\ 0 \in 0 .. nfiles + 1 /\ f \in 0 .. nfiles + 1
  BY WtFiles DEF WtInv, WtBusy, WtEnded, WtMains
<1>2. UNCHANGED wt_f_flags
  BY DEF WT!ThreadLock, WT!Count, WT!SignalAndReturn
<1>3. CASE WT!ThreadLock(f)
  <2>1. WtGoesOn(f, "lock", "count") /\ UNCHANGED <<wt_main, wt_ndone>> /\ wt_mutex' = f
    BY <1>3 DEF WT!ThreadLock, WT!Step, WT!counts, WtGoesOn, WtMoves
  <2>2. wt_main \in WtMains /\ wt_ndone \in Int
    BY <1>1 DEF WtTypes
  <2>3. wt_ndone' = wt_ndone + (IF "count" \in WtEnded THEN 1 ELSE 0)
                         - (IF "lock" \in WtEnded THEN 1 ELSE 0)
    BY <1>1, <2>1, <2>2
  <2> QED
    BY <1>1, <1>2, <2>1, <2>2, <2>3, wt_version # "web01", WtGoesOnKeeps
<1>4. CASE WT!Count(f)
  <2>1. WtGoesOn(f, "count", "signal") /\ UNCHANGED <<wt_main, wt_mutex>> /\ wt_ndone' = wt_ndone + 1
    BY <1>4 DEF WT!Count, WT!Step, WT!counts, WtGoesOn, WtMoves
  <2>2. wt_main \in WtMains /\ wt_ndone \in Int /\ wt_mutex \in 0 .. nfiles + 1
    BY <1>1 DEF WtTypes
  <2>3. wt_ndone' = wt_ndone + (IF "signal" \in WtEnded THEN 1 ELSE 0)
                         - (IF "count" \in WtEnded THEN 1 ELSE 0)
    BY <1>1, <2>1, <2>2
  <2>4. wt_ndone' \in Int
    BY <2>1, <2>2
  <2> QED
    BY <1>1, <1>2, <2>1, <2>2, <2>3, <2>4, wt_version # "web01", WtGoesOnKeeps
<1>5. CASE WT!SignalAndReturn(f)
  <2>1. /\ WtGoesOn(f, "signal", "returned") /\ UNCHANGED wt_ndone /\ wt_mutex' = 0
        /\ (wt_main' = wt_main) \/ (wt_main = "cond_wait" /\ wt_main' = "relock")
    BY <1>5 DEF WT!SignalAndReturn, WT!Step, WT!counts, WT!Free, WT!WakesMain, WT!MainAt, WtGoesOn,
                WtMoves
  <2>2. wt_main \in WtMains /\ wt_ndone \in Int
    BY <1>1 DEF WtTypes
  <2>3. wt_ndone' = wt_ndone + (IF "returned" \in WtEnded THEN 1 ELSE 0)
                         - (IF "signal" \in WtEnded THEN 1 ELSE 0)
    BY <1>1, <2>1, <2>2
  <2> QED
    BY <1>1, <1>2, <2>1, <2>2, <2>3, wt_version # "web01", WtGoesOnKeeps
<1> QED
  BY <1>3, <1>4, <1>5

\* Every step.
LEMMA WtStep == ASSUME WtInv, [WT!Next]_wt_vars PROVE WtInv'
<1>1. ASSUME NEW f \in WT!Files, WT!ConnectionFails(f) PROVE WtInv'
  <2>1. /\ UNCHANGED <<wt_version, wt_main, wt_i, wt_thread, wt_f_flags, wt_nconn, wt_nlefttoconn,
                       wt_nlefttoread, wt_ndone, wt_mutex>>
        /\ wt_process' = "exited"
    BY <1>1 DEF WT!ConnectionFails, WT!counts
  <2> QED
    BY <2>1 DEF WtInv, WtTypes, WtUnread, WtCounted, WtCreating, WT!ConnectingMeansConnecting
<1> QED
  BY <1>1, WtActions, WtMain, WtCreate, WtCreated, WtJoinAny, WtJoin, WtReads, WtTells, Zenon

\* The invariant is what the run checks.
LEMMA WtMeans == WtInv => WT!Consistent
<1> SUFFICES ASSUME WtInv PROVE WT!Consistent
  OBVIOUS
<1>1. WtTypes /\ DOMAIN wt_thread = WT!Files
  BY DEF WtInv, WtTypes
<1>2. ASSUME NEW S PROVE WT!Cardinality(S) = Cardinality(S)
  BY DEF WT!Cardinality, Cardinality
<1>3. /\ CountIn(wt_thread, WtBusy) = WT!Cardinality(WT!Live)
      /\ CountIn(wt_thread, {"none"}) = WT!Cardinality(WT!In({"none"}))
      /\ CountIn(wt_thread, {"joined"}) = WT!Cardinality(WT!In({"joined"}))
      /\ CountIn(wt_thread, WtEnded) = WT!Cardinality(WT!In({"signal", "returned"}))
  <2>1. WT!Live = {x \in DOMAIN wt_thread : wt_thread[x] \in WtBusy}
    BY <1>1 DEF WT!Live, WtTypes, WtBusy
  <2>2. ASSUME NEW P PROVE WT!In(P) = {x \in DOMAIN wt_thread : wt_thread[x] \in P}
    BY <1>1 DEF WT!In
  <2> QED
    BY <1>2, <2>1, <2>2 DEF CountIn, WtEnded
<1>4. WT!ConnectionCounts
  BY <1>1, <1>3, WtCountTypes DEF WtInv, WtCounted, WtCreating, WT!ConnectionCounts
<1>5. WT!NdoneCounts
  BY <1>3 DEF WtInv, WtCounted, WT!NdoneCounts
<1>6. WT!TypeOK
  <2>1. wt_main = "created" => CountIn(wt_thread, WtBusy) # 0
    BY <1>1, WtFiles, CountInType DEF WtTypes
  <2>2. {wt_nconn, wt_nlefttoconn, wt_nlefttoread, wt_ndone} \subseteq 0 .. nfiles
    <3>1. wt_nconn \in 0 .. nfiles /\ wt_nlefttoread \in 0 .. nfiles
      BY <1>1, <2>1, WtCountTypes, WtFiles DEF WtInv, WtCounted, WtCreating, WtTypes
    <3>2. wt_nlefttoconn \in 0 .. nfiles
      <4>1. wt_main = "created" => CountIn(wt_thread, {"none"}) < nfiles
        <5>1. SUFFICES ASSUME wt_main = "created" PROVE CountIn(wt_thread, {"none"}) < nfiles
          OBVIOUS
        <5>2. wt_i \in WT!Files /\ wt_thread[wt_i] # "none"
          BY <1>1, <5>1 DEF WtTypes, WtBusy
        <5> DEFINE A == {x \in DOMAIN wt_thread : wt_thread[x] \in {"none"}}
        <5>3. /\ IsFiniteSet(WT!Files \ {wt_i})
              /\ Cardinality(WT!Files \ {wt_i}) = nfiles - 1
          BY <5>2, WtFiles, FS_RemoveElement
        <5>4. A \subseteq WT!Files \ {wt_i}
          BY <1>1, <5>2
        <5>5. Cardinality(A) <= nfiles - 1
          BY <5>3, <5>4, FS_Subset
        <5> QED
          BY <5>5, WtCountTypes, WtFiles, <1>1 DEF CountIn
      <4> QED
        BY <1>1, <4>1, WtCountTypes, WtFiles DEF WtInv, WtCounted, WtCreating, WtTypes
    <3>3. wt_ndone \in 0 .. nfiles
      BY <1>1, WtCountTypes, WtFiles DEF WtInv, WtCounted, WtTypes
    <3> QED
      BY <3>1, <3>2, <3>3
  <2> QED
    BY <1>1, <2>2 DEF WT!TypeOK, WtTypes, WtVersions, WtMains, WtFlags, WtBusy
<1> QED
  BY <1>4, <1>5, <1>6 DEF WtInv, WT!Consistent

-----------------------------------------------------------------------------
(* The web client in one thread                                              *)

NbFlags == {"0", "F_CONNECTING", "F_READING", "F_DONE"}
NbOpen  == {"F_CONNECTING", "F_READING"}
NbLoop  == {"home_page", "fill", "select", "scan"}

NbTypes ==
  /\ nb_pc \in NbLoop \cup {"exit", "connect_error", "writen_error", "read_error"}
  /\ nb_f_flags \in [NB!Files -> NbFlags]
  /\ nb_nconn \in Int /\ nb_nlefttoconn \in Int /\ nb_nlefttoread \in Int

\* While the client runs, the counters count flags, and rset holds the open files.
NbCounted ==
  /\ nb_nconn = CountIn(nb_f_flags, NbOpen) /\ nb_nconn <= maxnconn
  /\ nb_nlefttoconn = CountIn(nb_f_flags, {"0"})
  /\ nb_nlefttoread = nfiles - CountIn(nb_f_flags, {"F_DONE"})
  /\ nb_rset = {f \in NB!Files : nb_f_flags[f] \in NbOpen}

NbInv == NbTypes /\ (nb_pc \in NbLoop => NbCounted)

LEMMA NbFiles ==
  /\ nfiles \in Nat \ {0} /\ maxnconn \in Nat
  /\ NB!Files = 1 .. nfiles /\ IsFiniteSet(NB!Files) /\ Cardinality(NB!Files) = nfiles
<1>1. nfiles \in Nat \ {0} /\ maxnconn \in Nat
  BY BoundsAssumption
<1> QED
  BY <1>1, FS_Interval DEF NB!Files

LEMMA NbInit == NB!Init => NbInv
<1> SUFFICES ASSUME NB!Init PROVE NbInv
  OBVIOUS
<1>1. NbTypes
  BY NbFiles DEF NB!Init, NbTypes, NbFlags, NbLoop
<1>2. CountIn(nb_f_flags, {"0"}) = nfiles
  <2>1. {x \in DOMAIN nb_f_flags : nb_f_flags[x] \in {"0"}} = NB!Files
    BY DEF NB!Init
  <2> QED
    BY <2>1, NbFiles DEF CountIn
<1>3. ASSUME NEW P \in {NbOpen, {"F_DONE"}} PROVE CountIn(nb_f_flags, P) = 0
  <2>1. {x \in DOMAIN nb_f_flags : nb_f_flags[x] \in P} = {}
    BY DEF NB!Init, NbOpen
  <2> QED
    BY <2>1, FS_EmptySet DEF CountIn
<1>4. nb_rset = {f \in NB!Files : nb_f_flags[f] \in NbOpen}
  BY DEF NB!Init, NbOpen
<1>5. NbCounted
  BY <1>2, <1>3, <1>4, NbFiles DEF NB!Init, NbCounted
<1> QED
  BY <1>1, <1>5 DEF NbInv

\* A file gets a flag.
NbFlagged(f, v) == nb_f_flags' = [nb_f_flags EXCEPT ![f] = v]

LEMMA NbCount ==
  ASSUME NbTypes, NEW f \in NB!Files, NEW v \in NbFlags, NbFlagged(f, v)
  PROVE  \A P : CountIn(nb_f_flags', P) =
           CountIn(nb_f_flags, P) + (IF v \in P THEN 1 ELSE 0)
             - (IF nb_f_flags[f] \in P THEN 1 ELSE 0)
<1>1. DOMAIN nb_f_flags = NB!Files
  BY DEF NbTypes
<1>2. IsFiniteSet(DOMAIN nb_f_flags)
  BY <1>1, NbFiles
<1>3. /\ DOMAIN nb_f_flags' = DOMAIN nb_f_flags /\ nb_f_flags'[f] = v
      /\ \A x \in DOMAIN nb_f_flags \ {f} : nb_f_flags'[x] = nb_f_flags[x]
  BY <1>1 DEF NbFlagged
<1>4. f \in DOMAIN nb_f_flags
  BY <1>1
<1> HIDE <1>1
<1> QED
  BY ONLY <1>2, <1>3, <1>4, CountMoves

LEMMA NbCountTypes ==
  ASSUME NbTypes
  PROVE  \A P : /\ CountIn(nb_f_flags, P) \in Nat
                /\ CountIn(nb_f_flags, P) = 0 => \A f \in NB!Files : nb_f_flags[f] \notin P
<1>1. DOMAIN nb_f_flags = NB!Files
  BY DEF NbTypes
<1> QED
  BY <1>1, NbFiles, CountInType

\* A connect begins: nconn++, nlefttoconn--; and it may be done at once.
LEMMA NbOpens ==
  ASSUME NbInv, nb_pc \in NbLoop, NEW f \in NB!Files, NEW v \in NbOpen, nb_f_flags[f] = "0",
         NbFlagged(f, v), nb_rset' = nb_rset \cup {f}, nb_nconn < maxnconn,
         nb_nconn' = nb_nconn + 1, nb_nlefttoconn' = nb_nlefttoconn - 1,
         UNCHANGED <<nb_pc, nb_nlefttoread>>
  PROVE  NbInv'
<1>1. NbTypes /\ v \in NbFlags
  BY DEF NbInv, NbOpen, NbFlags
<1>2. NbTypes'
  BY <1>1 DEF NbTypes, NbFlagged
<1>3. \A P : CountIn(nb_f_flags', P) =
               CountIn(nb_f_flags, P) + (IF v \in P THEN 1 ELSE 0) - (IF "0" \in P THEN 1 ELSE 0)
  <2>1. \A P : CountIn(nb_f_flags', P) =
                 CountIn(nb_f_flags, P) + (IF v \in P THEN 1 ELSE 0)
                   - (IF nb_f_flags[f] \in P THEN 1 ELSE 0)
    BY ONLY <1>1, f \in NB!Files, NbFlagged(f, v), NbCount
  <2> QED
    BY ONLY <2>1, nb_f_flags[f] = "0"
<1>4. /\ CountIn(nb_f_flags', NbOpen) = CountIn(nb_f_flags, NbOpen) + 1
      /\ CountIn(nb_f_flags', {"0"}) = CountIn(nb_f_flags, {"0"}) - 1
      /\ CountIn(nb_f_flags', {"F_DONE"}) = CountIn(nb_f_flags, {"F_DONE"})
  BY <1>1, <1>3, NbCountTypes DEF NbOpen
<1>5. nb_rset' = {x \in NB!Files : nb_f_flags'[x] \in NbOpen}
  BY <1>1 DEF NbInv, NbCounted, NbTypes, NbFlagged
<1>6. NbCounted'
  BY <1>1, <1>4, <1>5, NbFiles DEF NbInv, NbCounted, NbTypes
<1> QED
  BY <1>2, <1>6 DEF NbInv

\* The first file without a flag.
LEMMA NbUnread ==
  ASSUME NbInv, nb_pc \in NbLoop, nb_nlefttoconn > 0
  PROVE  LET unread == {f \in NB!Files : nb_f_flags[f] = "0"}
         IN  unread # {} /\ NB!Min(unread) \in unread
<1> DEFINE unread == {f \in NB!Files : nb_f_flags[f] = "0"}
<1>1. unread # {}
  <2>1. CountIn(nb_f_flags, {"0"}) # 0
    BY DEF NbInv, NbCounted, NbTypes
  <2>2. DOMAIN nb_f_flags = NB!Files
    BY DEF NbInv, NbTypes
  <2>3. {x \in DOMAIN nb_f_flags : nb_f_flags[x] \in {"0"}} # {}
    BY <2>1, FS_EmptySet DEF CountIn
  <2> QED
    BY <2>2, <2>3
<1>2. unread \subseteq Nat
  BY NbFiles
<1>3. \E x \in unread : \A y \in unread : x <= y
  BY <1>1, <1>2, Least
<1>4. NB!Min(unread) \in unread
  BY <1>3 DEF NB!Min
<1> QED
  BY <1>1, <1>4

\* Fill: the connect is in progress, done at once, or an error.
LEMMA NbFill == ASSUME NbInv, NB!Fill PROVE NbInv'
<1> DEFINE unread == {f \in NB!Files : nb_f_flags[f] = "0"}
           f == NB!Min(unread)
<1>1. /\ nb_pc = "fill" /\ nb_pc \in NbLoop
      /\ nb_nconn < maxnconn /\ nb_nlefttoconn > 0
  BY DEF NB!Fill, NB!MustFill, NbLoop
<1>2. unread # {} /\ f \in unread
  BY <1>1, NbUnread
<1>3. /\ NB!StartConnect(f) /\ nb_nconn' = nb_nconn + 1 /\ nb_nlefttoconn' = nb_nlefttoconn - 1
      /\ UNCHANGED nb_nlefttoread
  BY <1>2 DEF NB!Fill
<1>4. f \in NB!Files /\ nb_f_flags[f] = "0"
  BY <1>2
<1> HIDE DEF unread, f
<1>5. \/ NbFlagged(f, "F_CONNECTING") /\ nb_rset' = nb_rset \cup {f} /\ UNCHANGED nb_pc
      \/ NbFlagged(f, "F_READING") /\ nb_rset' = nb_rset \cup {f} /\ UNCHANGED nb_pc
      \/ nb_pc' = "connect_error" /\ UNCHANGED nb_f_flags
  BY <1>3 DEF NB!StartConnect, NB!WriteGetCmd, NbFlagged
<1>6. CASE nb_pc' = "connect_error" /\ UNCHANGED nb_f_flags
  BY <1>3, <1>6 DEF NbInv, NbTypes, NbLoop
<1>7. "F_CONNECTING" \in NbOpen /\ "F_READING" \in NbOpen
  BY DEF NbOpen
<1> QED
  BY <1>1, <1>3, <1>4, <1>5, <1>6, <1>7, NbOpens

\* Steps that give no file a flag.
LEMMA NbOther ==
  ASSUME NbInv,
         \/ NB!HomePage \/ NB!Filled \/ NB!Select \/ NB!ScanEnds \/ UNCHANGED nb_vars
         \/ \E f \in NB!Files :
              NB!Pass(f) \/ NB!Answer(f) \/ NB!Finish(f) \/ NB!Data(f) \/ NB!ResetByServer(f)
  PROVE  NbInv'
<1>1. /\ UNCHANGED <<nb_f_flags, nb_rset, nb_nconn, nb_nlefttoconn, nb_nlefttoread>>
      /\ nb_pc' \in NbLoop \cup {"exit", "connect_error", "writen_error", "read_error"}
      /\ nb_pc' \in NbLoop => nb_pc \in NbLoop
  <2>1. nb_pc \in NbLoop \cup {"exit", "connect_error", "writen_error", "read_error"}
    BY DEF NbInv, NbTypes
  <2>2. CASE \/ NB!HomePage \/ NB!Filled \/ NB!Select \/ NB!ScanEnds \/ UNCHANGED nb_vars
    BY <2>1, <2>2 DEF NB!HomePage, NB!Filled, NB!Select, NB!ScanEnds, NB!fdsets, NB!counters,
                      nb_vars, NbLoop
  <2>3. ASSUME NEW f \in NB!Files, NB!Pass(f)
        PROVE  UNCHANGED <<nb_f_flags, nb_rset, nb_nconn, nb_nlefttoconn, nb_nlefttoread, nb_pc>>
    BY <2>3 DEF NB!Pass, NB!fdsets, NB!counters
  <2>4. ASSUME NEW f \in NB!Files, NB!Answer(f) \/ NB!Finish(f) \/ NB!Data(f) \/ NB!ResetByServer(f)
        PROVE  UNCHANGED <<nb_f_flags, nb_rset, nb_nconn, nb_nlefttoconn, nb_nlefttoread, nb_pc>>
    BY <2>4 DEF NB!Answer, NB!Finish, NB!Data, NB!ResetByServer, NB!Change, NB!fdsets, NB!counters
  <2> QED
    BY <2>1, <2>2, <2>3, <2>4
<1> QED
  BY <1>1 DEF NbInv, NbTypes, NbCounted

\* A connect is done: the file stays open.
LEMMA NbConnectDone == ASSUME NbInv, NEW f \in NB!Files, NB!ConnectDone(f) PROVE NbInv'
<1>1. /\ NbTypes /\ nb_pc = "scan" /\ nb_pc \in NbLoop /\ NbCounted
      /\ nb_f_flags[f] = "F_CONNECTING"
      /\ UNCHANGED <<nb_nconn, nb_nlefttoconn, nb_nlefttoread>>
  BY DEF NB!ConnectDone, NB!Scanning, NB!counters, NbInv, NbLoop
<1>2. \/ nb_pc' = "writen_error" /\ UNCHANGED nb_f_flags
      \/ NbFlagged(f, "F_READING") /\ nb_rset' = nb_rset \cup {f} /\ UNCHANGED nb_pc
  BY DEF NB!ConnectDone, NB!WriteGetCmd, NbFlagged
<1>3. CASE nb_pc' = "writen_error" /\ UNCHANGED nb_f_flags
  BY <1>1, <1>3 DEF NbInv, NbTypes, NbLoop
<1>4. CASE NbFlagged(f, "F_READING") /\ nb_rset' = nb_rset \cup {f} /\ UNCHANGED nb_pc
  <2>1. NbTypes' /\ "F_READING" \in NbFlags
    BY <1>1, <1>4 DEF NbTypes, NbFlagged, NbFlags
  <2>2. \A P : CountIn(nb_f_flags', P) =
                 CountIn(nb_f_flags, P) + (IF "F_READING" \in P THEN 1 ELSE 0)
                   - (IF nb_f_flags[f] \in P THEN 1 ELSE 0)
    BY ONLY <1>1, <1>4, <2>1, f \in NB!Files, NbCount
  <2>3. /\ CountIn(nb_f_flags', NbOpen) = CountIn(nb_f_flags, NbOpen)
        /\ CountIn(nb_f_flags', {"0"}) = CountIn(nb_f_flags, {"0"})
        /\ CountIn(nb_f_flags', {"F_DONE"}) = CountIn(nb_f_flags, {"F_DONE"})
    BY <1>1, <2>2, NbCountTypes DEF NbOpen
  <2>4. nb_rset' = {x \in NB!Files : nb_f_flags'[x] \in NbOpen}
    BY <1>1, <1>4 DEF NbCounted, NbTypes, NbFlagged, NbOpen
  <2> QED
    BY <1>1, <2>1, <2>3, <2>4 DEF NbInv, NbCounted
<1> QED
  BY <1>2, <1>3, <1>4

\* Data, or the end of the file, which changes nconn and nlefttoread.
LEMMA NbRead == ASSUME NbInv, NEW f \in NB!Files, NB!Read(f) PROVE NbInv'
<1>1. /\ NbTypes /\ nb_pc = "scan" /\ nb_pc \in NbLoop /\ NbCounted
      /\ nb_f_flags[f] = "F_READING"
  BY DEF NB!Read, NB!Scanning, NbInv, NbLoop
<1>2. \/ UNCHANGED <<nb_pc, nb_f_flags, nb_rset, nb_nconn, nb_nlefttoconn, nb_nlefttoread>>
      \/ UNCHANGED nb_pc /\ NB!FileDone(f)
      \/ /\ nb_pc' = "read_error"
         /\ UNCHANGED <<nb_f_flags, nb_rset, nb_nconn, nb_nlefttoconn, nb_nlefttoread>>
  BY DEF NB!Read, NB!counters
<1>3. CASE UNCHANGED <<nb_pc, nb_f_flags, nb_rset, nb_nconn, nb_nlefttoconn, nb_nlefttoread>>
  BY <1>3 DEF NbInv, NbTypes, NbCounted
<1>4. CASE /\ nb_pc' = "read_error"
           /\ UNCHANGED <<nb_f_flags, nb_rset, nb_nconn, nb_nlefttoconn, nb_nlefttoread>>
  BY <1>1, <1>4 DEF NbInv, NbTypes, NbLoop
<1>5. CASE UNCHANGED nb_pc /\ NB!FileDone(f)
  <2>1. /\ NbFlagged(f, "F_DONE") /\ nb_rset' = nb_rset \ {f}
        /\ nb_nconn' = nb_nconn - 1 /\ nb_nlefttoread' = nb_nlefttoread - 1
        /\ UNCHANGED nb_nlefttoconn
    BY <1>5 DEF NB!FileDone, NbFlagged
  <2>2. NbTypes' /\ "F_DONE" \in NbFlags
    BY <1>1, <1>5, <2>1 DEF NbTypes, NbFlagged, NbFlags
  <2>3. \A P : CountIn(nb_f_flags', P) =
                 CountIn(nb_f_flags, P) + (IF "F_DONE" \in P THEN 1 ELSE 0)
                   - (IF nb_f_flags[f] \in P THEN 1 ELSE 0)
    BY ONLY <1>1, <2>1, <2>2, f \in NB!Files, NbCount
  <2>4. /\ CountIn(nb_f_flags', NbOpen) = CountIn(nb_f_flags, NbOpen) - 1
        /\ CountIn(nb_f_flags', {"0"}) = CountIn(nb_f_flags, {"0"})
        /\ CountIn(nb_f_flags', {"F_DONE"}) = CountIn(nb_f_flags, {"F_DONE"}) + 1
    BY <1>1, <2>3, NbCountTypes DEF NbOpen
  <2>5. nb_rset' = {x \in NB!Files : nb_f_flags'[x] \in NbOpen}
    BY <1>1, <2>1 DEF NbCounted, NbTypes, NbFlagged, NbOpen
  <2>6. NbCounted'
    BY <1>1, <2>1, <2>4, <2>5, NbFiles, NbCountTypes DEF NbCounted, NbTypes
  <2> QED
    BY <2>2, <2>6 DEF NbInv
<1> QED
  BY <1>2, <1>3, <1>4, <1>5

\* Every step.
LEMMA NbStep == ASSUME NbInv, [NB!Next]_nb_vars PROVE NbInv'
<1>1. \/ NB!HomePage \/ NB!Filled \/ NB!Select \/ NB!ScanEnds \/ UNCHANGED nb_vars
      \/ \E f \in NB!Files :
           NB!Pass(f) \/ NB!Answer(f) \/ NB!Finish(f) \/ NB!Data(f) \/ NB!ResetByServer(f)
      \/ NB!Fill
      \/ \E f \in NB!Files : NB!ConnectDone(f) \/ NB!Read(f)
  BY DEF NB!Next, NB!Step
<1> QED
  BY <1>1, NbOther, NbFill, NbConnectDone, NbRead, Zenon

\* The invariant is what the run checks.
LEMMA NbMeans == NbInv => NB!CountersAgree
<1> SUFFICES ASSUME NbInv PROVE NB!CountersAgree
  OBVIOUS
<1>1. DOMAIN nb_f_flags = NB!Files /\ nb_pc # "nothing_found"
  BY DEF NbInv, NbTypes, NbLoop
<1>2. \A P : NB!With(P) = CountIn(nb_f_flags, P)
  BY <1>1 DEF NB!With, CountIn, NB!Cardinality, Cardinality
<1> QED
  BY <1>1, <1>2 DEF NbInv, NbCounted, NbLoop, NbOpen, NB!CountersAgree

-----------------------------------------------------------------------------
(* The TCP daytime programs                                                  *)

\* A client waits in the queue; and none does twice.
DtIn(q, c) == \E k \in 1 .. Len(q) : q[k] = c
DtOnce(q)  == \A j, k \in 1 .. Len(q) : q[j] = q[k] => j = k

LEMMA DtAppend ==
  ASSUME NEW T, NEW q \in Seq(T), NEW c \in T
  PROVE  /\ Append(q, c) \in Seq(T)
         /\ \A x : DtIn(Append(q, c), x) <=> DtIn(q, x) \/ x = c
         /\ DtOnce(q) /\ ~DtIn(q, c) => DtOnce(Append(q, c))
<1> DEFINE a == Append(q, c)
           n == Len(q)
<1>1. /\ a \in Seq(T) /\ Len(a) = n + 1 /\ n \in Nat
      /\ \A k \in 1 .. n : a[k] = q[k]
      /\ a[n + 1] = c
  OBVIOUS
<1> HIDE DEF a, n
<1>2. \A x : DtIn(a, x) <=> DtIn(q, x) \/ x = c
  <2>1. 1 .. n + 1 = (1 .. n) \cup {n + 1}
    BY <1>1
  <2>2. Len(q) = n
    BY DEF n
  <2> QED
    BY <1>1, <2>1, <2>2 DEF DtIn
<1>3. ASSUME DtOnce(q), ~DtIn(q, c) PROVE DtOnce(a)
  <2>1. \A k \in 1 .. n + 1 : k \in 1 .. n \/ k = n + 1
    BY <1>1
  <2>2. Len(q) = n
    BY DEF n
  <2> QED
    BY <1>1, <1>3, <2>1, <2>2 DEF DtIn, DtOnce
<1> QED
  BY <1>1, <1>2, <1>3 DEF a

LEMMA DtTail ==
  ASSUME NEW T, NEW q \in Seq(T), q # <<>>, DtOnce(q)
  PROVE  /\ Tail(q) \in Seq(T) /\ Head(q) \in T /\ DtIn(q, Head(q)) /\ DtOnce(Tail(q))
         /\ \A x : DtIn(Tail(q), x) <=> DtIn(q, x) /\ x # Head(q)
<1> DEFINE t == Tail(q)
           n == Len(q)
<1>1. /\ t \in Seq(T) /\ Head(q) = q[1] /\ q[1] \in T
      /\ n \in Nat \ {0} /\ Len(t) = n - 1
      /\ \A k \in 1 .. n - 1 : t[k] = q[k + 1]
  BY HeadTailProperties
<1>2. Len(q) = n
  OBVIOUS
<1> HIDE DEF t, n
<1>3. DtOnce(t)
  <2>1. \A k \in 1 .. n - 1 : k + 1 \in 1 .. n
    BY <1>1
  <2> QED
    BY <1>1, <1>2, <2>1 DEF DtOnce
<1>4. \A x : DtIn(t, x) => DtIn(q, x) /\ x # q[1]
  <2>1. \A k \in 1 .. n - 1 : k + 1 \in 1 .. n /\ k + 1 # 1 /\ 1 \in 1 .. n
    BY <1>1
  <2> QED
    BY <1>1, <1>2, <2>1 DEF DtIn, DtOnce
<1>5. \A x : DtIn(q, x) /\ x # q[1] => DtIn(t, x)
  <2>1. SUFFICES ASSUME NEW k \in 1 .. n, q[k] # q[1] PROVE DtIn(t, q[k])
    BY <1>2 DEF DtIn
  <2>2. k - 1 \in 1 .. n - 1 /\ (k - 1) + 1 = k
    BY <1>1, <2>1
  <2>3. t[k - 1] = q[k]
    BY <1>1, <2>2
  <2> QED
    BY <1>1, <2>2, <2>3 DEF DtIn
<1>6. DtIn(q, q[1])
  BY <1>1, <1>2 DEF DtIn
<1> QED
  BY <1>1, <1>3, <1>4, <1>5, <1>6 DEF t

DtStates == {"connect", "read", "reread", "exited", "failed"}
DtEnds   == {"open", "FIN", "RST"}
DtGones  == {"no", "FIN", "RST"}

DtTypes ==
  /\ dt_addresses \in Seq({"accepts", "refuses"}) /\ Len(dt_addresses) \in 1 .. MaxAddresses
  /\ dt_cli \in [Clients -> DtStates] /\ dt_tried \in [Clients -> 0 .. Len(dt_addresses)]
  /\ dt_printed \in [Clients -> Nat] /\ dt_peeked \in [Clients -> Nat]
  /\ dt_place \in {"accept", "write", "died"}
  /\ dt_served \subseteq Clients /\ dt_written \in [Clients -> Nat] /\ dt_queue \in Seq(Clients)
  /\ dt_inbox \in [Clients -> Nat]
  /\ dt_end \in [Clients -> DtEnds] /\ dt_gone \in [Clients -> DtGones]

\* A connection is queued or served once, after the client's connect and before
\* its end.
DtQueued ==
  /\ DtOnce(dt_queue)
  /\ \A c \in Clients :
       /\ DtIn(dt_queue, c) => c \notin dt_served
       /\ DtIn(dt_queue, c) \/ c \in dt_served => dt_end[c] = "open" /\ dt_cli[c] # "connect"
       /\ dt_cli[c] = "connect" => dt_end[c] = "open"

\* What was written is printed or in the inbox, unless it got lost: the client has
\* gone, or the server lingers.  A client that is not killed has not gone.
DtBytes ==
  \A c \in Clients :
    /\ dt_written[c] <= Text
    /\ dt_server \notin DT!Bytewise => dt_written[c] \in {0, Text}
    /\ dt_printed[c] + dt_inbox[c] <= dt_written[c]
    /\ dt_gone[c] = "no" /\ dt_server \notin DT!Lingers =>
         dt_printed[c] + dt_inbox[c] = dt_written[c]
    /\ dt_cli[c] # "failed" => dt_gone[c] = "no"
    /\ dt_end[c] = "FIN" =>
         dt_place = "died" \/ (dt_written[c] = Text /\ dt_server \notin DT!Lingers)

\* A client that still connects has been refused at every address so far.
DtRefused ==
  \A c \in Clients : dt_cli[c] = "connect" =>
    \A k \in 1 .. dt_tried[c] : dt_place = "died" \/ dt_addresses[k] = "refuses"

\* A client that reads has tried an address.
DtTried == \A c \in Clients : dt_cli[c] \in {"read", "reread", "exited"} => dt_tried[c] > 0

DtInv ==
  /\ DtTypes /\ DtQueued /\ DtBytes /\ DtRefused /\ DtTried
  /\ DT!ExitMeansText /\ DT!FirstThatAccepts /\ DT!PeekedIsThere

LEMMA DtInit == DT!Init => DtInv
<1> SUFFICES ASSUME DT!Init PROVE DtInv
  OBVIOUS
<1>1. /\ Text \in Nat \ {0} /\ MaxAddresses \in Nat \ {0}
  BY BoundsAssumption
<1>2. dt_addresses \in Seq({"accepts", "refuses"}) /\ Len(dt_addresses) \in 1 .. MaxAddresses
  <2>1. PICK n \in 1 .. (IF dt_client \in DT!Lists THEN MaxAddresses ELSE 1) :
          dt_addresses \in [1 .. n -> {"accepts", "refuses"}]
    BY DEF DT!Init
  <2>2. n \in 1 .. MaxAddresses
    BY <1>1
  <2> QED
    BY <2>1, <2>2
<1>3. /\ dt_cli = [c \in Clients |-> "connect"] /\ dt_tried = [c \in Clients |-> 0]
      /\ dt_printed = [c \in Clients |-> 0] /\ dt_peeked = [c \in Clients |-> 0]
      /\ dt_place = "accept" /\ dt_served = {} /\ dt_written = [c \in Clients |-> 0]
      /\ dt_queue = <<>> /\ dt_inbox = [c \in Clients |-> 0]
      /\ dt_end = [c \in Clients |-> "open"] /\ dt_gone = [c \in Clients |-> "no"]
  BY DEF DT!Init
<1>4. 0 \in 0 .. Len(dt_addresses)
  BY <1>2
<1>5. DtTypes
  BY <1>2, <1>3, <1>4 DEF DtTypes, DtStates, DtEnds, DtGones
<1>6. DtQueued
  BY <1>3 DEF DtQueued, DtIn, DtOnce
<1>7. DtBytes
  BY <1>1, <1>3 DEF DtBytes
<1> QED
  BY <1>3, <1>5, <1>6, <1>7
  DEF DtInv, DtRefused, DtTried, DT!ExitMeansText, DT!FirstThatAccepts, DT!PeekedIsThere

\* An action of a client, of the server, or the end of a process.
LEMMA DtActions ==
  ASSUME [DT!Next]_dt_vars
  PROVE  \/ DT!Accept \/ DT!ServerKilled \/ UNCHANGED dt_vars
         \/ \E c \in Clients :
              \/ DT!Connect(c) \/ DT!Peek(c) \/ DT!ReadText(c) \/ DT!Reread(c) \/ DT!ReadEnd(c)
              \/ DT!Killed(c) \/ DT!Write(c) \/ DT!WriteFails(c) \/ DT!Close(c)
<1>1. ASSUME NEW c \in Clients, DT!ClientStep(c)
      PROVE  DT!Connect(c) \/ DT!Peek(c) \/ DT!ReadText(c) \/ DT!Reread(c) \/ DT!ReadEnd(c)
  BY <1>1
  DEF DT!ClientStep, DT!Daytimetcpcli, DT!Daytimetcpcli1, DT!Daytimetcpcli2, DT!Daytimetcpcli3,
      DT!Daytimetcpcliv6, DT!MyDaytimetcpcli, DT!MyExerciseCli, DT!UnixDaytimetcpcli,
      DT!NamesDaytimetcpcli, DT!NamesDaytimetcpcli1, DT!NamesDaytimetcpcli2,
      DT!NamesDaytimetcpcli3, DT!MyDaytimetcpcli1, DT!MyDaytimetcpcli2, DT!AdvioDaytimetcpcli,
      DT!ConnectRead, DT!ReadLoop
<1>2. ASSUME DT!ServerStep PROVE DT!Serve
  BY <1>2
  DEF DT!ServerStep, DT!Daytimetcpsrv, DT!Daytimetcpsrv1, DT!Daytimetcpsrv2, DT!Daytimetcpsrv3,
      DT!Daytimetcpsrvv6, DT!MyDaytimetcpsrv, DT!MyExerciseSrv, DT!MyCh04Srv1,
      DT!MyDaytimetcpsrv1, DT!MyDaytimetcpsrv2, DT!NamesDaytimetcpsrv1, DT!NamesDaytimetcpsrv2,
      DT!NamesDaytimetcpsrv3, DT!NamesDaytimetcpsrv4, DT!InetdDaytimetcpsrv2,
      DT!InetdDaytimetcpsrv3, DT!UnixDaytimetcpsrv2
<1> QED
  BY <1>1, <1>2 DEF DT!Next, DT!Serve

\* connect to the next address.
LEMMA DtConnect == ASSUME DtInv, NEW c \in Clients, DT!Connect(c) PROVE DtInv'
<1>1. /\ DtTypes /\ dt_cli[c] = "connect"
      /\ UNCHANGED <<dt_server, dt_addresses, dt_printed, dt_peeked, dt_place, dt_served, dt_written,
                     dt_inbox, dt_end, dt_gone>>
  BY DEF DT!Connect, DT!programs, DtInv
<1>2. \/ /\ dt_tried[c] = Len(dt_addresses) /\ dt_cli' = [dt_cli EXCEPT ![c] = "failed"]
         /\ UNCHANGED <<dt_tried, dt_queue>>
      \/ /\ dt_tried[c] # Len(dt_addresses) /\ dt_tried' = [dt_tried EXCEPT ![c] = dt_tried[c] + 1]
         /\ dt_addresses[dt_tried[c] + 1] = "accepts" /\ dt_place # "died"
         /\ dt_cli' = [dt_cli EXCEPT ![c] = "read"] /\ dt_queue' = Append(dt_queue, c)
      \/ /\ dt_tried[c] # Len(dt_addresses) /\ dt_tried' = [dt_tried EXCEPT ![c] = dt_tried[c] + 1]
         /\ dt_addresses[dt_tried[c] + 1] # "accepts" \/ dt_place = "died"
         /\ UNCHANGED <<dt_cli, dt_queue>>
  BY <1>1 DEF DT!Connect, DT!To, DtTypes
<1>3. /\ dt_tried[c] \in 0 .. Len(dt_addresses) /\ Len(dt_addresses) \in Nat
      /\ "failed" \in DtStates /\ "read" \in DtStates
      /\ dt_tried[c] # Len(dt_addresses) => dt_tried[c] + 1 \in 1 .. Len(dt_addresses)
      /\ \A k \in 1 .. Len(dt_addresses) : dt_addresses[k] \in {"accepts", "refuses"}
  <2>1. dt_tried[c] \in 0 .. Len(dt_addresses) /\ Len(dt_addresses) \in Nat
    BY <1>1 DEF DtTypes
  <2>2. \A k \in 1 .. Len(dt_addresses) : dt_addresses[k] \in {"accepts", "refuses"}
    BY <1>1, ElementOfSeq DEF DtTypes
  <2> QED
    BY <2>1, <2>2 DEF DtStates
<1>4. /\ ~DtIn(dt_queue, c) /\ c \notin dt_served /\ dt_end[c] = "open" /\ DtOnce(dt_queue)
  BY <1>1 DEF DtInv, DtQueued
<1>5. /\ dt_queue' = dt_queue \/ (dt_queue' = Append(dt_queue, c) /\ dt_cli'[c] # "connect")
      /\ dt_queue' \in Seq(Clients) /\ DtOnce(dt_queue')
      /\ \A x : DtIn(dt_queue', x) <=> DtIn(dt_queue, x) \/ (x = c /\ dt_queue' # dt_queue)
  <2>1. dt_queue \in Seq(Clients)
    BY <1>1 DEF DtTypes
  <2>2. CASE dt_queue' = dt_queue
    BY <1>4, <2>1, <2>2
  <2>3. CASE dt_queue' = Append(dt_queue, c) /\ dt_cli' = [dt_cli EXCEPT ![c] = "read"]
    <3>1. Append(dt_queue, c) # dt_queue /\ dt_cli'[c] # "connect"
      BY <1>1, <2>1, <2>3 DEF DtTypes
    <3>2. /\ Append(dt_queue, c) \in Seq(Clients) /\ DtOnce(Append(dt_queue, c))
          /\ \A x : DtIn(Append(dt_queue, c), x) <=> DtIn(dt_queue, x) \/ x = c
      BY <1>4, <2>1, DtAppend
    <3> QED
      BY <2>3, <3>1, <3>2
  <2> QED
    BY <1>2, <2>2, <2>3
<1>6. /\ dt_cli' \in [Clients -> DtStates] /\ dt_tried' \in [Clients -> 0 .. Len(dt_addresses)]
  <2>1. dt_cli \in [Clients -> DtStates] /\ dt_tried \in [Clients -> 0 .. Len(dt_addresses)]
    BY <1>1 DEF DtTypes
  <2>2. dt_tried[c] # Len(dt_addresses) => dt_tried[c] + 1 \in 0 .. Len(dt_addresses)
    BY <1>3
  <2> QED
    BY <1>2, <1>3, <2>1, <2>2
<1>7. DtTypes'
  BY <1>1, <1>5, <1>6 DEF DtTypes
<1>8. \A x \in Clients : x # c => dt_cli'[x] = dt_cli[x] /\ dt_tried'[x] = dt_tried[x]
  BY <1>1, <1>2 DEF DtTypes
<1>9. dt_cli'[c] \in {"connect", "read", "failed"}
  BY <1>1, <1>2 DEF DtTypes
<1>10. DtQueued'
  BY <1>1, <1>4, <1>5, <1>8, <1>9 DEF DtInv, DtQueued
<1>11. DtBytes' /\ DT!ExitMeansText' /\ DT!PeekedIsThere'
  <2>1. dt_gone[c] = "no"
    BY <1>1 DEF DtInv, DtBytes
  <2> QED
    BY <1>1, <1>8, <1>9, <2>1 DEF DtInv, DtBytes, DT!ExitMeansText, DT!PeekedIsThere
<1>12. DtRefused' /\ DtTried' /\ DT!FirstThatAccepts'
  <2>1. \A k \in 1 .. dt_tried[c] : dt_place = "died" \/ dt_addresses[k] = "refuses"
    BY <1>1 DEF DtInv, DtRefused
  <2>2. /\ dt_cli'[c] = "connect" =>
             \A k \in 1 .. dt_tried'[c] : dt_place = "died" \/ dt_addresses[k] = "refuses"
        /\ dt_cli'[c] = "read" => dt_tried'[c] > 0 /\ dt_addresses[dt_tried'[c]] = "accepts"
        /\ \A k \in 1 .. dt_tried'[c] - 1 : dt_place = "died" \/ dt_addresses[k] = "refuses"
    <3>1. dt_tried'[c] = dt_tried[c] \/ dt_tried'[c] = dt_tried[c] + 1
      BY <1>1, <1>2 DEF DtTypes
    <3>2. \A k \in 1 .. dt_tried'[c] - 1 : k \in 1 .. dt_tried[c]
      BY <1>3, <3>1
    <3>3. \A k \in 1 .. dt_tried'[c] : k \in 1 .. dt_tried[c] \/ k = dt_tried[c] + 1
      BY <1>3, <3>1
    <3>4. CASE dt_cli' = [dt_cli EXCEPT ![c] = "failed"] /\ dt_tried' = dt_tried
      BY <1>1, <2>1, <3>2, <3>4 DEF DtTypes
    <3>5. CASE /\ dt_tried' = [dt_tried EXCEPT ![c] = dt_tried[c] + 1]
               /\ dt_addresses[dt_tried[c] + 1] = "accepts"
               /\ dt_cli' = [dt_cli EXCEPT ![c] = "read"]
      <4>1. dt_tried'[c] = dt_tried[c] + 1 /\ dt_cli'[c] = "read"
        BY <1>1, <3>5 DEF DtTypes
      <4> QED
        BY <1>3, <2>1, <3>2, <3>5, <4>1
    <3>6. CASE /\ dt_tried' = [dt_tried EXCEPT ![c] = dt_tried[c] + 1]
               /\ dt_tried[c] # Len(dt_addresses)
               /\ dt_addresses[dt_tried[c] + 1] # "accepts" \/ dt_place = "died"
               /\ dt_cli' = dt_cli
      <4>1. dt_addresses[dt_tried[c] + 1] = "refuses" \/ dt_place = "died"
        BY <1>3, <3>6
      <4>2. dt_cli'[c] = "connect"
        BY <1>1, <3>6
      <4> QED
        BY <2>1, <3>2, <3>3, <4>1, <4>2
    <3> QED
      BY <1>2, <3>4, <3>5, <3>6
  <2> QED
    BY <1>1, <1>8, <1>9, <2>2 DEF DtInv, DtRefused, DtTried, DT!FirstThatAccepts
<1> QED
  BY <1>7, <1>10, <1>11, <1>12 DEF DtInv

\* MSG_PEEK, then FIONREAD.
LEMMA DtPeek == ASSUME DtInv, NEW c \in Clients, DT!Peek(c) PROVE DtInv'
<1>1. /\ DtTypes /\ dt_cli[c] = "read" /\ dt_cli' = [dt_cli EXCEPT ![c] = "reread"]
      /\ UNCHANGED <<dt_server, dt_addresses, dt_tried, dt_printed, dt_place, dt_served, dt_written,
                     dt_queue, dt_inbox, dt_end, dt_gone>>
  BY DEF DT!Peek, DT!To, DT!programs, DT!serverVars, DtInv
<1>2. PICK n \in 1 .. dt_inbox[c] : dt_peeked' = [dt_peeked EXCEPT ![c] = n]
  BY DEF DT!Peek
<1>3. n \in Nat /\ n <= dt_inbox[c]
  BY <1>1, <1>2 DEF DtTypes
<1>4. DtTypes'
  BY <1>1, <1>2, <1>3 DEF DtTypes, DtStates
<1>5. /\ dt_cli'[c] = "reread" /\ dt_peeked'[c] = n
      /\ \A x \in Clients : x # c => dt_cli'[x] = dt_cli[x] /\ dt_peeked'[x] = dt_peeked[x]
  BY <1>1, <1>2 DEF DtTypes
<1>6. DtQueued' /\ DtBytes' /\ DtRefused' /\ DtTried' /\ DT!ExitMeansText' /\ DT!FirstThatAccepts'
  BY <1>1, <1>5
  DEF DtInv, DtQueued, DtBytes, DtRefused, DtTried, DT!ExitMeansText, DT!FirstThatAccepts
<1>7. DT!PeekedIsThere'
  BY <1>1, <1>3, <1>5 DEF DtInv, DT!PeekedIsThere
<1> QED
  BY <1>4, <1>6, <1>7 DEF DtInv

\* read, and what it returned is printed.
LEMMA DtRead == ASSUME DtInv, NEW c \in Clients, DT!ReadText(c) \/ DT!Reread(c) PROVE DtInv'
<1>1. /\ DtTypes /\ dt_cli[c] \in {"read", "reread"} /\ dt_cli' = [dt_cli EXCEPT ![c] = "read"]
      /\ UNCHANGED <<dt_server, dt_addresses, dt_tried, dt_peeked, dt_place, dt_served, dt_written,
                     dt_queue, dt_end, dt_gone>>
  BY DEF DT!ReadText, DT!Reread, DT!Read, DT!ReadsOn, DT!To, DT!programs, DT!serverVars, DtInv
<1>2. PICK n \in 1 .. dt_inbox[c] : /\ dt_inbox' = [dt_inbox EXCEPT ![c] = dt_inbox[c] - n]
                                    /\ dt_printed' = [dt_printed EXCEPT ![c] = dt_printed[c] + n]
  BY <1>1 DEF DT!ReadText, DT!Reread, DT!Read, DtTypes
<1>3. /\ dt_inbox[c] - n \in Nat /\ dt_printed[c] + n \in Nat
      /\ (dt_printed[c] + n) + (dt_inbox[c] - n) = dt_printed[c] + dt_inbox[c]
  <2>1. dt_printed[c] \in Nat /\ dt_inbox[c] \in Nat
    BY <1>1 DEF DtTypes
  <2> QED
    BY <2>1
<1>4. DtTypes'
  BY <1>1, <1>2, <1>3 DEF DtTypes, DtStates
<1>5. /\ dt_cli'[c] = "read" /\ dt_printed'[c] + dt_inbox'[c] = dt_printed[c] + dt_inbox[c]
      /\ \A x \in Clients : x # c => /\ dt_cli'[x] = dt_cli[x] /\ dt_inbox'[x] = dt_inbox[x]
                                     /\ dt_printed'[x] = dt_printed[x]
  BY <1>1, <1>2, <1>3 DEF DtTypes
<1>6. DtQueued' /\ DtRefused' /\ DtTried' /\ DT!FirstThatAccepts'
  BY <1>1, <1>5 DEF DtInv, DtQueued, DtRefused, DtTried, DT!FirstThatAccepts
<1>7. DtBytes' /\ DT!ExitMeansText' /\ DT!PeekedIsThere'
  BY <1>1, <1>5 DEF DtInv, DtBytes, DT!ExitMeansText, DT!PeekedIsThere
<1> QED
  BY <1>4, <1>6, <1>7 DEF DtInv

\* read returns 0, or fails.
LEMMA DtReadEnd == ASSUME DtInv, NEW c \in Clients, DT!ReadEnd(c) PROVE DtInv'
<1>1. /\ DtTypes /\ dt_cli[c] \in {"read", "reread"} /\ dt_inbox[c] = 0
      /\ \/ dt_end[c] = "FIN" /\ dt_cli' = [dt_cli EXCEPT ![c] = "exited"]
         \/ dt_cli' = [dt_cli EXCEPT ![c] = "failed"]
      /\ UNCHANGED <<dt_server, dt_addresses, dt_tried, dt_printed, dt_peeked, dt_place, dt_served,
                     dt_written, dt_queue, dt_inbox, dt_end, dt_gone>>
  BY DEF DT!ReadEnd, DT!To, DT!programs, DT!serverVars, DtInv
<1>2. DtTypes'
  BY <1>1 DEF DtTypes, DtStates
<1>3. /\ (dt_cli'[c] = "exited" /\ dt_end[c] = "FIN") \/ dt_cli'[c] = "failed"
      /\ \A x \in Clients : x # c => dt_cli'[x] = dt_cli[x]
  BY <1>1 DEF DtTypes
<1>4. DtQueued' /\ DtBytes' /\ DtRefused' /\ DtTried' /\ DT!FirstThatAccepts' /\ DT!PeekedIsThere'
  BY <1>1, <1>3
  DEF DtInv, DtQueued, DtBytes, DtRefused, DtTried, DT!PeekedIsThere, DT!FirstThatAccepts
<1>5. DT!ExitMeansText'
  <2>1. dt_end[c] = "FIN" =>
          dt_place = "died" \/ (dt_printed[c] = Text /\ dt_server \notin DT!Lingers)
    <3>1. /\ dt_gone[c] = "no" /\ dt_printed[c] \in Nat
          /\ dt_server \notin DT!Lingers => dt_printed[c] + 0 = dt_written[c]
      BY <1>1 DEF DtInv, DtBytes, DtTypes
    <3> QED
      BY <3>1 DEF DtInv, DtBytes
  <2> QED
    BY <1>1, <1>3, <2>1 DEF DtInv, DT!ExitMeansText
<1> QED
  BY <1>2, <1>4, <1>5 DEF DtInv

\* The client's process is killed.
LEMMA DtKilled == ASSUME DtInv, NEW c \in Clients, DT!Killed(c) PROVE DtInv'
<1>1. /\ DtTypes /\ dt_cli[c] \in {"read", "reread"} /\ dt_cli' = [dt_cli EXCEPT ![c] = "failed"]
      /\ dt_inbox' = [dt_inbox EXCEPT ![c] = 0]
      /\ UNCHANGED <<dt_server, dt_addresses, dt_tried, dt_printed, dt_peeked, dt_place, dt_served,
                     dt_written, dt_queue, dt_end>>
  BY DEF DT!Killed, DT!To, DT!programs, DT!serverVars, DtInv
<1>2. PICK how \in {"FIN", "RST"} : dt_gone' = [dt_gone EXCEPT ![c] = how]
  BY DEF DT!Killed
<1>3. DtTypes'
  BY <1>1, <1>2 DEF DtTypes, DtStates, DtGones
<1>4. /\ dt_cli'[c] = "failed" /\ dt_inbox'[c] = 0 /\ dt_gone'[c] # "no"
      /\ \A x \in Clients : x # c => /\ dt_cli'[x] = dt_cli[x] /\ dt_inbox'[x] = dt_inbox[x]
                                     /\ dt_gone'[x] = dt_gone[x]
  BY <1>1, <1>2 DEF DtTypes
<1>5. DtQueued' /\ DtRefused' /\ DtTried' /\ DT!FirstThatAccepts' /\ DT!PeekedIsThere'
        /\ DT!ExitMeansText'
  BY <1>1, <1>4
  DEF DtInv, DtQueued, DtRefused, DtTried, DT!PeekedIsThere, DT!FirstThatAccepts, DT!ExitMeansText
<1>6. DtBytes'
  <2>1. dt_printed[c] + 0 <= dt_written[c]
    BY <1>1 DEF DtInv, DtBytes, DtTypes
  <2> QED
    BY <1>1, <1>4, <2>1 DEF DtInv, DtBytes
<1> QED
  BY <1>3, <1>5, <1>6 DEF DtInv

\* accept, in a server that has one connection at a time, or in inetd.
LEMMA DtAccept == ASSUME DtInv, DT!Accept PROVE DtInv'
<1>1. /\ DtTypes /\ dt_place = "accept" /\ dt_queue # <<>>
      /\ dt_served' = dt_served \union {Head(dt_queue)} /\ dt_queue' = Tail(dt_queue)
      /\ dt_place' \in {"accept", "write"}
      /\ UNCHANGED <<dt_server, dt_addresses, dt_cli, dt_tried, dt_printed, dt_peeked, dt_written,
                     dt_inbox, dt_end, dt_gone>>
  BY DEF DT!Accept, DT!Keep, DT!programs, DT!clientVars, DtInv
<1>2. DtOnce(dt_queue) /\ dt_queue \in Seq(Clients)
  BY <1>1 DEF DtInv, DtQueued, DtTypes
<1>3. /\ Tail(dt_queue) \in Seq(Clients) /\ Head(dt_queue) \in Clients
      /\ DtIn(dt_queue, Head(dt_queue)) /\ DtOnce(Tail(dt_queue))
      /\ \A x : DtIn(Tail(dt_queue), x) <=> DtIn(dt_queue, x) /\ x # Head(dt_queue)
  BY <1>1, <1>2, DtTail
<1>4. DtTypes'
  BY <1>1, <1>3 DEF DtTypes
<1>5. DtQueued'
  BY <1>1, <1>3 DEF DtInv, DtQueued
<1>6. /\ DtBytes' /\ DtRefused' /\ DtTried' /\ DT!ExitMeansText' /\ DT!FirstThatAccepts'
      /\ DT!PeekedIsThere'
  BY <1>1 DEF DtInv, DtBytes, DtRefused, DtTried, DT!ExitMeansText, DT!FirstThatAccepts,
              DT!PeekedIsThere
<1> QED
  BY <1>4, <1>5, <1>6 DEF DtInv

\* Write of all of the text, or of a byte.
LEMMA DtWrite == ASSUME DtInv, NEW c \in Clients, DT!Write(c) PROVE DtInv'
<1> DEFINE n == DT!Amount(c)
<1>1. /\ DtTypes /\ dt_written[c] < Text
      /\ dt_written' = [dt_written EXCEPT ![c] = dt_written[c] + n]
      /\ UNCHANGED <<dt_server, dt_addresses, dt_cli, dt_tried, dt_printed, dt_peeked, dt_place,
                     dt_served, dt_queue, dt_end>>
  BY DEF DT!Write, DT!Keep, DT!programs, DT!clientVars, DtInv, DtTypes
<1>2. \/ /\ dt_gone[c] = "no" /\ dt_inbox' = [dt_inbox EXCEPT ![c] = dt_inbox[c] + n]
         /\ UNCHANGED dt_gone
      \/ /\ dt_gone[c] # "no" /\ UNCHANGED dt_inbox
         /\ \E g \in {"FIN", "RST"} : dt_gone' = [dt_gone EXCEPT ![c] = g]
  BY <1>1 DEF DT!Write, DtTypes
<1>3. /\ n \in Nat /\ Text \in Nat \ {0} /\ dt_written[c] + n <= Text
      /\ dt_server \notin DT!Bytewise => dt_written[c] + n = Text
  <2>1. Text \in Nat \ {0} /\ dt_written[c] \in Nat
    BY <1>1, BoundsAssumption DEF DtTypes
  <2>2. CASE dt_server \in DT!Bytewise
    BY <1>1, <2>1, <2>2 DEF DT!Amount
  <2>3. CASE dt_server \notin DT!Bytewise
    <3>1. dt_written[c] = 0
      BY <1>1, <2>1, <2>3 DEF DtInv, DtBytes
    <3> QED
      BY <2>1, <2>3, <3>1 DEF DT!Amount
  <2> QED
    BY <2>2, <2>3
<1> HIDE DEF n
<1>4. /\ dt_written[c] \in Nat /\ dt_inbox[c] \in Nat /\ dt_printed[c] \in Nat
      /\ dt_written[c] + n \in Nat /\ dt_inbox[c] + n \in Nat
  <2>1. dt_written[c] \in Nat /\ dt_inbox[c] \in Nat /\ dt_printed[c] \in Nat
    BY <1>1 DEF DtTypes
  <2> QED
    BY <1>3, <2>1
<1>5. DtTypes'
  <2>1. dt_inbox \in [Clients -> Nat] /\ dt_gone \in [Clients -> DtGones] /\ dt_written \in [Clients -> Nat]
    BY <1>1 DEF DtTypes
  <2>2. dt_written' \in [Clients -> Nat]
    BY <1>1, <1>4, <2>1
  <2>3. dt_inbox' \in [Clients -> Nat]
    BY <1>2, <1>4, <2>1
  <2>4. dt_gone' \in [Clients -> DtGones]
    BY <1>2, <2>1 DEF DtGones
  <2> QED
    BY <1>1, <2>2, <2>3, <2>4 DEF DtTypes
<1>6. /\ dt_written'[c] = dt_written[c] + n
      /\ \/ dt_gone[c] = "no" /\ dt_inbox'[c] = dt_inbox[c] + n /\ dt_gone'[c] = "no"
         \/ dt_gone[c] # "no" /\ dt_inbox'[c] = dt_inbox[c] /\ dt_gone'[c] # "no"
      /\ \A x \in Clients : x # c => /\ dt_written'[x] = dt_written[x] /\ dt_inbox'[x] = dt_inbox[x]
                                     /\ dt_gone'[x] = dt_gone[x]
  <2>1. dt_inbox \in [Clients -> Nat] /\ dt_gone \in [Clients -> DtGones] /\ dt_written \in [Clients -> Nat]
    BY <1>1 DEF DtTypes
  <2>2. \A x \in Clients : x # c => dt_written'[x] = dt_written[x]
    BY <1>1, <2>1
  <2>3. dt_written'[c] = dt_written[c] + n
    BY <1>1, <2>1
  <2>4. CASE dt_gone[c] = "no"
    BY <1>2, <2>1, <2>2, <2>3, <2>4
  <2>5. CASE dt_gone[c] # "no"
    BY <1>2, <2>1, <2>2, <2>3, <2>5
  <2> QED
    BY <2>4, <2>5
<1>7. DtQueued' /\ DtRefused' /\ DtTried' /\ DT!FirstThatAccepts' /\ DT!ExitMeansText'
  BY <1>1 DEF DtInv, DtQueued, DtRefused, DtTried, DT!FirstThatAccepts, DT!ExitMeansText
<1>8. DtBytes'
  <2>1. /\ dt_written'[c] <= Text
        /\ dt_server' \notin DT!Bytewise => dt_written'[c] \in {0, Text}
        /\ dt_printed'[c] + dt_inbox'[c] <= dt_written'[c]
        /\ dt_gone'[c] = "no" /\ dt_server' \notin DT!Lingers =>
             dt_printed'[c] + dt_inbox'[c] = dt_written'[c]
    <3>1. /\ dt_printed[c] + dt_inbox[c] <= dt_written[c]
          /\ dt_gone[c] = "no" /\ dt_server \notin DT!Lingers =>
               dt_printed[c] + dt_inbox[c] = dt_written[c]
      BY DEF DtInv, DtBytes
    <3>2. dt_printed'[c] = dt_printed[c] /\ dt_server' = dt_server
      BY <1>1
    <3> QED
      BY <1>3, <1>4, <1>6, <3>1, <3>2
  <2>2. /\ dt_cli'[c] # "failed" => dt_gone'[c] = "no"
        /\ dt_end'[c] = "FIN" =>
             dt_place' = "died" \/ (dt_written'[c] = Text /\ dt_server' \notin DT!Lingers)
    <3>1. dt_written[c] # Text
      BY <1>1, <1>3, <1>4
    <3> QED
      BY <1>1, <1>6, <3>1 DEF DtInv, DtBytes
  <2> QED
    BY <1>1, <1>6, <2>1, <2>2 DEF DtInv, DtBytes
<1>9. DT!PeekedIsThere'
  <2>1. dt_peeked[c] \in Nat
    BY <1>1 DEF DtTypes
  <2>2. dt_inbox'[c] >= dt_inbox[c]
    BY <1>3, <1>4, <1>6
  <2>3. dt_inbox'[c] \in Nat
    BY <1>4, <1>6
  <2>4. dt_inbox[c] >= dt_peeked[c] => dt_inbox'[c] >= dt_peeked[c]
    BY <1>4, <2>1, <2>2, <2>3
  <2> QED
    BY <1>1, <1>6, <2>4 DEF DtInv, DT!PeekedIsThere
<1> QED
  BY <1>5, <1>7, <1>8, <1>9 DEF DtInv

\* The end of the connections of a server that has died, or of one of inetd's.
LEMMA DtDies ==
  ASSUME DtInv, DtTypes', DtOnce(dt_queue'),
         UNCHANGED <<dt_server, dt_addresses, dt_cli, dt_tried, dt_printed, dt_peeked, dt_written,
                     dt_inbox, dt_gone>>,
         dt_place = "died" => dt_place' = "died",
         \A c \in Clients :
           /\ DtIn(dt_queue', c) => DtIn(dt_queue, c)
           /\ c \in dt_served' => c \in dt_served
           /\ dt_end'[c] # dt_end[c] => /\ dt_place' = "died"
                                        /\ DtIn(dt_queue, c) \/ c \in dt_served
                                        /\ ~DtIn(dt_queue', c) /\ c \notin dt_served'
  PROVE  DtInv'
<1>1. DtQueued'
  BY DEF DtInv, DtQueued
<1>2. /\ DtBytes' /\ DtRefused' /\ DtTried' /\ DT!ExitMeansText' /\ DT!FirstThatAccepts'
  BY DEF DtInv, DtBytes, DtRefused, DtTried, DT!ExitMeansText, DT!FirstThatAccepts
<1>3. DT!PeekedIsThere'
  BY DEF DtInv, DtQueued, DT!PeekedIsThere
<1> QED
  BY <1>1, <1>2, <1>3 DEF DtInv

LEMMA DtNoQueue == DtOnce(<<>>) /\ \A c : ~DtIn(<<>>, c)
BY DEF DtOnce, DtIn

LEMMA DtWriteFails == ASSUME DtInv, NEW c \in Clients, DT!WriteFails(c) PROVE DtInv'
<1>1. /\ DtTypes
      /\ UNCHANGED <<dt_server, dt_addresses, dt_cli, dt_tried, dt_printed, dt_peeked, dt_written,
                     dt_inbox, dt_gone>>
  BY DEF DT!WriteFails, DT!Keep, DT!programs, DT!clientVars, DtInv
<1>2. CASE dt_server \in DT!PerProcess
  <2>1. dt_served' = dt_served \ {c} /\ UNCHANGED <<dt_place, dt_queue, dt_end>>
    BY <1>2 DEF DT!WriteFails
  <2>2. DtTypes'
    BY <1>1, <2>1 DEF DtTypes
  <2>3. DtOnce(dt_queue')
    BY <2>1 DEF DtInv, DtQueued
  <2> QED
    BY <1>1, <2>1, <2>2, <2>3, DtDies
<1>3. CASE dt_server \notin DT!PerProcess
  <2>1. /\ dt_place' = "died" /\ dt_served' = {} /\ dt_queue' = <<>>
        /\ dt_end' = [x \in Clients |-> IF DtIn(dt_queue, x) THEN "RST" ELSE dt_end[x]]
    BY <1>3 DEF DT!WriteFails, DtIn
  <2>2. dt_end' \in [Clients -> DtEnds]
    BY <1>1, <2>1 DEF DtTypes, DtEnds
  <2>3. DtTypes'
    BY <1>1, <2>1, <2>2 DEF DtTypes
  <2>4. \A x \in Clients : dt_end'[x] # dt_end[x] => DtIn(dt_queue, x)
    BY <2>1
  <2> QED
    BY <1>1, <2>1, <2>3, <2>4, DtNoQueue, DtDies
<1> QED
  BY <1>2, <1>3

LEMMA DtServerKilled == ASSUME DtInv, DT!ServerKilled PROVE DtInv'
<1>1. /\ DtTypes /\ dt_place' = "died" /\ dt_served' = {} /\ dt_queue' = <<>>
      /\ UNCHANGED <<dt_server, dt_addresses, dt_cli, dt_tried, dt_printed, dt_peeked, dt_written,
                     dt_inbox, dt_gone>>
  BY DEF DT!ServerKilled, DT!programs, DT!clientVars, DtInv
<1>2. PICK how \in IF dt_server \in DT!Lingers THEN {"FIN", "RST"} ELSE {"FIN"} :
        dt_end' = [x \in Clients |-> CASE x \in dt_served -> how
                                       [] DtIn(dt_queue, x) -> "RST"
                                       [] OTHER -> dt_end[x]]
  BY DEF DT!ServerKilled, DtIn
<1>3. \A x \in Clients : /\ x \in dt_served => dt_end'[x] = how
                         /\ DtIn(dt_queue, x) => dt_end'[x] = "RST"
                         /\ x \notin dt_served /\ ~DtIn(dt_queue, x) => dt_end'[x] = dt_end[x]
  <2>1. \A x \in Clients : DtIn(dt_queue, x) => x \notin dt_served
    BY DEF DtInv, DtQueued
  <2> QED
    BY <1>2, <2>1
<1>4. dt_end' \in [Clients -> DtEnds]
  <2>1. dt_end' = [x \in Clients |-> dt_end'[x]]
    BY <1>2
  <2>2. \A x \in Clients : dt_end'[x] \in DtEnds
    BY <1>1, <1>3 DEF DtTypes, DtEnds
  <2> QED
    BY <2>1, <2>2
<1>5. DtTypes'
  BY <1>1, <1>4 DEF DtTypes
<1> QED
  BY <1>1, <1>3, <1>5, DtNoQueue, DtDies

\* The server closes a connection to which it has written all.
LEMMA DtClose == ASSUME DtInv, NEW c \in Clients, DT!Close(c) PROVE DtInv'
<1>1. /\ DtTypes /\ dt_written[c] = Text /\ c \in dt_served /\ dt_place # "died"
      /\ dt_served' = dt_served \ {c} /\ dt_place' = "accept"
      /\ UNCHANGED <<dt_server, dt_addresses, dt_cli, dt_tried, dt_printed, dt_peeked, dt_written,
                     dt_queue, dt_gone>>
  BY DEF DT!Close, DT!Keep, DT!programs, DT!clientVars, DtInv
<1>2. \/ /\ dt_server \in DT!Lingers /\ dt_end' = [dt_end EXCEPT ![c] = "RST"]
         /\ UNCHANGED dt_inbox \/ dt_inbox' = [dt_inbox EXCEPT ![c] = 0]
      \/ /\ dt_server \notin DT!Lingers /\ dt_end' = [dt_end EXCEPT ![c] = "FIN"]
         /\ UNCHANGED dt_inbox
  BY DEF DT!Close
<1>3. DtTypes'
  <2>1. dt_end \in [Clients -> DtEnds] /\ dt_inbox \in [Clients -> Nat]
    BY <1>1 DEF DtTypes
  <2>2. dt_end' \in [Clients -> DtEnds] /\ dt_inbox' \in [Clients -> Nat]
    BY <1>2, <2>1 DEF DtEnds
  <2> QED
    BY <1>1, <2>2 DEF DtTypes
<1>4. /\ dt_server \in DT!Lingers => dt_end'[c] = "RST"
      /\ dt_server \notin DT!Lingers => dt_end'[c] = "FIN" /\ dt_inbox'[c] = dt_inbox[c]
      /\ dt_inbox'[c] \in {0, dt_inbox[c]}
      /\ \A x \in Clients : x # c => dt_end'[x] = dt_end[x] /\ dt_inbox'[x] = dt_inbox[x]
  BY <1>1, <1>2 DEF DtTypes
<1>5. dt_end[c] = "open" /\ ~DtIn(dt_queue, c) /\ dt_cli[c] # "connect"
  BY <1>1 DEF DtInv, DtQueued
<1>6. DtQueued'
  BY <1>1, <1>4, <1>5 DEF DtInv, DtQueued
<1>7. DtRefused' /\ DtTried' /\ DT!FirstThatAccepts' /\ DT!ExitMeansText'
  BY <1>1 DEF DtInv, DtRefused, DtTried, DT!FirstThatAccepts, DT!ExitMeansText
<1>8. DT!PeekedIsThere'
  BY <1>1, <1>4, <1>5 DEF DtInv, DT!PeekedIsThere
<1>9. DtBytes'
  <2>1. dt_printed[c] + dt_inbox'[c] <= dt_written[c]
    <3>1. dt_printed[c] \in Nat /\ dt_inbox[c] \in Nat /\ dt_written[c] \in Nat
      BY <1>1 DEF DtTypes
    <3>2. dt_printed[c] + dt_inbox[c] <= dt_written[c]
      BY DEF DtInv, DtBytes
    <3> QED
      BY <1>4, <3>1, <3>2
  <2> QED
    BY <1>1, <1>4, <2>1 DEF DtInv, DtBytes
<1> QED
  BY <1>3, <1>6, <1>7, <1>8, <1>9 DEF DtInv

\* Every step.
LEMMA DtStep == ASSUME DtInv, [DT!Next]_dt_vars PROVE DtInv'
<1>1. CASE UNCHANGED dt_vars
  BY <1>1 DEF dt_vars, DtInv, DtTypes, DtQueued, DtBytes, DtRefused, DtTried, DT!ExitMeansText,
              DT!FirstThatAccepts, DT!PeekedIsThere
<1> QED
  BY <1>1, DtActions, DtConnect, DtPeek, DtRead, DtReadEnd, DtKilled, DtAccept, DtWrite,
     DtWriteFails, DtServerKilled, DtClose, Zenon

\* The invariant is what the run checks.
LEMMA DtMeans == DtInv => DT!DaytimeTold
<1> SUFFICES ASSUME DtInv PROVE DT!DaytimeTold
  OBVIOUS
<1>1. DtTypes
  BY DEF DtInv
<1>2. Text \in Nat /\ MaxAddresses \in Nat
  BY BoundsAssumption
<1>3. dt_printed \in [Clients -> 0 .. Text] /\ dt_inbox \in [Clients -> 0 .. Text]
  <2>1. \A c \in Clients : dt_printed[c] \in 0 .. Text /\ dt_inbox[c] \in 0 .. Text
    <3>1. SUFFICES ASSUME NEW c \in Clients
                   PROVE  dt_printed[c] \in 0 .. Text /\ dt_inbox[c] \in 0 .. Text
      OBVIOUS
    <3>2. dt_printed[c] \in Nat /\ dt_inbox[c] \in Nat /\ dt_written[c] \in Nat
      BY <1>1 DEF DtTypes
    <3>3. dt_printed[c] + dt_inbox[c] <= dt_written[c] /\ dt_written[c] <= Text
      BY DEF DtInv, DtBytes
    <3> QED
      BY <1>2, <3>2, <3>3
  <2> QED
    BY <1>1, <2>1 DEF DtTypes
<1>4. dt_tried \in [Clients -> 0 .. MaxAddresses]
  <2>1. 0 .. Len(dt_addresses) \subseteq 0 .. MaxAddresses
    BY <1>1, <1>2 DEF DtTypes
  <2> QED
    BY <1>1, <2>1 DEF DtTypes
<1>5. DT!TypeOK
  BY <1>1, <1>3, <1>4 DEF DT!TypeOK, DtTypes, DtStates, DtEnds, DtGones
<1> QED
  BY <1>5 DEF DtInv, DT!DaytimeTold

-----------------------------------------------------------------------------
(* The servers with a thread per connection, and their clients               *)

TsStates  == {"connect", "linger", "write", "read", "close", "done", "failed", "killed"}
TsThreads == {"none", "start", "read", "write", "close", "ended"}

\* A connection takes a turn of its child (owner 1 .. nchildren), or it is one of
\* those that the third child resets (owner 0); a turn is taken once.
TsFits(m, owner, turn) ==
  /\ owner \in [1 .. m -> Nat] /\ turn \in [1 .. m -> Nat]
  /\ \A c, d \in 1 .. m : owner[c] = owner[d] /\ turn[c] = turn[d] => c = d
  /\ \A c \in 1 .. m : \/ owner[c] \in TS!Children /\ turn[c] < ts_nloops
                       \/ owner[c] = 0 /\ turn[c] < TS!MaxResets

LEMMA TsPairs ==
  ASSUME NEW n \in Nat, NEW l \in Nat, NEW r \in Nat
  PROVE  LET A == (1 .. n) \X (0 .. l - 1)
             B == {0} \X (0 .. r - 1)
         IN  IsFiniteSet(A \cup B) /\ Cardinality(A \cup B) = n * l + r
<1> DEFINE N == 1 .. n
           L == 0 .. l - 1
           R == 0 .. r - 1
           A == N \X L
           B == {0} \X R
<1>1. IsFiniteSet(N) /\ Cardinality(N) = n
  BY FS_Interval
<1>2. IsFiniteSet(L) /\ Cardinality(L) = l
  BY FS_Interval
<1>3. IsFiniteSet(R) /\ Cardinality(R) = r
  BY FS_Interval
<1>4. IsFiniteSet({0}) /\ Cardinality({0}) = 1
  BY FS_Singleton
<1>5. A \cap B = {}
  OBVIOUS
<1> HIDE DEF N, L, R
<1>6. IsFiniteSet(A) /\ Cardinality(A) = n * l
  BY <1>1, <1>2, FS_Product
<1>7. IsFiniteSet(B) /\ Cardinality(B) = 1 * r
  BY <1>3, <1>4, FS_Product
<1> HIDE DEF A, B
<1>8. IsFiniteSet(A \cup B) /\ Cardinality(A \cup B) = n * l + (1 * r) - Cardinality({})
  BY <1>5, <1>6, <1>7, FS_Union
<1>9. Cardinality({}) = 0 /\ n * l \in Nat /\ 1 * r = r
  BY FS_EmptySet
<1>10. IsFiniteSet(A \cup B) /\ Cardinality(A \cup B) = n * l + r
  BY <1>8, <1>9
<1> QED
  BY <1>10 DEF A, B, N, L, R

LEMMA TsBound ==
  ASSUME NEW m \in Nat, NEW n \in Nat, NEW l \in Nat, NEW r \in Nat,
         NEW owner \in [1 .. m -> Nat], NEW turn \in [1 .. m -> Nat],
         \A c, d \in 1 .. m : owner[c] = owner[d] /\ turn[c] = turn[d] => c = d,
         \A c \in 1 .. m : \/ owner[c] \in 1 .. n /\ turn[c] < l
                           \/ owner[c] = 0 /\ turn[c] < r
  PROVE  m <= n * l + r
<1> DEFINE A == (1 .. n) \X (0 .. l - 1)
           B == {0} \X (0 .. r - 1)
           g == [c \in 1 .. m |-> <<owner[c], turn[c]>>]
<1>1. IsFiniteSet(A \cup B) /\ Cardinality(A \cup B) = n * l + r
  BY ONLY n \in Nat, l \in Nat, r \in Nat, TsPairs
<1>2. \A c \in 1 .. m : g[c] \in A \cup B
  OBVIOUS
<1>3. \A c, d \in 1 .. m : g[c] = g[d] => c = d
  OBVIOUS
<1>4. g = [c \in 1 .. m |-> g[c]]
  OBVIOUS
<1> HIDE DEF g, A, B
<1>5. g \in Injection(1 .. m, A \cup B)
  <2>1. g \in [1 .. m -> A \cup B]
    BY ONLY <1>2, <1>4
  <2> QED
    BY ONLY <2>1, <1>3 DEF Injection, IsInjective
<1>6. Cardinality(1 .. m) = m
  BY ONLY m \in Nat, FS_Interval
<1>7. Cardinality(1 .. m) <= Cardinality(A \cup B)
  BY ONLY <1>1, <1>5, FS_Injection
<1> QED
  BY ONLY <1>1, <1>6, <1>7

\* Numbers of connections: those that accept has returned are the cells' values.
TsAccepted == ts_created + (IF ts_main = "create" THEN 1 ELSE 0)

LEMMA TsCellsBound ==
  ASSUME NEW m \in Nat, NEW n \in Nat, NEW f \in [1 .. n -> 1 .. m],
         \A j, k \in 1 .. n : f[j] = f[k] => j = k
  PROVE  n <= m
<1>1. f \in Injection(1 .. n, 1 .. m)
  BY DEF Injection, IsInjective
<1>2. /\ IsFiniteSet(1 .. m) /\ Cardinality(1 .. m) = m /\ Cardinality(1 .. n) = n
  BY FS_Interval
<1> QED
  BY <1>1, <1>2, FS_Injection

\* The program and what is asked of it.
TsFixed ==
  /\ ts_nchildren \in Nat /\ ts_nloops \in 1 .. MaxLoops
  /\ ts_nchildren * ts_nloops <= MaxRequests

TsTypes ==
  /\ TsFixed
  /\ ts_child \in [TS!Children -> TsStates] /\ ts_loops \in [TS!Children -> Nat]
  /\ ts_resets \in 0 .. TS!MaxResets /\ ts_kills \in Nat
  /\ ts_made \in 0 .. TS!MaxConns /\ ts_ofChild \in [TS!Conns -> Nat]
  /\ ts_queue \subseteq 1 .. ts_made /\ ts_forgotten \subseteq 1 .. ts_made
  /\ ts_peer \in [TS!Conns -> {"open", "fin", "rst"}]
  /\ ts_main \in {"accept", "create"} /\ ts_cell \in [TS!Conns -> Nat] /\ ts_created \in Nat
  /\ ts_thread \in [TS!Conns -> TsThreads] /\ ts_connfd \in [TS!Conns -> Nat]
  /\ ts_closed \subseteq 1 .. ts_made /\ ts_server \in {"running", "ended"}

\* A child that can still connect, or has a reply to get, has a turn left, and the
\* third child a reset.
TsTurns ==
  /\ \A i \in TS!Children :
       /\ ts_child[i] \in {"connect", "linger", "write", "read"} => ts_loops[i] < ts_nloops
       /\ ts_child[i] = "linger" => i = Third /\ ts_resets < TS!MaxResets
  /\ \E owner, turn :
       /\ TsFits(ts_made, owner, turn)
       /\ \A c \in 1 .. ts_made :
            /\ \A i \in TS!Children : owner[c] = i =>
                 /\ ts_child[i] \in {"connect", "linger", "close"} => turn[c] < ts_loops[i]
                 /\ ts_child[i] \in {"write", "read"} => turn[c] <= ts_loops[i]
            /\ owner[c] = 0 =>
                 \/ turn[c] < ts_resets
                 \/ turn[c] = ts_resets /\ \E i \in TS!Children : ts_child[i] = "linger"

\* A connection is queued, forgotten, or in the cell of one thread; or in that of
\* the thread to be created.
TsCells ==
  /\ TsAccepted <= ts_made /\ ts_queue \cap ts_forgotten = {}
  /\ \A k \in 1 .. TsAccepted :
       ts_cell[k] \in 1 .. ts_made /\ ts_cell[k] \notin ts_queue \cup ts_forgotten
  /\ \A j, k \in 1 .. TsAccepted : ts_cell[j] = ts_cell[k] => j = k
  /\ \A c \in 1 .. ts_made :
       c \in ts_queue \cup ts_forgotten \/ \E k \in 1 .. TsAccepted : ts_cell[k] = c

\* A thread serves the connection in its cell, and closes it after its client.
TsServes ==
  /\ \A k \in TS!Conns : ts_thread[k] = "none" <=> k > ts_created
  /\ \A k \in 1 .. ts_created :
       /\ ts_thread[k] # "start" => ts_connfd[k] = ts_cell[k]
       /\ ts_thread[k] = "ended" <=> ts_cell[k] \in ts_closed
       /\ ts_thread[k] \in {"close", "ended"} => ts_peer[ts_cell[k]] # "open"
  /\ \A c \in ts_closed : \E k \in 1 .. ts_created : ts_cell[k] = c

\* The connection that a child works with is its latest.
TsLatest(i, c) ==
  /\ c \in 1 .. ts_made /\ ts_ofChild[c] = i
  /\ \A d \in c + 1 .. ts_made : ts_ofChild[d] # i

TsOpen ==
  /\ \A c \in TS!Conns : c > ts_made => ts_peer[c] = "open"
  /\ \A i \in TS!Children : ts_child[i] \in {"linger", "write", "read", "close"} =>
       \E c \in 1 .. ts_made : TsLatest(i, c) /\ ts_peer[c] = "open"

TsInv ==
  TsTypes /\ TsTurns /\ TsCells /\ TsServes /\ TsOpen /\ TS!ShortOnlyAtTheEnd

LEMMA TsConstants ==
  /\ MaxChildren \in Nat \ {0} /\ MaxLoops \in Nat \ {0} /\ MaxRequests \in Nat \ {0}
  /\ TS!MaxResets \in Nat \ {0} /\ TS!MaxConns \in Nat \ {0}
  /\ TS!MaxConns = MaxRequests + TS!MaxResets /\ TS!Conns = 1 .. TS!MaxConns
<1>1. MaxChildren \in Nat \ {0} /\ MaxLoops \in Nat \ {0} /\ MaxRequests \in Nat \ {0}
  BY BoundsAssumption
<1> QED
  BY <1>1 DEF TS!MaxResets, TS!MaxConns, TS!Conns

\* There are numbers for all connections.
LEMMA TsEnough ==
  ASSUME TsFixed, NEW m \in Nat, NEW owner, NEW turn, TsFits(m, owner, turn)
  PROVE  m <= TS!MaxConns
<1>1. m <= ts_nchildren * ts_nloops + TS!MaxResets
  <2>1. ts_nchildren \in Nat /\ ts_nloops \in Nat /\ TS!MaxResets \in Nat
    BY TsConstants DEF TsFixed
  <2>2. /\ owner \in [1 .. m -> Nat] /\ turn \in [1 .. m -> Nat]
        /\ \A c, d \in 1 .. m : owner[c] = owner[d] /\ turn[c] = turn[d] => c = d
        /\ \A c \in 1 .. m : \/ owner[c] \in 1 .. ts_nchildren /\ turn[c] < ts_nloops
                             \/ owner[c] = 0 /\ turn[c] < TS!MaxResets
    BY DEF TsFits, TS!Children
  <2> QED
    BY ONLY <2>1, <2>2, m \in Nat, TsBound
<1>2. ts_nchildren * ts_nloops \in Nat /\ ts_nchildren * ts_nloops <= MaxRequests
  BY TsConstants DEF TsFixed
<1> DEFINE p == ts_nchildren * ts_nloops
<1> HIDE DEF p
<1> QED
  BY <1>1, <1>2, TsConstants

LEMMA TsInit == TS!Init => TsInv
<1> SUFFICES ASSUME TS!Init PROVE TsInv
  OBVIOUS
<1>1. TsTypes
  <2>1. TsFixed
    <3>1. ts_nchildren \in 1 .. MaxChildren
      BY DEF TS!Init
    <3> QED
      BY <3>1, TsConstants DEF TS!Init, TsFixed
  <2> QED
    BY <2>1, TsConstants DEF TS!Init, TsTypes, TsStates, TsThreads
<1>2. TsTurns
  <2>1. \A i \in TS!Children : ts_child[i] = "connect" /\ ts_loops[i] < ts_nloops
    <3>1. ts_nloops > 0
      BY <1>1 DEF TsTypes, TsFixed
    <3> QED
      BY <3>1 DEF TS!Init
  <2>2. ts_made = 0
    BY DEF TS!Init
  <2>3. TsFits(0, [c \in 1 .. 0 |-> 0], [c \in 1 .. 0 |-> 0])
    BY DEF TsFits
  <2> QED
    BY <2>1, <2>2, <2>3 DEF TsTurns
<1>3. TsCells /\ TsServes /\ TsOpen /\ TS!ShortOnlyAtTheEnd
  BY TsConstants DEF TS!Init, TsCells, TsAccepted, TsServes, TsOpen, TS!ShortOnlyAtTheEnd, TS!Up
<1> QED
  BY <1>1, <1>2, <1>3 DEF TsInv

\* The turns are as they were when no child's state changes.
LEMMA TsTurnsKept ==
  ASSUME TsTurns,
         UNCHANGED <<ts_nchildren, ts_nloops, ts_child, ts_loops, ts_resets, ts_made>>
  PROVE  TsTurns'
<1>1. PICK owner, turn :
        /\ TsFits(ts_made, owner, turn)
        /\ \A c \in 1 .. ts_made :
             /\ \A i \in TS!Children : owner[c] = i =>
                  /\ ts_child[i] \in {"connect", "linger", "close"} => turn[c] < ts_loops[i]
                  /\ ts_child[i] \in {"write", "read"} => turn[c] <= ts_loops[i]
             /\ owner[c] = 0 =>
                  \/ turn[c] < ts_resets
                  \/ turn[c] = ts_resets /\ \E i \in TS!Children : ts_child[i] = "linger"
  BY Zenon DEF TsTurns
<1>2. TS!Children' = TS!Children
  BY DEF TS!Children
<1>3. TsFits(ts_made, owner, turn)'
  BY <1>1, <1>2 DEF TsFits
<1> QED
  BY <1>1, <1>2, <1>3 DEF TsTurns

\* A thread's cell holds a connection that is no other thread's.
LEMMA TsCell ==
  ASSUME TsTypes, TsCells, TsServes, NEW k \in 1 .. ts_created
  PROVE  /\ k \in TS!Conns /\ k \in 1 .. TsAccepted
         /\ ts_cell[k] \in 1 .. ts_made /\ ts_cell[k] \in TS!Conns
         /\ ts_cell[k] \notin ts_queue \cup ts_forgotten
         /\ \A j \in 1 .. ts_created : ts_cell[j] = ts_cell[k] => j = k
         /\ ts_thread[k] # "start" => ts_connfd[k] = ts_cell[k]
<1>1. /\ ts_created \in Nat /\ ts_made \in 0 .. TS!MaxConns
      /\ TsAccepted \in Nat /\ TsAccepted >= ts_created /\ TsAccepted <= ts_made
  BY DEF TsTypes, TsAccepted, TsCells
<1>2. 1 .. ts_created \subseteq 1 .. TsAccepted /\ 1 .. TsAccepted \subseteq TS!Conns
      /\ 1 .. ts_made \subseteq TS!Conns
  BY <1>1, TsConstants
<1> QED
  BY <1>2 DEF TsCells, TsServes

\* What a step of a thread may change, apart from requests and replies.
LEMMA TsThreadStep ==
  ASSUME TsInv, NEW k \in 1 .. ts_created, ts_thread[k] # "none", ts_server = "running",
         UNCHANGED <<ts_nchildren, ts_nloops, ts_nbytes, ts_child, ts_loops, ts_resets, ts_made,
                     ts_ofChild, ts_queue, ts_main, ts_cell, ts_created, ts_kills, ts_forgotten>>,
         ts_thread' \in [TS!Conns -> TsThreads], ts_thread'[k] \notin {"none", "start"},
         \A j \in TS!Conns : j # k => ts_thread'[j] = ts_thread[j],
         ts_connfd' \in [TS!Conns -> Nat], ts_connfd'[k] = ts_cell[k],
         \A j \in TS!Conns : j # k => ts_connfd'[j] = ts_connfd[j],
         \/ ts_thread'[k] # "ended" /\ ts_closed' = ts_closed
              /\ (ts_thread[k] # "ended")
         \/ ts_thread'[k] = "ended" /\ ts_closed' = ts_closed \cup {ts_cell[k]},
         ts_peer' \in [TS!Conns -> {"open", "fin", "rst"}],
         \A c \in TS!Conns : ts_peer'[c] # ts_peer[c] =>
           c = ts_cell[k] /\ ts_peer[c] # "open" /\ ts_peer'[c] = "rst",
         ts_thread'[k] \in {"close", "ended"} => ts_peer[ts_cell[k]] # "open",
         \/ ts_server' = "running"
         \/ ts_server' = "ended" /\ (ts_nbytes = "over" \/ ts_peer[ts_cell[k]] = "rst")
  PROVE  TsInv'
<1>1. TsTypes /\ TsCells /\ TsServes /\ TsOpen /\ TsTurns
  BY DEF TsInv
<1>2. /\ k \in TS!Conns /\ ts_cell[k] \in 1 .. ts_made /\ ts_cell[k] \in TS!Conns
      /\ ts_cell[k] \notin ts_queue \cup ts_forgotten
      /\ \A j \in 1 .. ts_created : ts_cell[j] = ts_cell[k] => j = k
      /\ 1 .. ts_created \subseteq TS!Conns
      /\ \A j \in 1 .. ts_created : ts_cell[j] \in 1 .. ts_made /\ ts_cell[j] \in TS!Conns
  BY <1>1, TsCell
<1>3. TsTypes'
  <2>1. ts_closed' \subseteq 1 .. ts_made /\ ts_server' \in {"running", "ended"}
    BY <1>1, <1>2 DEF TsTypes
  <2> QED
    BY <1>1, <2>1 DEF TsTypes, TsFixed, TS!Children
<1>4. TsTurns' /\ TsCells'
  BY <1>1, TsTurnsKept DEF TsCells, TsAccepted
<1>5. TsServes'
  <2>1. \A j \in TS!Conns : ts_thread'[j] = "none" <=> j > ts_created
    BY <1>1, <1>2 DEF TsServes
  <2>2. ASSUME NEW j \in 1 .. ts_created
        PROVE  /\ ts_thread'[j] # "start" => ts_connfd'[j] = ts_cell[j]
               /\ ts_thread'[j] = "ended" <=> ts_cell[j] \in ts_closed'
               /\ ts_thread'[j] \in {"close", "ended"} => ts_peer'[ts_cell[j]] # "open"
    <3>1. j \in TS!Conns /\ ts_cell[j] \in TS!Conns /\ (ts_cell[j] = ts_cell[k] => j = k)
      BY <1>2
    <3>2. /\ ts_thread[j] # "start" => ts_connfd[j] = ts_cell[j]
          /\ ts_thread[j] = "ended" <=> ts_cell[j] \in ts_closed
          /\ ts_thread[j] \in {"close", "ended"} => ts_peer[ts_cell[j]] # "open"
      BY <1>1 DEF TsServes
    <3>3. ts_peer[ts_cell[j]] # "open" => ts_peer'[ts_cell[j]] # "open"
      BY <3>1
    <3>4. CASE j = k
      BY <3>1, <3>2, <3>3, <3>4
    <3>5. CASE j # k
      BY <3>1, <3>2, <3>3, <3>5
    <3> QED
      BY <3>4, <3>5
  <2>3. \A c \in ts_closed' : \E j \in 1 .. ts_created : ts_cell[j] = c
    BY <1>1 DEF TsServes
  <2> QED
    BY <2>1, <2>2, <2>3 DEF TsServes
<1>6. TsOpen'
  <2>1. \A c \in TS!Conns : ts_peer[c] = "open" => ts_peer'[c] = "open"
    OBVIOUS
  <2>2. \A c \in 1 .. ts_made : c \in TS!Conns
    BY <1>1, TsConstants DEF TsTypes
  <2> QED
    BY <1>1, <2>1, <2>2 DEF TsOpen, TsLatest, TS!Children
<1>7. TS!ShortOnlyAtTheEnd'
  <2>1. \A j \in TS!Children : ts_child[j] # "failed"
    BY DEF TsInv, TS!ShortOnlyAtTheEnd, TS!Up
  <2>2. ts_peer[ts_cell[k]] = "rst" => ts_peer'[ts_cell[k]] = "rst"
    BY <1>2
  <2> QED
    BY <1>2, <2>1, <2>2 DEF TS!ShortOnlyAtTheEnd, TS!Up, TS!Children
<1> QED
  BY <1>3, <1>4, <1>5, <1>6, <1>7 DEF TsInv

\* A thread begins: its argument is its cell.
LEMMA TsDoit == ASSUME TsInv, NEW k \in 1 .. ts_created, TS!Doit(k) PROVE TsInv'
<1>1. /\ ts_server = "running" /\ ts_thread[k] = "start"
      /\ ts_thread' = [ts_thread EXCEPT ![k] = "read"]
      /\ ts_connfd' = [ts_connfd EXCEPT ![k] = ts_cell[k]]
      /\ UNCHANGED <<ts_nchildren, ts_nloops, ts_nbytes, ts_child, ts_loops, ts_resets, ts_made,
                     ts_ofChild, ts_queue, ts_main, ts_cell, ts_created, ts_kills, ts_forgotten,
                     ts_peer, ts_closed, ts_server>>
  BY DEF TS!Doit, TS!Up, TS!Set, TS!CellOf, TS!fixed, TS!clients, TS!network, TS!listen
<1>2. TsTypes /\ k \in TS!Conns /\ ts_cell[k] \in 1 .. ts_made
  BY TsCell DEF TsInv
<1>3. /\ ts_thread \in [TS!Conns -> TsThreads] /\ ts_connfd \in [TS!Conns -> Nat]
      /\ ts_peer \in [TS!Conns -> {"open", "fin", "rst"}] /\ ts_cell[k] \in Nat
      /\ "read" \in TsThreads
  BY <1>2 DEF TsTypes, TsThreads
<1>4. /\ ts_thread' \in [TS!Conns -> TsThreads] /\ ts_thread'[k] = "read"
      /\ ts_connfd' \in [TS!Conns -> Nat] /\ ts_connfd'[k] = ts_cell[k]
      /\ \A j \in TS!Conns : j # k => ts_thread'[j] = ts_thread[j] /\ ts_connfd'[j] = ts_connfd[j]
  BY <1>1, <1>2, <1>3
<1> QED
  BY <1>1, <1>3, <1>4, TsThreadStep

\* A request, the end of the file, or an error that ends the process.
LEMMA TsReadRequest == ASSUME TsInv, NEW k \in 1 .. ts_created, TS!ReadRequest(k) PROVE TsInv'
<1>1. /\ ts_server = "running" /\ ts_thread[k] = "read"
      /\ UNCHANGED <<ts_nchildren, ts_nloops, ts_nbytes, ts_child, ts_loops, ts_resets, ts_made,
                     ts_ofChild, ts_queue, ts_main, ts_cell, ts_created, ts_kills, ts_forgotten,
                     ts_peer, ts_closed, ts_connfd>>
  BY DEF TS!ReadRequest, TS!Up, TS!fixed, TS!clients, TS!listen
<1>2. TsTypes /\ k \in TS!Conns /\ ts_cell[k] \in 1 .. ts_made /\ ts_connfd[k] = ts_cell[k]
  BY <1>1, TsCell DEF TsInv
<1>3. /\ ts_thread \in [TS!Conns -> TsThreads] /\ ts_connfd \in [TS!Conns -> Nat]
      /\ ts_peer \in [TS!Conns -> {"open", "fin", "rst"}]
      /\ "write" \in TsThreads /\ "close" \in TsThreads
  BY <1>2 DEF TsTypes, TsThreads
<1>4. \/ /\ UNCHANGED ts_thread /\ ts_server' = "ended"
         /\ ts_nbytes = "over" \/ ts_peer[ts_cell[k]] = "rst"
      \/ ts_thread' = [ts_thread EXCEPT ![k] = "write"] /\ UNCHANGED ts_server
      \/ /\ ts_thread' = [ts_thread EXCEPT ![k] = "close"] /\ UNCHANGED ts_server
         /\ ts_peer[ts_cell[k]] = "fin"
  BY <1>2 DEF TS!ReadRequest, TS!EndServer, TS!Set
<1>5. /\ ts_thread' \in [TS!Conns -> TsThreads] /\ ts_thread'[k] \in {"read", "write", "close"}
      /\ ts_thread'[k] = "close" => ts_peer[ts_cell[k]] = "fin"
      /\ \A j \in TS!Conns : j # k => ts_thread'[j] = ts_thread[j]
  BY <1>1, <1>2, <1>3, <1>4
<1>6. \/ ts_server' = "running"
      \/ ts_server' = "ended" /\ (ts_nbytes = "over" \/ ts_peer[ts_cell[k]] = "rst")
  BY <1>1, <1>4
<1> QED
  BY <1>1, <1>2, <1>3, <1>5, <1>6, TsThreadStep

\* A piece of the reply; a client that is gone answers with a reset.
LEMMA TsWritePiece == ASSUME TsInv, NEW k \in 1 .. ts_created, TS!WritePiece(k) PROVE TsInv'
<1>1. /\ ts_server = "running" /\ ts_thread[k] = "write"
      /\ UNCHANGED <<ts_nchildren, ts_nloops, ts_nbytes, ts_child, ts_loops, ts_resets, ts_made,
                     ts_ofChild, ts_queue, ts_main, ts_cell, ts_created, ts_kills, ts_forgotten,
                     ts_closed, ts_connfd>>
  BY DEF TS!WritePiece, TS!Up, TS!fixed, TS!clients, TS!listen
<1>2. /\ TsTypes /\ k \in TS!Conns /\ ts_cell[k] \in 1 .. ts_made /\ ts_connfd[k] = ts_cell[k]
      /\ ts_cell[k] \in TS!Conns
  BY <1>1, TsCell DEF TsInv
<1>3. /\ ts_thread \in [TS!Conns -> TsThreads] /\ ts_connfd \in [TS!Conns -> Nat]
      /\ ts_peer \in [TS!Conns -> {"open", "fin", "rst"}]
      /\ "write" \in TsThreads /\ "read" \in TsThreads
  BY <1>2 DEF TsTypes, TsThreads
<1>4. /\ \/ UNCHANGED ts_thread
         \/ ts_thread' = [ts_thread EXCEPT ![k] = "read"]
         \/ ts_thread' = [ts_thread EXCEPT ![k] = "write"]
      /\ \/ UNCHANGED ts_peer
         \/ ts_peer[ts_cell[k]] # "open" /\ ts_peer' = [ts_peer EXCEPT ![ts_cell[k]] = "rst"]
      /\ \/ UNCHANGED ts_server
         \/ ts_server' = "ended" /\ ts_peer[ts_cell[k]] = "rst"
  BY <1>2 DEF TS!WritePiece, TS!EndServer, TS!Set
<1>5. /\ ts_thread' \in [TS!Conns -> TsThreads] /\ ts_thread'[k] \in {"read", "write"}
      /\ \A j \in TS!Conns : j # k => ts_thread'[j] = ts_thread[j]
  BY <1>1, <1>2, <1>3, <1>4
<1>6. /\ ts_peer' \in [TS!Conns -> {"open", "fin", "rst"}]
      /\ \A c \in TS!Conns : ts_peer'[c] # ts_peer[c] =>
           c = ts_cell[k] /\ ts_peer[c] # "open" /\ ts_peer'[c] = "rst"
  BY <1>2, <1>3, <1>4
<1> QED
  BY <1>1, <1>2, <1>3, <1>4, <1>5, <1>6, TsThreadStep

\* The thread ends.
LEMMA TsClose == ASSUME TsInv, NEW k \in 1 .. ts_created, TS!Close(k) PROVE TsInv'
<1>1. /\ ts_server = "running" /\ ts_thread[k] = "close"
      /\ ts_thread' = [ts_thread EXCEPT ![k] = "ended"]
      /\ ts_closed' = ts_closed \cup {ts_connfd[k]}
      /\ UNCHANGED <<ts_nchildren, ts_nloops, ts_nbytes, ts_child, ts_loops, ts_resets, ts_made,
                     ts_ofChild, ts_queue, ts_main, ts_cell, ts_created, ts_kills, ts_forgotten,
                     ts_peer, ts_connfd, ts_server>>
  BY DEF TS!Close, TS!Up, TS!Set, TS!fixed, TS!clients, TS!network, TS!listen
<1>2. TsTypes /\ k \in TS!Conns /\ ts_cell[k] \in 1 .. ts_made /\ ts_connfd[k] = ts_cell[k]
  BY <1>1, TsCell DEF TsInv
<1>3. /\ ts_thread \in [TS!Conns -> TsThreads] /\ ts_connfd \in [TS!Conns -> Nat]
      /\ ts_peer \in [TS!Conns -> {"open", "fin", "rst"}] /\ "ended" \in TsThreads
  BY <1>2 DEF TsTypes, TsThreads
<1>4. ts_peer[ts_cell[k]] # "open"
  BY <1>1 DEF TsInv, TsServes
<1>5. /\ ts_thread' \in [TS!Conns -> TsThreads] /\ ts_thread'[k] = "ended"
      /\ \A j \in TS!Conns : j # k => ts_thread'[j] = ts_thread[j]
  BY <1>1, <1>2, <1>3
<1> QED
  BY <1>1, <1>2, <1>3, <1>4, <1>5, TsThreadStep

\* accept returns a connection, for a thread to be created, or forgets it.
LEMMA TsAccept == ASSUME TsInv, TS!Accept PROVE TsInv'
<1> DEFINE n == ts_created + 1
<1>1. /\ ts_server = "running" /\ ts_main = "accept"
      /\ UNCHANGED <<ts_nchildren, ts_nloops, ts_nbytes, ts_child, ts_loops, ts_resets, ts_made,
                     ts_ofChild, ts_created, ts_kills, ts_thread, ts_connfd, ts_closed, ts_peer,
                     ts_server>>
  BY DEF TS!Accept, TS!Up, TS!fixed, TS!clients, TS!network, TS!threads
<1>2. PICK c \in ts_queue :
        /\ ts_queue' = ts_queue \ {c}
        /\ \/ /\ ts_main' = "create" /\ ts_cell' = [ts_cell EXCEPT ![n] = c]
              /\ UNCHANGED ts_forgotten
           \/ /\ ts_peer[c] = "rst" /\ ts_forgotten' = ts_forgotten \union {c}
              /\ UNCHANGED <<ts_main, ts_cell>>
  BY DEF TS!Accept, TS!NewCell, TS!Set
<1>3. TsTypes /\ TsCells /\ TsServes /\ TsOpen /\ TsTurns /\ TS!ShortOnlyAtTheEnd
  BY DEF TsInv
<1>4. /\ c \in 1 .. ts_made /\ ts_created \in Nat /\ ts_made \in Nat /\ n \in Nat
      /\ ts_made <= TS!MaxConns /\ TsAccepted = ts_created
  BY <1>1, <1>2, <1>3, TsConstants DEF TsTypes, TsAccepted
<1>5. /\ \A k \in 1 .. ts_created :
           ts_cell[k] \in 1 .. ts_made /\ ts_cell[k] \notin ts_queue \cup ts_forgotten
      /\ \A j, k \in 1 .. ts_created : ts_cell[j] = ts_cell[k] => j = k
      /\ \A d \in 1 .. ts_made :
           d \in ts_queue \cup ts_forgotten \/ \E k \in 1 .. ts_created : ts_cell[k] = d
      /\ ts_queue \cap ts_forgotten = {} /\ ts_created <= ts_made
  BY <1>3, <1>4 DEF TsCells
<1>6. n <= ts_made
  <2> DEFINE f == [k \in 1 .. n |-> IF k = n THEN c ELSE ts_cell[k]]
  <2>1. \A k \in 1 .. n : k = n \/ k \in 1 .. ts_created
    BY <1>4
  <2>2. \A k \in 1 .. ts_created : ts_cell[k] \in 1 .. ts_made /\ ts_cell[k] # c
    BY <1>2, <1>5
  <2>3. f \in [1 .. n -> 1 .. ts_made]
    BY <1>4, <2>1, <2>2
  <2>4. \A j, k \in 1 .. n : f[j] = f[k] => j = k
    BY <1>5, <2>1, <2>2
  <2> HIDE DEF f
  <2> QED
    BY <1>4, <2>3, <2>4, TsCellsBound
<1>7. n \in TS!Conns /\ n \notin 1 .. ts_created /\ 1 .. ts_created \subseteq TS!Conns
  BY <1>4, <1>6, TsConstants
<1>8. ts_cell \in [TS!Conns -> Nat] /\ c \in Nat
  BY <1>3, <1>4 DEF TsTypes
<1> HIDE DEF n
<1>9. \A k \in 1 .. ts_created : ts_cell'[k] = ts_cell[k]
  BY <1>2, <1>7, <1>8
<1>10. TsTypes'
  <2>1. ts_cell' \in [TS!Conns -> Nat] /\ ts_main' \in {"accept", "create"}
    BY <1>1, <1>2, <1>8
  <2>2. ts_queue' \subseteq 1 .. ts_made /\ ts_forgotten' \subseteq 1 .. ts_made
    BY <1>2, <1>3, <1>4 DEF TsTypes
  <2> QED
    BY <1>1, <1>3, <2>1, <2>2 DEF TsTypes, TsFixed, TS!Children
<1>11. TsTurns' /\ TsOpen'
  BY <1>1, <1>3, TsTurnsKept DEF TsOpen, TsLatest, TS!Children
<1>12. TsServes'
  BY <1>1, <1>3, <1>9 DEF TsServes
<1>13. TsCells'
  <2>1. CASE ts_main' = "create" /\ ts_cell' = [ts_cell EXCEPT ![n] = c] /\ UNCHANGED ts_forgotten
    <3>1. TsAccepted' = n
      BY <1>1, <2>1 DEF TsAccepted, n
    <3>2. 1 .. n = (1 .. ts_created) \cup {n}
      BY <1>4 DEF n
    <3>3. ts_cell'[n] = c
      BY <1>7, <1>8, <2>1
    <3>4. c \notin ts_forgotten
      BY <1>2, <1>5
    <3> QED
      BY <1>1, <1>2, <1>4, <1>5, <1>6, <1>7, <1>9, <2>1, <3>1, <3>2, <3>3, <3>4 DEF TsCells
  <2>2. CASE ts_forgotten' = ts_forgotten \union {c} /\ UNCHANGED <<ts_main, ts_cell>>
    <3>1. TsAccepted' = ts_created
      BY <1>1, <1>4, <2>2 DEF TsAccepted
    <3> QED
      BY <1>1, <1>2, <1>4, <1>5, <2>2, <3>1 DEF TsCells
  <2> QED
    BY <1>2, <2>1, <2>2
<1>14. TS!ShortOnlyAtTheEnd'
  BY <1>1, <1>3 DEF TS!ShortOnlyAtTheEnd, TS!Up, TS!Children
<1> QED
  BY <1>10, <1>11, <1>12, <1>13, <1>14 DEF TsInv

\* pthread_create
LEMMA TsCreate == ASSUME TsInv, TS!Create PROVE TsInv'
<1> DEFINE n == ts_created + 1
<1>1. /\ ts_server = "running" /\ ts_main = "create" /\ ts_main' = "accept"
      /\ ts_created' = n /\ ts_thread' = [ts_thread EXCEPT ![n] = "start"]
      /\ UNCHANGED <<ts_nchildren, ts_nloops, ts_nbytes, ts_child, ts_loops, ts_resets, ts_made,
                     ts_ofChild, ts_kills, ts_connfd, ts_closed, ts_peer, ts_cell, ts_queue,
                     ts_forgotten, ts_server>>
  BY DEF TS!Create, TS!Up, TS!Set, TS!fixed, TS!clients, TS!network
<1>2. TsTypes /\ TsCells /\ TsServes /\ TsOpen /\ TsTurns /\ TS!ShortOnlyAtTheEnd
  BY DEF TsInv
<1>3. /\ ts_created \in Nat /\ ts_made \in Nat /\ n \in Nat /\ TsAccepted = n
      /\ ts_made <= TS!MaxConns
  BY <1>1, <1>2, TsConstants DEF TsTypes, TsAccepted
<1>4. n <= ts_made
  BY <1>2, <1>3 DEF TsCells
<1>5. /\ n \in TS!Conns /\ 1 .. n = (1 .. ts_created) \cup {n} /\ n \notin 1 .. ts_created
      /\ 1 .. ts_created \subseteq TS!Conns
  BY <1>3, <1>4, TsConstants
<1>6. ts_thread \in [TS!Conns -> TsThreads] /\ "start" \in TsThreads
  BY <1>2 DEF TsTypes, TsThreads
<1>7. /\ ts_thread' \in [TS!Conns -> TsThreads] /\ ts_thread'[n] = "start"
      /\ \A k \in TS!Conns : k # n => ts_thread'[k] = ts_thread[k]
  BY <1>1, <1>5, <1>6
<1>8. TsTypes'
  BY <1>1, <1>2, <1>3, <1>7 DEF TsTypes, TsFixed, TS!Children
<1>9. TsTurns' /\ TsOpen'
  BY <1>1, <1>2, TsTurnsKept DEF TsOpen, TsLatest, TS!Children
<1>10. TsCells'
  <2>1. TsAccepted' = TsAccepted
    BY <1>1, <1>3, <1>8 DEF TsAccepted, TsTypes
  <2> QED
    BY <1>1, <1>2, <2>1 DEF TsCells
<1>11. TsServes'
  <2>1. \A k \in TS!Conns : ts_thread'[k] = "none" <=> k > n
    <3>1. \A k \in TS!Conns : k \in Nat
      BY TsConstants
    <3> QED
      BY <1>2, <1>3, <1>7, <3>1 DEF TsServes
  <2>2. ts_cell[n] \notin ts_closed
    <3>1. \A k \in 1 .. ts_created : ts_cell[k] # ts_cell[n]
      BY <1>2, <1>3, <1>5 DEF TsCells
    <3> QED
      BY <1>2, <3>1 DEF TsServes
  <2>3. ASSUME NEW k \in 1 .. n
        PROVE  /\ ts_thread'[k] # "start" => ts_connfd[k] = ts_cell[k]
               /\ ts_thread'[k] = "ended" <=> ts_cell[k] \in ts_closed
               /\ ts_thread'[k] \in {"close", "ended"} => ts_peer[ts_cell[k]] # "open"
    <3>1. CASE k = n
      BY <1>7, <2>2, <3>1
    <3>2. CASE k # n
      <4>1. k \in 1 .. ts_created /\ ts_thread'[k] = ts_thread[k]
        BY <1>5, <1>7, <3>2
      <4> QED
        BY <1>2, <4>1 DEF TsServes
    <3> QED
      BY <3>1, <3>2
  <2>4. \A c \in ts_closed : \E k \in 1 .. n : ts_cell[k] = c
    BY <1>2, <1>5 DEF TsServes
  <2> HIDE DEF n
  <2> QED
    BY <1>1, <2>1, <2>3, <2>4 DEF TsServes
<1>12. TS!ShortOnlyAtTheEnd'
  BY <1>1, <1>2 DEF TS!ShortOnlyAtTheEnd, TS!Up, TS!Children
<1> QED
  BY <1>8, <1>9, <1>10, <1>11, <1>12 DEF TsInv

\* The connection a child works with, from its connect to its close.
LEMMA TsConn ==
  ASSUME TsInv, NEW i \in TS!Children, ts_child[i] \in {"linger", "write", "read", "close"}
  PROVE  /\ TsLatest(i, TS!Conn(i)) /\ ts_peer[TS!Conn(i)] = "open"
         /\ TS!Conn(i) \in 1 .. ts_made /\ TS!Conn(i) \in TS!Conns
<1>1. PICK c \in 1 .. ts_made : TsLatest(i, c) /\ ts_peer[c] = "open"
  BY DEF TsInv, TsOpen
<1>2. ts_made \in Nat /\ 1 .. ts_made \subseteq TS!Conns
  BY TsConstants DEF TsInv, TsTypes
<1>3. ASSUME NEW d \in 1 .. ts_made, ts_ofChild[d] = i, \A e \in d + 1 .. ts_made : ts_ofChild[e] # i
      PROVE  d = c
  <2>1. c \in d + 1 .. ts_made \/ d \in c + 1 .. ts_made \/ d = c
    BY <1>2
  <2> QED
    BY <1>1, <1>3, <2>1 DEF TsLatest
<1>4. TS!Conn(i) = c
  BY <1>1, <1>3 DEF TS!Conn, TsLatest
<1> QED
  BY <1>1, <1>2, <1>4

\* What a step of a child may change, when it makes no connection.
LEMMA TsChildStep ==
  ASSUME TsInv, NEW i \in TS!Children,
         UNCHANGED <<ts_nchildren, ts_nloops, ts_nbytes, ts_made, ts_ofChild, ts_queue, ts_main,
                     ts_cell, ts_created, ts_forgotten, ts_thread, ts_connfd, ts_closed, ts_server>>,
         ts_child' \in [TS!Children -> TsStates], ts_loops' \in [TS!Children -> Nat],
         \A j \in TS!Children : j # i => ts_child'[j] = ts_child[j] /\ ts_loops'[j] = ts_loops[j],
         ts_kills' \in Nat, ts_kills > 0 => ts_kills' > 0,
         ts_child'[i] # "linger",
         ts_child'[i] \in {"connect", "write", "read"} => ts_loops'[i] < ts_nloops,
         ts_child'[i] \in {"connect", "close"} =>
           \/ ts_child[i] \in {"linger", "close"} /\ ts_loops'[i] = ts_loops[i]
           \/ ts_child[i] \in {"write", "read"} /\ ts_loops'[i] = ts_loops[i] + 1,
         ts_child'[i] \in {"write", "read"} =>
           ts_child[i] \in {"write", "read"} /\ ts_loops'[i] \in {ts_loops[i], ts_loops[i] + 1},
         \/ ts_resets' = ts_resets /\ ts_child[i] # "linger"
         \/ ts_resets' = ts_resets + 1 /\ ts_child[i] = "linger",
         ts_child'[i] \in {"write", "read", "close"} =>
           ts_child[i] \in {"write", "read", "close"} /\ ts_peer' = ts_peer,
         ts_child'[i] = "failed" => ts_server # "running",
         ts_peer' \in [TS!Conns -> {"open", "fin", "rst"}],
         \A c \in TS!Conns : ts_peer'[c] # ts_peer[c] =>
           TsLatest(i, c) /\ ts_peer[c] = "open" /\ ts_peer'[c] # "open"
  PROVE  TsInv'
<1>1. TsTypes /\ TsCells /\ TsServes /\ TsOpen /\ TsTurns /\ TS!ShortOnlyAtTheEnd
  BY DEF TsInv
<1>2. /\ TS!Children' = TS!Children /\ ts_made \in Nat /\ 1 .. ts_made \subseteq TS!Conns
      /\ ts_resets \in 0 .. TS!MaxResets /\ TS!MaxResets \in Nat
      /\ \A j \in TS!Children : ts_loops[j] \in Nat
  <2>1. TS!Children' = TS!Children
    BY DEF TS!Children
  <2>2. /\ ts_made \in 0 .. TS!MaxConns /\ ts_resets \in 0 .. TS!MaxResets
        /\ \A j \in TS!Children : ts_loops[j] \in Nat
    BY <1>1 DEF TsTypes
  <2> QED
    BY <2>1, <2>2, TsConstants
<1>3. ts_resets' \in 0 .. TS!MaxResets
  BY <1>1, <1>2 DEF TsTurns
<1>4. TsTypes'
  BY <1>1, <1>2, <1>3 DEF TsTypes, TsFixed
<1>5. TsTurns'
  <2>1. PICK owner, turn :
          /\ TsFits(ts_made, owner, turn)
          /\ \A c \in 1 .. ts_made :
               /\ \A j \in TS!Children : owner[c] = j =>
                    /\ ts_child[j] \in {"connect", "linger", "close"} => turn[c] < ts_loops[j]
                    /\ ts_child[j] \in {"write", "read"} => turn[c] <= ts_loops[j]
               /\ owner[c] = 0 =>
                    \/ turn[c] < ts_resets
                    \/ turn[c] = ts_resets /\ \E j \in TS!Children : ts_child[j] = "linger"
    BY <1>1, Zenon DEF TsTurns
  <2>2. TsFits(ts_made, owner, turn)' /\ \A c \in 1 .. ts_made : turn[c] \in Nat
    BY <1>2, <2>1 DEF TsFits
  <2>3. ASSUME NEW c \in 1 .. ts_made, NEW j \in TS!Children, owner[c] = j
        PROVE  /\ ts_child'[j] \in {"connect", "linger", "close"} => turn[c] < ts_loops'[j]
               /\ ts_child'[j] \in {"write", "read"} => turn[c] <= ts_loops'[j]
    <3>1. /\ ts_child[j] \in {"connect", "linger", "close"} => turn[c] < ts_loops[j]
          /\ ts_child[j] \in {"write", "read"} => turn[c] <= ts_loops[j]
          /\ turn[c] \in Nat /\ ts_loops[j] \in Nat
      BY <1>2, <2>1, <2>2, <2>3
    <3>2. CASE j = i
      BY <3>1, <3>2
    <3>3. CASE j # i
      BY <3>1, <3>3
    <3> QED
      BY <3>2, <3>3
  <2>4. ASSUME NEW c \in 1 .. ts_made, owner[c] = 0
        PROVE  \/ turn[c] < ts_resets'
               \/ turn[c] = ts_resets' /\ \E j \in TS!Children : ts_child'[j] = "linger"
    <3>1. turn[c] \in Nat /\ ts_resets \in Nat
      BY <1>2, <2>2
    <3>2. \/ turn[c] < ts_resets
          \/ turn[c] = ts_resets /\ \E j \in TS!Children : ts_child[j] = "linger"
      BY <2>1, <2>4
    <3>3. CASE ts_resets' = ts_resets /\ ts_child[i] # "linger"
      BY <3>2, <3>3
    <3>4. CASE ts_resets' = ts_resets + 1
      BY <3>1, <3>2, <3>4
    <3> QED
      BY <3>3, <3>4
  <2>5. ASSUME NEW j \in TS!Children
        PROVE  /\ ts_child'[j] \in {"connect", "linger", "write", "read"} => ts_loops'[j] < ts_nloops
               /\ ts_child'[j] = "linger" => j = Third /\ ts_resets' < TS!MaxResets
    BY <1>1 DEF TsTurns
  <2> QED
    BY <1>2, <2>2, <2>3, <2>4, <2>5 DEF TsTurns
<1>6. TsCells'
  BY <1>1 DEF TsCells, TsAccepted
<1>7. \A c \in TS!Conns : ts_peer[c] # "open" => ts_peer'[c] = ts_peer[c]
  OBVIOUS
<1>8. TsServes'
  <2>1. \A k \in 1 .. ts_created : ts_cell[k] \in TS!Conns
    BY <1>1, TsCell
  <2> QED
    BY <1>1, <1>7, <2>1 DEF TsServes
<1>9. TsOpen'
  <2>1. \A c \in TS!Conns : c > ts_made => ts_peer'[c] = "open"
    <3>1. \A c \in TS!Conns : c > ts_made => c \notin 1 .. ts_made
      BY <1>2, TsConstants
    <3> QED
      BY <1>1, <3>1 DEF TsOpen, TsLatest
  <2>2. \A j, c : TsLatest(j, c)' <=> TsLatest(j, c)
    BY DEF TsLatest
  <2>3. ASSUME NEW j \in TS!Children, ts_child'[j] \in {"linger", "write", "read", "close"}
        PROVE  \E c \in 1 .. ts_made : TsLatest(j, c) /\ ts_peer'[c] = "open"
    <3>1. CASE j = i
      BY <1>1, <2>3, <3>1 DEF TsOpen
    <3>2. CASE j # i
      <4>1. PICK c \in 1 .. ts_made : TsLatest(j, c) /\ ts_peer[c] = "open"
        BY <1>1, <2>3, <3>2 DEF TsOpen
      <4>2. ~TsLatest(i, c)
        BY <3>2, <4>1 DEF TsLatest
      <4> QED
        BY <1>2, <4>1, <4>2
    <3> QED
      BY <3>1, <3>2
  <2> QED
    BY <1>2, <2>1, <2>2, <2>3 DEF TsOpen
<1>10. TS!ShortOnlyAtTheEnd'
  <2>1. \A c \in 1 .. ts_made : ts_peer[c] = "rst" => ts_peer'[c] = "rst"
    BY <1>2, <1>7
  <2> QED
    BY <1>1, <1>2, <2>1 DEF TS!ShortOnlyAtTheEnd, TS!Up
<1> QED
  BY <1>4, <1>5, <1>6, <1>8, <1>9, <1>10 DEF TsInv

\* SO_LINGER with 0, and close; then the child connects again.
LEMMA TsLinger == ASSUME TsInv, NEW i \in TS!Children, TS!Linger(i) PROVE TsInv'
<1>1. /\ ts_child[i] = "linger" /\ ts_child' = [ts_child EXCEPT ![i] = "connect"]
      /\ ts_peer' = [ts_peer EXCEPT ![TS!Conn(i)] = "rst"] /\ ts_resets' = ts_resets + 1
      /\ UNCHANGED <<ts_nchildren, ts_nloops, ts_nbytes, ts_made, ts_ofChild, ts_queue, ts_main,
                     ts_cell, ts_created, ts_forgotten, ts_thread, ts_connfd, ts_closed, ts_server,
                     ts_loops, ts_kills>>
  BY DEF TS!Linger, TS!Set, TS!fixed, TS!threads, TS!listen
<1>2. /\ TsLatest(i, TS!Conn(i)) /\ ts_peer[TS!Conn(i)] = "open" /\ TS!Conn(i) \in TS!Conns
  BY <1>1, TsConn
<1>3. /\ ts_child \in [TS!Children -> TsStates] /\ ts_loops \in [TS!Children -> Nat]
      /\ ts_peer \in [TS!Conns -> {"open", "fin", "rst"}] /\ ts_kills \in Nat
      /\ ts_loops[i] < ts_nloops /\ "connect" \in TsStates
  BY <1>1 DEF TsInv, TsTypes, TsTurns, TsStates
<1>4. /\ ts_child' \in [TS!Children -> TsStates] /\ ts_child'[i] = "connect"
      /\ \A j \in TS!Children : j # i => ts_child'[j] = ts_child[j]
  BY <1>1, <1>3
<1>5. /\ ts_peer' \in [TS!Conns -> {"open", "fin", "rst"}]
      /\ \A c \in TS!Conns : ts_peer'[c] # ts_peer[c] =>
           TsLatest(i, c) /\ ts_peer[c] = "open" /\ ts_peer'[c] # "open"
  BY <1>1, <1>2, <1>3
<1> QED
  BY <1>1, <1>3, <1>4, <1>5, TsChildStep

\* The request; or a server that has gone.
LEMMA TsWrite == ASSUME TsInv, NEW i \in TS!Children, TS!Write(i) PROVE TsInv'
<1>1. /\ ts_child[i] = "write"
      /\ \/ ts_child' = [ts_child EXCEPT ![i] = "read"]
         \/ ts_server # "running" /\ ts_child' = [ts_child EXCEPT ![i] = "failed"]
      /\ UNCHANGED <<ts_nchildren, ts_nloops, ts_nbytes, ts_made, ts_ofChild, ts_queue, ts_main,
                     ts_cell, ts_created, ts_forgotten, ts_thread, ts_connfd, ts_closed, ts_server,
                     ts_loops, ts_kills, ts_resets, ts_peer>>
  BY DEF TS!Write, TS!Up, TS!Set, TS!fixed, TS!threads, TS!listen
<1>2. /\ ts_child \in [TS!Children -> TsStates] /\ ts_loops \in [TS!Children -> Nat]
      /\ ts_peer \in [TS!Conns -> {"open", "fin", "rst"}] /\ ts_kills \in Nat
      /\ ts_loops[i] < ts_nloops /\ "read" \in TsStates /\ "failed" \in TsStates
  BY <1>1 DEF TsInv, TsTypes, TsTurns, TsStates
<1>3. /\ ts_child' \in [TS!Children -> TsStates]
      /\ ts_child'[i] = "read" \/ (ts_child'[i] = "failed" /\ ts_server # "running")
      /\ \A j \in TS!Children : j # i => ts_child'[j] = ts_child[j]
  BY <1>1, <1>2
<1> QED
  BY <1>1, <1>2, <1>3, TsChildStep

\* The whole reply; or less of it, because the server has gone.
LEMMA TsReadn == ASSUME TsInv, NEW i \in TS!Children, TS!Readn(i) PROVE TsInv'
<1>1. /\ ts_child[i] = "read"
      /\ UNCHANGED <<ts_nchildren, ts_nloops, ts_nbytes, ts_made, ts_ofChild, ts_queue, ts_main,
                     ts_cell, ts_created, ts_forgotten, ts_thread, ts_connfd, ts_closed, ts_server,
                     ts_kills, ts_resets, ts_peer>>
  BY DEF TS!Readn, TS!fixed, TS!threads, TS!listen
<1>2. \/ /\ ts_loops' = [ts_loops EXCEPT ![i] = ts_loops[i] + 1]
         /\ \/ ts_loops'[i] < ts_nloops /\ ts_child' = [ts_child EXCEPT ![i] = "write"]
            \/ ts_child' = [ts_child EXCEPT ![i] = "close"]
      \/ /\ ts_server # "running" \/ TS!Conn(i) \in ts_closed
         /\ ts_child' = [ts_child EXCEPT ![i] = "failed"] /\ UNCHANGED ts_loops
  BY DEF TS!Readn, TS!Up, TS!Set
<1>3. TS!Conn(i) \notin ts_closed
  <2>1. ts_peer[TS!Conn(i)] = "open"
    BY <1>1, TsConn
  <2> QED
    BY <2>1 DEF TsInv, TsServes
<1>4. /\ ts_child \in [TS!Children -> TsStates] /\ ts_loops \in [TS!Children -> Nat]
      /\ ts_peer \in [TS!Conns -> {"open", "fin", "rst"}] /\ ts_kills \in Nat
      /\ {"write", "close", "failed"} \subseteq TsStates
  BY DEF TsInv, TsTypes, TsStates
<1>5. CASE /\ ts_loops' = [ts_loops EXCEPT ![i] = ts_loops[i] + 1]
           /\ \/ ts_loops'[i] < ts_nloops /\ ts_child' = [ts_child EXCEPT ![i] = "write"]
              \/ ts_child' = [ts_child EXCEPT ![i] = "close"]
  <2>1. /\ ts_loops' \in [TS!Children -> Nat] /\ ts_loops'[i] = ts_loops[i] + 1
        /\ \A j \in TS!Children : j # i => ts_loops'[j] = ts_loops[j]
    BY <1>4, <1>5
  <2>2. /\ ts_child' \in [TS!Children -> TsStates]
        /\ (ts_child'[i] = "write" /\ ts_loops'[i] < ts_nloops) \/ ts_child'[i] = "close"
        /\ \A j \in TS!Children : j # i => ts_child'[j] = ts_child[j]
    BY <1>4, <1>5
  <2> QED
    BY <1>1, <1>4, <2>1, <2>2, TsChildStep
<1>6. CASE /\ ts_server # "running" \/ TS!Conn(i) \in ts_closed
           /\ ts_child' = [ts_child EXCEPT ![i] = "failed"] /\ UNCHANGED ts_loops
  <2>1. /\ ts_child' \in [TS!Children -> TsStates] /\ ts_child'[i] = "failed"
        /\ \A j \in TS!Children : j # i => ts_child'[j] = ts_child[j]
    BY <1>4, <1>6
  <2> QED
    BY <1>1, <1>3, <1>4, <1>6, <2>1, TsChildStep
<1> QED
  BY <1>2, <1>5, <1>6

\* The child closes its connection, and makes the next one.
LEMMA TsClientClose == ASSUME TsInv, NEW i \in TS!Children, TS!ClientClose(i) PROVE TsInv'
<1>1. /\ ts_child[i] = "close" /\ ts_peer' = [ts_peer EXCEPT ![TS!Conn(i)] = "fin"]
      /\ \/ ts_loops[i] < ts_nloops /\ ts_child' = [ts_child EXCEPT ![i] = "connect"]
         \/ ts_child' = [ts_child EXCEPT ![i] = "done"]
      /\ UNCHANGED <<ts_nchildren, ts_nloops, ts_nbytes, ts_made, ts_ofChild, ts_queue, ts_main,
                     ts_cell, ts_created, ts_forgotten, ts_thread, ts_connfd, ts_closed, ts_server,
                     ts_loops, ts_kills, ts_resets>>
  BY DEF TS!ClientClose, TS!Set, TS!fixed, TS!threads, TS!listen
<1>2. /\ TsLatest(i, TS!Conn(i)) /\ ts_peer[TS!Conn(i)] = "open" /\ TS!Conn(i) \in TS!Conns
  BY <1>1, TsConn
<1>3. /\ ts_child \in [TS!Children -> TsStates] /\ ts_loops \in [TS!Children -> Nat]
      /\ ts_peer \in [TS!Conns -> {"open", "fin", "rst"}] /\ ts_kills \in Nat
      /\ "connect" \in TsStates /\ "done" \in TsStates
  BY DEF TsInv, TsTypes, TsStates
<1>4. /\ ts_child' \in [TS!Children -> TsStates]
      /\ (ts_child'[i] = "connect" /\ ts_loops[i] < ts_nloops) \/ ts_child'[i] = "done"
      /\ \A j \in TS!Children : j # i => ts_child'[j] = ts_child[j]
  BY <1>1, <1>3
<1>5. /\ ts_peer' \in [TS!Conns -> {"open", "fin", "rst"}]
      /\ \A c \in TS!Conns : ts_peer'[c] # ts_peer[c] =>
           TsLatest(i, c) /\ ts_peer[c] = "open" /\ ts_peer'[c] # "open"
  BY <1>1, <1>2, <1>3
<1> QED
  BY <1>1, <1>3, <1>4, <1>5, TsChildStep

\* A child is killed.
LEMMA TsKill == ASSUME TsInv, NEW i \in TS!Children, TS!Kill(i) PROVE TsInv'
<1>1. /\ ts_child[i] \in {"write", "read", "close"} /\ ts_kills' = ts_kills + 1
      /\ ts_child' = [ts_child EXCEPT ![i] = "killed"]
      /\ \/ ts_peer' = [ts_peer EXCEPT ![TS!Conn(i)] = "fin"]
         \/ ts_peer' = [ts_peer EXCEPT ![TS!Conn(i)] = "rst"]
      /\ UNCHANGED <<ts_nchildren, ts_nloops, ts_nbytes, ts_made, ts_ofChild, ts_queue, ts_main,
                     ts_cell, ts_created, ts_forgotten, ts_thread, ts_connfd, ts_closed, ts_server,
                     ts_loops, ts_resets>>
  BY DEF TS!Kill, TS!Set, TS!fixed, TS!threads, TS!listen
<1>2. /\ TsLatest(i, TS!Conn(i)) /\ ts_peer[TS!Conn(i)] = "open" /\ TS!Conn(i) \in TS!Conns
  BY <1>1, TsConn
<1>3. /\ ts_child \in [TS!Children -> TsStates] /\ ts_loops \in [TS!Children -> Nat]
      /\ ts_peer \in [TS!Conns -> {"open", "fin", "rst"}] /\ ts_kills \in Nat
      /\ "killed" \in TsStates
  BY DEF TsInv, TsTypes, TsStates
<1>4. /\ ts_child' \in [TS!Children -> TsStates] /\ ts_child'[i] = "killed"
      /\ \A j \in TS!Children : j # i => ts_child'[j] = ts_child[j]
  BY <1>1, <1>3
<1>5. /\ ts_peer' \in [TS!Conns -> {"open", "fin", "rst"}]
      /\ \A c \in TS!Conns : ts_peer'[c] # ts_peer[c] =>
           TsLatest(i, c) /\ ts_peer[c] = "open" /\ ts_peer'[c] # "open"
  BY <1>1, <1>2, <1>3
<1>6. ts_kills' \in Nat /\ ts_kills' > 0
  BY <1>1, <1>3
<1> QED
  BY <1>1, <1>3, <1>4, <1>5, <1>6, TsChildStep

\* A new connection takes a turn of its child, or the third child's next reset.
LEMMA TsConnectTurns ==
  ASSUME TsInv, NEW i \in TS!Children, ts_child[i] = "connect", NEW s,
         \/ s = "write" \/ (s = "linger" /\ TS!ResetsFirst(i)),
         ts_child' = [ts_child EXCEPT ![i] = s], ts_made' = ts_made + 1,
         UNCHANGED <<ts_nchildren, ts_nloops, ts_loops, ts_resets>>
  PROVE  TsTurns' /\ ts_made' <= TS!MaxConns
<1>1. TsTypes /\ TsTurns /\ TsFixed
  BY DEF TsInv, TsTypes
<1>2. /\ TS!Children' = TS!Children /\ ts_made \in Nat /\ ts_made' \in Nat
      /\ ts_resets \in Nat /\ TS!MaxResets \in Nat
      /\ ts_nloops \in 1 .. MaxLoops /\ MaxLoops \in Nat
      /\ \A j \in TS!Children : ts_loops[j] \in Nat /\ j \in Nat \ {0}
  <2>1. TS!Children' = TS!Children
    BY DEF TS!Children
  <2>2. /\ ts_made \in 0 .. TS!MaxConns /\ ts_resets \in 0 .. TS!MaxResets
        /\ \A j \in TS!Children : ts_loops[j] \in Nat
        /\ ts_nloops \in 1 .. MaxLoops
    BY <1>1 DEF TsTypes, TsFixed
  <2>3. \A j \in TS!Children : j \in Nat \ {0}
    BY <1>1 DEF TS!Children, TsFixed
  <2> QED
    BY <2>1, <2>2, <2>3, TsConstants
<1>3. /\ ts_child'[i] = s /\ \A j \in TS!Children : j # i => ts_child'[j] = ts_child[j]
  BY <1>1 DEF TsTypes
<1>4. ts_loops[i] < ts_nloops
  BY <1>1 DEF TsTurns
<1>5. s = "linger" => i = Third /\ ts_resets < TS!MaxResets
  <2>1. SUFFICES ASSUME s = "linger" PROVE i = Third /\ ts_resets < TS!MaxResets
    OBVIOUS
  <2>2. i = Third /\ ts_loops[i] % 3 = 0 /\ ts_resets = ts_loops[i] \div 3
    BY <2>1 DEF TS!ResetsFirst
  <2>3. ts_loops[i] \in Nat /\ ts_loops[i] < MaxLoops
    BY <1>2, <1>4
  <2> DEFINE l == ts_loops[i]
  <2>4. l \div 3 < (MaxLoops + 2) \div 3
    <3>1. l \in Nat /\ l < MaxLoops /\ MaxLoops \in Nat /\ l % 3 = 0
      BY <1>2, <2>2, <2>3
    <3> HIDE DEF l
    <3> QED
      BY ONLY <3>1
  <2> QED
    BY <2>2, <2>4 DEF TS!MaxResets
<1>6. PICK owner, turn :
        /\ TsFits(ts_made, owner, turn)
        /\ \A c \in 1 .. ts_made :
             /\ \A j \in TS!Children : owner[c] = j =>
                  /\ ts_child[j] \in {"connect", "linger", "close"} => turn[c] < ts_loops[j]
                  /\ ts_child[j] \in {"write", "read"} => turn[c] <= ts_loops[j]
             /\ owner[c] = 0 =>
                  \/ turn[c] < ts_resets
                  \/ turn[c] = ts_resets /\ \E j \in TS!Children : ts_child[j] = "linger"
  BY <1>1, Zenon DEF TsTurns
<1>7. /\ owner \in [1 .. ts_made -> Nat] /\ turn \in [1 .. ts_made -> Nat]
      /\ \A c, d \in 1 .. ts_made : owner[c] = owner[d] /\ turn[c] = turn[d] => c = d
      /\ \A c \in 1 .. ts_made : \/ owner[c] \in TS!Children /\ turn[c] < ts_nloops
                                 \/ owner[c] = 0 /\ turn[c] < TS!MaxResets
  BY <1>6 DEF TsFits
<1> DEFINE m  == ts_made + 1
           nw == IF s = "linger" THEN 0 ELSE i
           nt == IF s = "linger" THEN ts_resets ELSE ts_loops[i]
           o  == [c \in 1 .. m |-> IF c = m THEN nw ELSE owner[c]]
           t  == [c \in 1 .. m |-> IF c = m THEN nt ELSE turn[c]]
<1>8. /\ 1 .. m = (1 .. ts_made) \cup {m} /\ m \notin 1 .. ts_made /\ m \in Nat
  BY <1>2
<1>9. /\ nw \in Nat /\ nt \in Nat
      /\ \/ nw \in TS!Children /\ nt < ts_nloops
         \/ nw = 0 /\ nt < TS!MaxResets
  BY <1>2, <1>4, <1>5
<1>10. \A c \in 1 .. ts_made : owner[c] = nw => turn[c] < nt
  <2>1. CASE s = "linger"
    <3>1. \A j \in TS!Children : ts_child[j] # "linger"
      BY <1>1, <1>5, <2>1 DEF TsTurns
    <3> QED
      BY <1>6, <2>1, <3>1
  <2>2. CASE s # "linger"
    BY <1>6, <2>2
  <2> QED
    BY <2>1, <2>2
<1>11. /\ o[m] = nw /\ t[m] = nt
       /\ \A c \in 1 .. ts_made : o[c] = owner[c] /\ t[c] = turn[c]
       /\ o \in [1 .. m -> Nat] /\ t \in [1 .. m -> Nat]
  <2> HIDE DEF nw, nt
  <2>1. \A c \in 1 .. m : c = m \/ c \in 1 .. ts_made
    BY <1>8
  <2>2. \A c \in 1 .. ts_made : c \in 1 .. m /\ c # m
    BY <1>8
  <2> QED
    BY <1>7, <1>8, <1>9, <2>1, <2>2
<1> HIDE DEF o, t
<1>12. \A c, d \in 1 .. m : o[c] = o[d] /\ t[c] = t[d] => c = d
  <2> HIDE DEF nw, nt
  <2>1. \A c \in 1 .. ts_made : ~(owner[c] = nw /\ turn[c] = nt)
    BY <1>7, <1>9, <1>10
  <2> QED
    BY <1>7, <1>8, <1>11, <2>1
<1>13. \A c \in 1 .. m : \/ o[c] \in TS!Children /\ t[c] < ts_nloops
                         \/ o[c] = 0 /\ t[c] < TS!MaxResets
  <2> HIDE DEF nw, nt
  <2> QED
    BY <1>7, <1>8, <1>9, <1>11
<1>14. TsFits(m, o, t)
  BY <1>11, <1>12, <1>13 DEF TsFits
<1>15. m <= TS!MaxConns
  BY <1>1, <1>8, <1>14, TsEnough
<1>16. PICK mm, oo, tt : mm = m /\ oo = o /\ tt = t
  OBVIOUS
<1>17. ASSUME NEW c \in 1 .. mm, NEW j \in TS!Children, oo[c] = j
       PROVE  /\ ts_child'[j] \in {"connect", "linger", "close"} => tt[c] < ts_loops[j]
              /\ ts_child'[j] \in {"write", "read"} => tt[c] <= ts_loops[j]
  <2>1. ts_loops[j] \in Nat /\ tt[c] \in Nat /\ j # 0
    BY <1>2, <1>11, <1>16
  <2>2. CASE c = m
    <3>1. j = i /\ s = "write" /\ tt[c] = ts_loops[i]
      BY <1>2, <1>11, <1>16, <1>17, <2>2
    <3> QED
      BY <1>3, <2>1, <3>1
  <2>3. CASE c # m
    <3>1. c \in 1 .. ts_made /\ owner[c] = j /\ tt[c] = turn[c]
      BY <1>8, <1>11, <1>16, <1>17, <2>3
    <3>2. /\ ts_child[j] \in {"connect", "linger", "close"} => tt[c] < ts_loops[j]
          /\ ts_child[j] \in {"write", "read"} => tt[c] <= ts_loops[j]
      BY <1>6, <3>1
    <3> QED
      BY <1>3, <2>1, <3>1, <3>2
  <2> QED
    BY <2>2, <2>3
<1>18. ASSUME NEW c \in 1 .. mm, oo[c] = 0
       PROVE  \/ tt[c] < ts_resets
              \/ tt[c] = ts_resets /\ \E j \in TS!Children : ts_child'[j] = "linger"
  <2>1. CASE c = m
    <3>1. s = "linger" /\ tt[c] = ts_resets
      BY <1>2, <1>11, <1>16, <1>18, <2>1
    <3> QED
      BY <1>3, <3>1
  <2>2. CASE c # m
    <3>1. c \in 1 .. ts_made /\ owner[c] = 0 /\ tt[c] = turn[c]
      BY <1>8, <1>11, <1>16, <1>18, <2>2
    <3> QED
      BY <1>3, <1>6, <3>1
  <2> QED
    BY <2>1, <2>2
<1>19. ASSUME NEW j \in TS!Children
       PROVE  /\ ts_child'[j] \in {"connect", "linger", "write", "read"} => ts_loops[j] < ts_nloops
              /\ ts_child'[j] = "linger" => j = Third /\ ts_resets < TS!MaxResets
  BY <1>1, <1>3, <1>4, <1>5 DEF TsTurns
<1>20. ts_made' = mm /\ ts_made' = m
  BY <1>16
<1> HIDE DEF m, nw, nt
<1>21. TsFits(mm, oo, tt)
  BY <1>14, <1>16
<1>22. TsFits(mm, oo, tt)'
  BY <1>2, <1>21 DEF TsFits
<1>23. TsTurns'
  BY <1>2, <1>17, <1>18, <1>19, <1>20, <1>22 DEF TsTurns
<1> QED
  BY <1>15, <1>20, <1>23

LEMMA TsConnect == ASSUME TsInv, NEW i \in TS!Children, TS!Connect(i) PROVE TsInv'
<1>1. /\ ts_child[i] = "connect"
      /\ UNCHANGED <<ts_nchildren, ts_nloops, ts_nbytes, ts_main, ts_cell, ts_created, ts_forgotten,
                     ts_thread, ts_connfd, ts_closed, ts_server, ts_loops, ts_kills, ts_resets,
                     ts_peer>>
  BY DEF TS!Connect, TS!fixed, TS!threads
<1>2. TsTypes /\ TsCells /\ TsServes /\ TsOpen /\ TsTurns /\ TS!ShortOnlyAtTheEnd
  BY DEF TsInv
<1>3. CASE ts_server # "running"
  <2>1. /\ ts_child' = [ts_child EXCEPT ![i] = "failed"]
        /\ UNCHANGED <<ts_made, ts_ofChild, ts_queue>>
    BY <1>3 DEF TS!Connect, TS!Up, TS!Set
  <2>2. /\ ts_child \in [TS!Children -> TsStates] /\ ts_loops \in [TS!Children -> Nat]
        /\ ts_peer \in [TS!Conns -> {"open", "fin", "rst"}] /\ ts_kills \in Nat
        /\ "failed" \in TsStates
    BY <1>2 DEF TsTypes, TsStates
  <2>3. /\ ts_child' \in [TS!Children -> TsStates] /\ ts_child'[i] = "failed"
        /\ \A j \in TS!Children : j # i => ts_child'[j] = ts_child[j]
    BY <2>1, <2>2
  <2> QED
    BY <1>1, <1>3, <2>1, <2>2, <2>3, TsChildStep
<1>4. CASE ts_server = "running"
  <2>0. PICK m : m = ts_made + 1
    OBVIOUS
  <2>1. PICK s : /\ s = "write" \/ (s = "linger" /\ TS!ResetsFirst(i))
                 /\ ts_child' = [ts_child EXCEPT ![i] = s]
    BY <1>4 DEF TS!Connect, TS!Up, TS!Set
  <2>2. /\ ts_made' = m /\ ts_ofChild' = [ts_ofChild EXCEPT ![m] = i]
        /\ ts_queue' = ts_queue \cup {m}
    BY <1>4, <2>0 DEF TS!Connect, TS!Up, TS!Set
  <2>3. TsTurns' /\ m <= TS!MaxConns
    BY <1>1, <2>0, <2>1, <2>2, TsConnectTurns
  <2>4. /\ ts_made \in Nat /\ m \in TS!Conns /\ m \in 1 .. m /\ 1 .. ts_made \subseteq 1 .. m
        /\ m \notin 1 .. ts_made /\ 1 .. m \subseteq TS!Conns /\ m \in 0 .. TS!MaxConns
        /\ 1 .. m = (1 .. ts_made) \cup {m} /\ m + 1 .. m = {}
        /\ ts_made <= m /\ \A c \in TS!Conns : c > m => c > ts_made
        /\ m > ts_made
    <3>1. ts_made \in Nat
      BY <1>2, TsConstants DEF TsTypes
    <3> QED
      BY <2>0, <2>3, <3>1, TsConstants
  <2>5. i \in Nat /\ TS!Children' = TS!Children
    BY <1>1, <1>2 DEF TS!Children, TsTypes, TsFixed
  <2>6. /\ ts_child' \in [TS!Children -> TsStates] /\ ts_child'[i] = s
        /\ \A j \in TS!Children : j # i => ts_child'[j] = ts_child[j]
    BY <1>2, <2>1 DEF TsTypes, TsStates
  <2>7. /\ ts_ofChild' \in [TS!Conns -> Nat] /\ ts_ofChild'[m] = i
        /\ \A c \in TS!Conns : c # m => ts_ofChild'[c] = ts_ofChild[c]
    BY <1>2, <2>2, <2>4, <2>5 DEF TsTypes
  <2>8. TsTypes'
    <3>1. /\ ts_queue' \subseteq 1 .. m /\ ts_forgotten \subseteq 1 .. m /\ ts_closed \subseteq 1 .. m
      BY <1>2, <2>2, <2>4 DEF TsTypes
    <3> QED
      BY <1>1, <1>2, <2>2, <2>4, <2>5, <2>6, <2>7, <3>1 DEF TsTypes, TsFixed
  <2>9. TsCells'
    <3>1. TsAccepted' = TsAccepted /\ TsAccepted \in Nat
      BY <1>1, <1>2 DEF TsAccepted, TsTypes
    <3>2. m \notin ts_forgotten
      BY <1>2, <2>4 DEF TsTypes
    <3>3. TsAccepted <= ts_made' /\ ts_queue' \cap ts_forgotten = {}
      <4>1. TsAccepted <= ts_made
        BY <1>2 DEF TsCells
      <4> QED
        BY <1>2, <2>2, <2>4, <3>1, <3>2, <4>1 DEF TsCells
    <3>4. \A k \in 1 .. TsAccepted :
            ts_cell[k] \in 1 .. m /\ ts_cell[k] \notin ts_queue' \cup ts_forgotten
      BY <1>2, <2>2, <2>4 DEF TsCells
    <3>5. \A c \in 1 .. m :
            c \in ts_queue' \cup ts_forgotten \/ \E k \in 1 .. TsAccepted : ts_cell[k] = c
      BY <1>2, <2>2, <2>4 DEF TsCells
    <3> QED
      BY <1>1, <1>2, <2>2, <3>1, <3>3, <3>4, <3>5 DEF TsCells
  <2>10. TsServes'
    BY <1>1, <1>2 DEF TsServes
  <2>11. TsOpen'
    <3>1. \A c \in TS!Conns : c > m => ts_peer[c] = "open"
      BY <1>2, <2>4 DEF TsOpen
    <3>2. ts_peer[m] = "open"
      BY <1>2, <2>4 DEF TsOpen
    <3>3. TsLatest(i, m)'
      BY <2>2, <2>4, <2>7 DEF TsLatest
    <3>4. ASSUME NEW j \in TS!Children, j # i, NEW c \in 1 .. ts_made, TsLatest(j, c)
          PROVE  TsLatest(j, c)'
      <4>1. c \in 1 .. m /\ c \in TS!Conns /\ c # m
        BY <2>4
      <4>2. \A d \in c + 1 .. m : d = m \/ d \in c + 1 .. ts_made
        BY <2>0, <2>4
      <4>3. \A d \in c + 1 .. ts_made : d \in TS!Conns /\ d # m
        BY <2>4
      <4> QED
        BY <2>2, <2>7, <3>4, <4>1, <4>2, <4>3 DEF TsLatest
    <3>5. ASSUME NEW j \in TS!Children, j # i, ts_child[j] \in {"linger", "write", "read", "close"}
          PROVE  \E c \in 1 .. m : TsLatest(j, c)' /\ ts_peer[c] = "open"
      <4>1. PICK c \in 1 .. ts_made : TsLatest(j, c) /\ ts_peer[c] = "open"
        BY <1>2, <3>5 DEF TsOpen
      <4> QED
        BY <2>4, <3>4, <3>5, <4>1
    <3>6. ASSUME NEW j \in TS!Children, ts_child'[j] \in {"linger", "write", "read", "close"}
          PROVE  \E c \in 1 .. m : TsLatest(j, c)' /\ ts_peer[c] = "open"
      <4>1. CASE j = i
        BY <2>4, <3>2, <3>3, <4>1
      <4>2. CASE j # i
        BY <2>6, <3>5, <3>6, <4>2
      <4> QED
        BY <4>1, <4>2
    <3> QED
      BY <1>1, <2>2, <2>5, <3>1, <3>6 DEF TsOpen
  <2>12. TS!ShortOnlyAtTheEnd'
    <3>1. \A j \in TS!Children : ts_child'[j] # "failed"
      BY <1>2, <1>4, <2>1, <2>6 DEF TS!ShortOnlyAtTheEnd, TS!Up
    <3> QED
      BY <1>1, <1>4, <2>5, <3>1 DEF TS!ShortOnlyAtTheEnd, TS!Up
  <2> QED
    BY <2>3, <2>8, <2>9, <2>10, <2>11, <2>12 DEF TsInv
<1> QED
  BY <1>3, <1>4

\* Every step.
LEMMA TsStep == ASSUME TsInv, [TS!Next]_ts_vars PROVE TsInv'
<1>1. CASE UNCHANGED ts_vars
  <2>1. TsTurns'
    BY <1>1, TsTurnsKept DEF ts_vars, TsInv
  <2> QED
    BY <1>1, <2>1 DEF ts_vars, TsInv, TsTypes, TsFixed, TsCells, TsAccepted, TsServes, TsOpen, TsLatest,
                TS!ShortOnlyAtTheEnd, TS!Up, TS!Children
<1>2. ASSUME NEW k \in 1 .. ts_created, TS!Thread(k) PROVE TsInv'
  BY <1>2, TsDoit, TsReadRequest, TsWritePiece, TsClose DEF TS!Thread
<1>3. ASSUME NEW i \in TS!Children, TS!Child(i) \/ TS!Kill(i) PROVE TsInv'
  BY <1>3, TsConnect, TsLinger, TsWrite, TsReadn, TsClientClose, TsKill DEF TS!Child
<1> QED
  BY <1>1, <1>2, <1>3, TsAccept, TsCreate DEF TS!Next

\* Each connection is in one place: with a thread, with accept, closed or forgotten.
LEMMA TsOneThread == ASSUME TsInv PROVE TS!OneThreadEach
<1>1. TsTypes /\ TsCells /\ TsServes
  BY DEF TsInv
<1> SUFFICES ASSUME NEW c \in 1 .. ts_made
             PROVE  LET one(b) == IF b THEN 1 ELSE 0
                    IN  TS!Cardinality(TS!Serving(c)) + TS!Cardinality(TS!HandedTo(c))
                        + one(c \in ts_closed) + one(c \in ts_queue) + one(c \in ts_forgotten)
                        + one(ts_main = "create" /\ ts_cell[TS!NewCell] = c) = 1
  BY DEF TS!OneThreadEach
<1>2. \A S : TS!Cardinality(S) = Cardinality(S)
  BY DEF TS!Cardinality, Cardinality
<1>3. ts_queue \cap ts_forgotten = {}
  BY <1>1 DEF TsCells
<1>4. /\ ts_created \in Nat /\ TS!NewCell = ts_created + 1
      /\ ts_main = "create" => /\ TS!NewCell \in 1 .. TsAccepted
                               /\ 1 .. TsAccepted = (1 .. ts_created) \cup {TS!NewCell}
      /\ ts_main # "create" => 1 .. TsAccepted = 1 .. ts_created
      /\ TS!NewCell \notin 1 .. ts_created
  <2>1. ts_created \in Nat
    BY <1>1 DEF TsTypes
  <2> QED
    BY <2>1 DEF TS!NewCell, TsAccepted
<1>5. CASE \E k \in 1 .. ts_created : ts_cell[k] = c
  <2>1. PICK k \in 1 .. ts_created : ts_cell[k] = c
    BY <1>5
  <2>2. /\ k \in TS!Conns /\ k \in 1 .. TsAccepted /\ c \notin ts_queue /\ c \notin ts_forgotten
        /\ \A j \in 1 .. ts_created : ts_cell[j] = c => j = k
        /\ \A j \in 1 .. ts_created : ts_thread[j] # "start" => ts_connfd[j] = ts_cell[j]
    BY <1>1, <2>1, TsCell
  <2>3. ~(ts_main = "create" /\ ts_cell[TS!NewCell] = c)
    BY <1>1, <1>4, <2>1, <2>2 DEF TsCells
  <2>4. c \in ts_closed <=> ts_thread[k] = "ended"
    BY <1>1, <2>1 DEF TsServes
  <2>5. /\ TS!Serving(c) = IF ts_thread[k] \notin {"start", "ended"} THEN {k} ELSE {}
        /\ TS!HandedTo(c) = IF ts_thread[k] = "start" THEN {k} ELSE {}
    BY <2>1, <2>2 DEF TS!Serving, TS!HandedTo, TS!CellOf
  <2>6. Cardinality({k}) = 1 /\ Cardinality({}) = 0
    BY FS_Singleton, FS_EmptySet
  <2> QED
    BY <1>2, <2>2, <2>3, <2>4, <2>5, <2>6
<1>6. CASE ~ \E k \in 1 .. ts_created : ts_cell[k] = c
  <2>1. TS!Serving(c) = {} /\ TS!HandedTo(c) = {}
    BY <1>1, <1>6 DEF TS!Serving, TS!HandedTo, TS!CellOf, TsServes
  <2>2. c \notin ts_closed
    BY <1>1, <1>6 DEF TsServes
  <2>3. Cardinality({}) = 0
    BY FS_EmptySet
  <2>4. CASE ts_main = "create" /\ ts_cell[TS!NewCell] = c
    <3>1. c \notin ts_queue /\ c \notin ts_forgotten
      BY <1>1, <1>4, <2>4 DEF TsCells
    <3> QED
      BY <1>2, <2>1, <2>2, <2>3, <2>4, <3>1
  <2>5. CASE ~(ts_main = "create" /\ ts_cell[TS!NewCell] = c)
    <3>1. c \in ts_queue \cup ts_forgotten
      BY <1>1, <1>4, <1>6, <2>5 DEF TsCells
    <3> QED
      BY <1>2, <1>3, <2>1, <2>2, <2>3, <2>5, <3>1
  <2> QED
    BY <2>4, <2>5
<1> QED
  BY <1>5, <1>6

\* The invariant is what the run checks.
LEMMA TsMeans == TsInv => TS!ThreadsServe
<1> SUFFICES ASSUME TsInv PROVE TS!ThreadsServe
  OBVIOUS
<1>1. TsTypes /\ TsCells /\ TsServes
  BY DEF TsInv
<1>2. ts_created \in 0 .. TS!MaxConns
  <2>1. ts_created \in Nat /\ ts_made \in 0 .. TS!MaxConns /\ ts_created <= TsAccepted
    BY <1>1 DEF TsTypes, TsAccepted
  <2>2. TsAccepted <= ts_made /\ TsAccepted \in Nat
    BY <1>1 DEF TsCells, TsAccepted, TsTypes
  <2> QED
    BY <2>1, <2>2, TsConstants
<1>3. TS!TypeOK
  <2>1. \A k \in TS!Conns : (ts_thread[k] = "none") = (k > ts_created)
    <3>1. SUFFICES ASSUME NEW k \in TS!Conns
                   PROVE  (ts_thread[k] = "none") = (k > ts_created)
      OBVIOUS
    <3> DEFINE a == ts_thread[k] = "none"
               b == k > ts_created
    <3>2. a <=> b
      BY <1>1 DEF TsServes
    <3>3. a \in BOOLEAN /\ b \in BOOLEAN
      <4>1. k \in Nat /\ ts_created \in Nat
        BY <1>1, TsConstants DEF TsTypes
      <4> QED
        BY <4>1
    <3> QED
      BY <3>2, <3>3
  <2> QED
    BY <1>1, <1>2, <2>1 DEF TS!TypeOK, TsTypes
<1> QED
  BY <1>3, TsOneThread DEF TS!ThreadsServe, TsInv

-----------------------------------------------------------------------------
(* The programs together                                                     *)

WebInv == WtInv /\ NbInv /\ DtInv /\ TsInv

\* A step is a step of one program, and a stutter of the others.
LEMMA WebSteps ==
  ASSUME [SumNext]_all
  PROVE  [WT!Next]_wt_vars /\ [NB!Next]_nb_vars /\ [DT!Next]_dt_vars /\ [TS!Next]_ts_vars
BY DEF SumNext, Threaded, Nonblock, Times, Serving, all

\* In every state of the programs of MCWeb, the counters of web0x.c and web.c agree
\* with the files, the threads and the descriptor sets, "nothing found" is never
\* found, and the servers with a thread per connection have one thread for each
\* descriptor, and end their clients' service only for the causes named
\* (threads/web03.c:47-92 and 97-129, nonblock/web.c:32-81, server/serv06.c:24-41).
THEOREM WebCounters == SumSpec => []CountersAgree
<1>1. SumInit => WebInv
  BY WtInit, NbInit, DtInit, TsInit DEF SumInit, WebInv
<1>2. WebInv /\ [SumNext]_all => WebInv'
  BY WebSteps, WtStep, NbStep, DtStep, TsStep DEF WebInv
<1>3. WebInv => CountersAgree
  BY WtMeans, NbMeans, TsMeans DEF WebInv, CountersAgree
<1> QED
  BY <1>1, <1>2, <1>3, PTL DEF SumSpec

\* A daytime client that ends well has printed the whole text, unless its server
\* died; it is connected to the first address that accepts; and what MSG_PEEK and
\* FIONREAD showed is there to read, for every client and server that Daytime
\* models (intro/daytimetcpcli.c:24-28, names/daytimetcpcli1.c:34-50,
\* advio/daytimetcpcli.c:21-27).
THEOREM DaytimeTells == SumSpec => []DaytimeTold
<1>1. SumInit => DtInv
  BY DtInit DEF SumInit
<1>2. DtInv /\ [SumNext]_all => DtInv'
  BY WebSteps, DtStep
<1>3. DtInv => DaytimeTold
  BY DtMeans DEF DaytimeTold
<1> QED
  BY <1>1, <1>2, <1>3, PTL DEF SumSpec
=============================================================================
