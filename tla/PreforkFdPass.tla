----------------------------- MODULE PreforkFdPass -----------------------------
(* server/serv05.c with child05.c: the parent accepts every connection and     *)
(* passes its descriptor to a child over a stream pipe; the child writes one   *)
(* byte back when it is ready again.  The child's end of the pipe is its       *)
(* standard error, where lib/error.c puts the text of err_quit and err_sys.    *)
EXTENDS Naturals, Sequences, FiniteSets

CONSTANTS N,          \* nchildren
          TextBytes,  \* bytes of an error message
          MaxConns    \* bound: connections clients ever make

VARIABLES
  parent,    \* "running", or why the parent ended
  rset,      \* the descriptors select returned and the loop has not handled
  navail,    \* number of children the parent takes for available
  status,    \* cptr[i].child_status, 0 = ready
  child,     \* "read_fd", "web_child", "exiting" (error text written), "dead"
  serving,   \* the connection a child serves, 0 for none
  toChild,   \* connections on their way through each stream pipe
  toParent,  \* bytes on their way back
  arrived,   \* connections clients have made
  left,      \* connections gone before the parent accepted them
  accepted,  \* connections accepted
  closed     \* connections closed by the child that served them

parentVars == <<rset, navail, status, accepted>>
childVars  == <<child, serving, closed>>
clients    == <<arrived, left>>
vars == <<parent, parentVars, childVars, toChild, toParent, clients>>

Children == 0 .. N - 1
Listen   == N                      \* listenfd in rset; i is child i's pipe

Init ==
  /\ parent = "running" /\ rset = {}
  /\ navail = N /\ status = [i \in Children |-> 0]
  /\ child = [i \in Children |-> "read_fd"]
  /\ serving = [i \in Children |-> 0]
  /\ toChild = [i \in Children |-> << >>]
  /\ toParent = [i \in Children |-> << >>]
  /\ arrived = 0 /\ left = 0 /\ accepted = 0 /\ closed = {}

ClientConnects ==
  /\ arrived < MaxConns
  /\ arrived' = arrived + 1
  /\ UNCHANGED <<parent, parentVars, childVars, toChild, toParent, left>>

\* Connections in the queue of listenfd.
Waiting == accepted + left < arrived

\* A reset takes a connection off the queue.
ClientLeaves ==
  /\ Waiting
  /\ left' = left + 1
  /\ UNCHANGED <<parent, parentVars, childVars, toChild, toParent, arrived>>

-----------------------------------------------------------------------------
(* The parent                                                                *)

\* A pipe is readable when it has bytes, or when the child, the only holder
\* of the other end, is gone.
PipeReadable(i) == toParent[i] # << >> \/ child[i] = "dead"

\* masterset, without listenfd when there are no available children.
WatchedMutant == Children \cup {Listen}
Watched == Children \cup (IF navail <= 0 THEN {} ELSE {Listen})

Ready == {i \in Children : PipeReadable(i)}
           \cup (IF Waiting THEN {Listen} ELSE {})

\* nsel is the size of rset throughout, and is not kept apart.
Select ==
  /\ parent = "running" /\ rset = {}
  /\ rset' = Watched \cap Ready
  /\ rset' # {}
  /\ UNCHANGED <<parent, navail, status, accepted, childVars, toChild, toParent,
                 clients>>

Available == {i \in Children : status[i] = 0}

\* mark child as busy
MarkBusyMutant(i) == UNCHANGED status
MarkBusy(i) == status' = [status EXCEPT ![i] = 1]

\* write_fd: the descriptor, as ancillary data of one byte.
WriteFd(i) == child[i] # "dead" /\ toChild' = [toChild EXCEPT ![i] = Append(@, accepted')]
\* read_fd takes the one that was sent first.
ReadFd(i) == /\ toChild[i] # << >>
             /\ serving' = [serving EXCEPT ![i] = Head(toChild[i])]
             /\ toChild' = [toChild EXCEPT ![i] = Tail(@)]

\* Accept blocks while nobody waits: the connection that select saw may have
\* gone.  The next one goes to the first available child; a pipe whose other end
\* is closed fails the sendmsg.
AcceptAndPass ==
  /\ parent = "running" /\ Listen \in rset /\ Waiting
  /\ accepted' = accepted + 1
  /\ rset' = rset \ {Listen}
  /\ \/ /\ Available = {}
        /\ parent' = "no_available_children"
        /\ UNCHANGED <<navail, status, toChild>>
     \/ \E i \in Available :
          /\ \A j \in Available : i <= j
          /\ navail' = navail - 1
          /\ MarkBusy(i)
          /\ \/ WriteFd(i) /\ UNCHANGED parent
             \/ child[i] = "dead" /\ parent' = "write_fd" /\ UNCHANGED toChild
  /\ UNCHANGED <<childVars, toParent, clients>>

\* The loop over the children visits the readable pipes in order.
Scanning(i) == /\ parent = "running" /\ Listen \notin rset
               /\ i \in rset /\ \A j \in rset : i <= j

ReadyAgain(old) == 0

\* Read's count tells a byte from the end of the stream.
EndOfFile(i) == toParent[i] = << >>

NewlyAvailable(i) ==
  /\ Scanning(i)
  /\ ~EndOfFile(i)
  /\ toParent' = [toParent EXCEPT ![i] = SubSeq(@, 2, Len(@))]
  /\ status' = [status EXCEPT ![i] = ReadyAgain(@)]
  /\ navail' = navail + 1
  /\ rset' = rset \ {i}
  /\ UNCHANGED <<parent, accepted, childVars, toChild, clients>>

\* Read returns 0: err_quit.
ChildTerminatedMutant(i) ==
  /\ Scanning(i)
  /\ EndOfFile(i)
  /\ rset' = rset \ {i}
  /\ UNCHANGED <<parent, navail, status, accepted, childVars, toChild, toParent,
                 clients>>
ChildTerminated(i) ==
  /\ Scanning(i)
  /\ EndOfFile(i)
  /\ parent' = "child_terminated"
  /\ UNCHANGED <<parentVars, childVars, toChild, toParent, clients>>

\* sig_int kills and waits for the children, then exits.
Interrupt ==
  /\ parent = "running" /\ parent' = "interrupted"
  /\ child' = [i \in Children |-> "dead"]
  /\ UNCHANGED <<parentVars, serving, closed, toChild, toParent, clients>>

-----------------------------------------------------------------------------
(* A child                                                                   *)

\* The parent's end of child i's pipe was inherited by the children forked
\* after it: it is closed when they and the parent are gone.
PipeAbandonedMutant(i) == FALSE
PipeAbandoned(i) == /\ parent # "running"
                    /\ \A j \in Children : j > i => child[j] = "dead"

ReceiveConnection(i) ==
  /\ child[i] = "read_fd" /\ ReadFd(i)
  /\ child' = [child EXCEPT ![i] = "web_child"]
  /\ UNCHANGED <<parent, parentVars, closed, toParent, clients>>

CloseServedMutant(i) == UNCHANGED closed
CloseServed(i) == closed' = closed \cup {serving[i]}

\* The client closes, web_child returns; the child closes its descriptor and
\* reports.  The report succeeds while anybody has the other end, though only
\* the parent reads; else SIGPIPE ends the child.
ServeAndReport(i) ==
  /\ child[i] = "web_child"
  /\ CloseServed(i)
  /\ serving' = [serving EXCEPT ![i] = 0]
  /\ \/ /\ ~PipeAbandoned(i)
        /\ child' = [child EXCEPT ![i] = "read_fd"]
        /\ toParent' = [toParent EXCEPT ![i] = Append(@, "ready")]
     \/ /\ PipeAbandoned(i)
        /\ child' = [child EXCEPT ![i] = "dead"]
        /\ UNCHANGED toParent
  /\ UNCHANGED <<parent, parentVars, toChild, clients>>

\* web_child's err_quit on a bad request, or err_sys in Readline or Writen:
\* the text goes to standard error, then the child exits.
ReportError(i) ==
  /\ child[i] = "web_child" /\ ~PipeAbandoned(i)
  /\ child' = [child EXCEPT ![i] = "exiting"]
  /\ toParent' = [toParent EXCEPT ![i] = @ \o [k \in 1 .. TextBytes |-> "text"]]
  /\ UNCHANGED <<parent, parentVars, serving, closed, toChild, clients>>

ExitChild(i) ==
  /\ child[i] = "exiting"
  /\ child' = [child EXCEPT ![i] = "dead"]
  /\ UNCHANGED <<parent, parentVars, serving, closed, toChild, toParent, clients>>

\* SIGPIPE, when web_child writes to a client that has reset the connection, or
\* its error text to a pipe that nobody has the other end of.
KilledByClient(i) ==
  /\ child[i] = "web_child"
  /\ child' = [child EXCEPT ![i] = "dead"]
  /\ UNCHANGED <<parent, parentVars, serving, closed, toChild, toParent, clients>>

ReadFdReturnsZero(i) ==
  /\ child[i] = "read_fd" /\ toChild[i] = << >>
  /\ PipeAbandoned(i)
  /\ child' = [child EXCEPT ![i] = "dead"]
  /\ UNCHANGED <<parent, parentVars, serving, closed, toChild, toParent, clients>>

-----------------------------------------------------------------------------
ParentStep == \/ Select \/ AcceptAndPass
              \/ \E i \in Children : NewlyAvailable(i) \/ ChildTerminated(i)
ChildStep(i) == ReceiveConnection(i) \/ ExitChild(i) \/ ReadFdReturnsZero(i)
ClientStep(i) == ServeAndReport(i) \/ ReportError(i) \/ KilledByClient(i)

Next == \/ ClientConnects \/ ClientLeaves \/ ParentStep \/ Interrupt
        \/ \E i \in Children : ChildStep(i) \/ ClientStep(i)

Spec == Init /\ [][Next]_vars

\* Parent and children are scheduled; clients need not do anything.
FairSpec == /\ Spec /\ WF_vars(ParentStep)
            /\ \A i \in Children : WF_vars(ChildStep(i))

-----------------------------------------------------------------------------
(* Properties                                                                *)

TypeOK ==
  /\ parent \in {"running", "no_available_children", "write_fd",
                 "child_terminated", "interrupted"}
  /\ rset \subseteq Children \cup {Listen}
  /\ navail \in Nat /\ status \in [Children -> {0, 1}]
  /\ child \in [Children -> {"read_fd", "web_child", "exiting", "dead"}]
  /\ serving \in [Children -> Nat]
  /\ toChild \in [Children -> Seq(Nat)]
  /\ toParent \in [Children -> Seq({"ready", "text"})]
  /\ arrived \in Nat /\ left \in Nat /\ accepted \in Nat /\ closed \subseteq Nat

Sound(i) == child[i] \in {"read_fd", "web_child"}

\* While no child has failed, the parent's two records agree with each other
\* and with the children: navail counts the ready ones, and a busy child has
\* one connection in its pipe or in hand, or its report is not read yet.
Holds(i) == Len(toChild[i]) + (IF child[i] = "web_child" THEN 1 ELSE 0)
              + Len(toParent[i])
Accounting ==
  parent = "running" /\ (\A i \in Children : Sound(i)) =>
    /\ navail = Cardinality(Available)
    /\ \A i \in Children : status[i] = Holds(i)

\* "no available children" is said only after the text of a failing child has
\* been taken for reports of readiness.
RunsOutOnlyAfterFailure ==
  parent = "no_available_children" => \E i \in Children : ~Sound(i)

\* Descriptors are neither lost nor duplicated: an accepted connection is in
\* one pipe, with one child, or closed, unless the parent ended passing it.
Places(c) == {i \in Children : serving[i] = c \/ \E k \in DOMAIN toChild[i] : toChild[i][k] = c}
EveryConnectionPlaced ==
  \A c \in 1 .. accepted :
    \/ (\E i \in Children : Places(c) = {i}) /\ c \notin closed
    \/ Places(c) = {} /\ c \in closed
    \/ Places(c) = {} /\ c = accepted /\ parent \in {"no_available_children", "write_fd"}

\* A child that dies ends the server: the parent reads the end of its pipe.  But
\* where a connection goes between select and the blocking Accept (serv05.c:52),
\* the parent sleeps there, and for good if no other comes.
SleepsInAccept == parent = "running" /\ Listen \in rset /\ ~Waiting
DeathIsNoticed ==
  \A i \in Children : child[i] = "dead" ~> parent # "running" \/ []SleepsInAccept

\* Once the parent is gone no child stays behind in read_fd, except those whose
\* pipe a later child that still serves a client keeps open.
NoOrphans ==
  \A i \in Children :
    parent # "running" /\ child[i] = "read_fd"
      ~> child[i] # "read_fd" \/ \E j \in Children : j > i /\ child[j] = "web_child"

\* The parent's records, the children and the connections agree (serv05.c:43-80).
Consistent == TypeOK /\ Accounting /\ RunsOutOnlyAfterFailure /\ EveryConnectionPlaced

\* Each side learns of the other's end from the pipe (serv05.c:73, child05.c:41).
EndIsNoticed == DeathIsNoticed /\ NoOrphans
==============================================================================
