----------------------------- MODULE MCPrefork ------------------------------
(* The preforked servers in one run: the ones whose workers accept            *)
(* (PreforkAccept) and serv05, whose parent accepts and passes descriptors    *)
(* (PreforkFdPass); program says which of them runs.                          *)
EXTENDS PreforkAccept

CONSTANTS N, TextBytes, MaxConns

ASSUME PassingAssumption == N \in Nat \ {0} /\ TextBytes \in Nat \ {0} /\ MaxConns \in Nat

VARIABLES
  program,  \* the one that runs
  fp_parent, fp_rset, fp_navail, fp_status, fp_child, fp_serving, fp_toChild,
  fp_toParent, fp_arrived, fp_left, fp_accepted, fp_closed

FP ==
  INSTANCE PreforkFdPass WITH parent <- fp_parent, rset <- fp_rset,
                              navail <- fp_navail, status <- fp_status,
                              child <- fp_child, serving <- fp_serving,
                              toChild <- fp_toChild, toParent <- fp_toParent,
                              arrived <- fp_arrived, left <- fp_left,
                              accepted <- fp_accepted, closed <- fp_closed

fp_vars == <<fp_parent, fp_rset, fp_navail, fp_status, fp_child, fp_serving,
             fp_toChild, fp_toParent, fp_arrived, fp_left, fp_accepted,
             fp_closed>>
all == <<vars, fp_vars, program>>

\* One program runs; the others do not.
Accepting == program = "accept" /\ UNCHANGED <<fp_vars, program>>
Passing == program = "fd_pass" /\ UNCHANGED <<vars, program>>

Programs == {"accept", "fd_pass"}

\* What does not run starts in one state.
SumInit ==
  /\ program \in Programs /\ Init /\ FP!Init
  /\ program # "accept" => version = "serv02"

SumNext ==
  \/ Accepting /\ Next
  \/ Passing /\ FP!Next

\* The fairness of the modules' own FairSpec.
SumSpec ==
  /\ SumInit /\ [][SumNext]_all
  /\ WF_all(Accepting /\ Stopping)
  /\ \A w \in Workers : /\ WF_all(Accepting /\ WorkerStep(w))
                        /\ SF_all(Accepting /\ LockWait(w))
  /\ WF_all(Passing /\ FP!ParentStep)
  /\ \A i \in FP!Children : WF_all(Passing /\ FP!ChildStep(i))

-----------------------------------------------------------------------------
(* Properties                                                                *)

\* serv05.c (PreforkFdPass): navail, child_status and the children agree; the
\* meters of the others count what was accepted.
Consistent == FP!Consistent /\ MetersCount

\* serv05.c: see PreforkFdPass.
EndIsNoticed == FP!EndIsNoticed
==============================================================================
