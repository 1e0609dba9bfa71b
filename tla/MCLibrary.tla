----------------------------- MODULE MCLibrary ------------------------------
(* The library functions in one run: getaddrinfo with its callers, and the    *)
(* conversions of addresses and the checksum; program says which are called.  *)
EXTENDS GetAddrInfo

CONSTANTS Words, MaxDigits, Bytes, MaxBytes

VARIABLES
  program,  \* the one that runs
  at_task, at_input, at_output

AT ==
  INSTANCE AddressText WITH task <- at_task, input <- at_input,
                            output <- at_output

at_vars == <<at_task, at_input, at_output>>
all == <<vars, at_vars, program>>

\* One program runs; the others do not.
Lists == program = "getaddrinfo" /\ UNCHANGED <<at_vars, program>>
Texts == program = "text" /\ UNCHANGED <<vars, program>>

Programs == {"getaddrinfo", "text"}

\* What does not run starts in one state.
SumInit ==
  /\ program \in Programs /\ Init
  /\ program # "getaddrinfo" =>
       caller = "program" /\ host = "none" /\ serv = "none" /\ hints = TcpHints(FALSE)
  /\ \/ program = "text" /\ AT!Init
     \/ program # "text" /\ at_task = "cksum" /\ at_input = <<>> /\ at_output = <<>>

SumNext ==
  \/ Lists /\ Next
  \/ Texts /\ AT!Next

SumSpec == SumInit /\ [][SumNext]_all

-----------------------------------------------------------------------------
(* Properties                                                                *)

\* getaddrinfo.c and its callers (GetAddrInfo): the list is right and complete,
\* structures are freed or handed over, sockets closed or returned.
ResultsAndResources == ListIsComplete /\ NothingLeaks /\ SocketsClosed

\* inet_ntop.c, inet_pton.c, in_cksum.c (AddressText): what is written is read
\* back, what is read is what the text means, a checksum verifies.
TextAndBinaryAgree ==
  AT!WrittenIsRead /\ AT!ReadAsMeant /\ AT!QuadIsFourOctets /\ AT!ChecksumVerifies
==============================================================================
