-------------------------- MODULE DgEchoSigio_proofs --------------------------
(* The safety of the SIGIO echo server for every ring size and any number of *)
(* datagrams.                                                                *)
EXTENDS DgEchoSigio, TLAPS

\* The ring index k slots after slot i.
After(i, k) == IF i + k >= QSIZE THEN i + k - QSIZE ELSE i + k

\* The slot of datagram sent + 1: once sendto has returned, the one after iget.
Head == IF pc = "advance" THEN Succ(iget) ELSE iget

\* What relates the ring's two indices, its contents and the count.
RingInv ==
  /\ sent <= numread /\ numread <= arrived
  /\ QueueCount
  /\ iput = After(Head, numread - sent)
  /\ \A k \in 0 .. numread - sent - 1 : dg[After(Head, k)] = sent + 1 + k

\* The main loop goes on to sendto only with a datagram on the ring.
LoopInv ==
  /\ pc \in {"unblock", "sendto"} => nqueue > 0
  /\ pc \in {"fioasync", "fionbio", "mask", "test", "suspend", "sigsuspend",
             "unblock", "decrement"} \/ blocked = {}
  /\ pc \in {"test", "suspend", "sigsuspend", "unblock", "decrement"}
       => blocked = {"SIGIO"}
  /\ pc \in {"test", "suspend", "unblock", "decrement"} => running = "dg_echo"

\* sig_io has put nread of the datagrams on the ring.
HandlerInv == nread <= QSIZE /\ (running = "sig_io" => nread <= nqueue)

\* What the kernel owes the server: SIGIO for each datagram after FIOASYNC.
SignalInv ==
  /\ "FIONBIO" \in ioflags <=> pc \notin {"fioasync", "fionbio"}
  /\ pc # "fioasync" => "FIOASYNC" \in ioflags
  /\ early <= arrived /\ (pc \in {"fioasync", "fionbio"} => early = arrived)
  /\ status = "running" /\ running = "dg_echo" /\ numread < arrived /\ early < arrived
       => "SIGIO" \in pending
  /\ pc \in {"suspend", "sigsuspend"} /\ running = "dg_echo" => nqueue = 0
  /\ status = "running" \/ running = "sig_io" \/ pc = "sendto"

IInv == TypeOK /\ RingInv /\ LoopInv /\ HandlerInv /\ SignalInv

-----------------------------------------------------------------------------
(* The invariant is inductive.                                               *)

LEMMA InitInv == Init => IInv
<1> SUFFICES ASSUME Init PROVE IInv
  OBVIOUS
<1> USE QSizeAssumption DEF Init
<1>1. TypeOK
  BY DEF TypeOK, Slots, MainPC
<1>2. RingInv
  BY DEF RingInv, QueueCount, Uncounted, Head, After
<1>3. LoopInv /\ HandlerInv /\ SignalInv
  BY DEF LoopInv, HandlerInv, SignalInv
<1> QED
  BY <1>1, <1>2, <1>3 DEF IInv

\* Slots of the ring counted from a slot i: within the ring, distinct for
\* distinct distances below QSIZE, and in step with ++i.
LEMMA AfterSlots ==
  ASSUME NEW i \in Slots, NEW j \in 0 .. QSIZE - 1, NEW k \in 0 .. QSIZE - 1
  PROVE  /\ After(i, j) \in Slots
         /\ j # k => After(i, j) # After(i, k)
         /\ After(i, j + 1) = Succ(After(i, j))
         /\ After(Succ(i), j) = After(i, j + 1)
         /\ After(i, 0) = i
         /\ Succ(i) \in Slots
  BY QSizeAssumption DEF After, Succ, Slots

\* nqueue-- and the ring's indices stay in their ranges.
LEMMA TypingStep == IInv /\ [Next]_vars => TypeOK'
<1> SUFFICES ASSUME IInv, [Next]_vars PROVE TypeOK'
  OBVIOUS
<1> USE QSizeAssumption
        DEF IInv, TypeOK, vars, mainVars, setupVars, ringVars, Slots, MainPC,
            MainAt, InHandler, Goto
<1>1. CASE HandlerRead
  BY <1>1 DEF HandlerRead, Succ
<1>2. CASE Advance
  BY <1>2 DEF Advance, Succ
<1>3. CASE Decrement
  BY <1>3 DEF Decrement, RingInv, QueueCount, Uncounted
<1>4. CASE Arrive
  <2>1. pending' = {"SIGIO"} \/ pending' = pending
    BY <1>4 DEF Arrive
  <2> QED
    BY <1>4, <2>1 DEF Arrive
<1>9. CASE Deliver
  BY <1>9 DEF Deliver
<1>11. CASE Hangup
  BY <1>11 DEF Hangup, Wake
<1>5. CASE HandlerOverflow \/ HandlerReturn \/ HandlerError
  BY <1>5 DEF HandlerOverflow, HandlerReturn, HandlerError, Wake
<1>6. CASE Setup
  BY <1>6 DEF Setup, SetAsync, SetNonblocking, BlockFirst
<1>7. CASE Unblock
  <2>1. nread' \in Nat /\ running' \in {"dg_echo", "sig_io"}
    BY <1>7 DEF Unblock
  <2> QED
    BY <1>7, <2>1 DEF Unblock
<1>10. CASE Test \/ Suspend \/ Send \/ SendFails \/ Block
  BY <1>10 DEF Test, Suspend, Send, SendFails, Block
<1>8. CASE UNCHANGED vars
  BY <1>8
<1> QED
  BY <1>1, <1>2, <1>3, <1>4, <1>5, <1>6, <1>7, <1>8, <1>9, <1>10,
     <1>11
  DEF Next, Handler, Setup, Loop

\* The ring keeps its order when sig_io fills the slot after the last datagram,
\* when sendto has taken the first, and when only the main loop moves on.
LEMMA RingStep == IInv /\ [Next]_vars => RingInv'
<1> SUFFICES ASSUME IInv, [Next]_vars PROVE RingInv'
  OBVIOUS
<1> USE QSizeAssumption
        DEF IInv, vars, mainVars, setupVars, ringVars, MainAt, InHandler, Goto
<1> DEFINE unsent == numread - sent
<1>0. /\ unsent \in 0 .. QSIZE
      /\ Head \in Slots /\ iget \in Slots
      /\ nqueue \in Nat /\ sent \in Nat /\ numread \in Nat /\ arrived \in Nat
      /\ dg \in [Slots -> Nat]
  <2>1. /\ iget \in Slots /\ nqueue \in Nat /\ sent \in Nat
        /\ numread \in Nat /\ arrived \in Nat /\ dg \in [Slots -> Nat]
    BY DEF TypeOK
  <2>2. Head \in Slots
    BY <2>1 DEF Head, Slots, Succ
  <2> QED
    BY <2>1, <2>2 DEF RingInv, QueueCount, Uncounted
<1>1. CASE HandlerRead
  <2> USE <1>1 DEF HandlerRead
  <2>1. Head' = Head /\ Uncounted' = Uncounted
    BY DEF Head, Uncounted
  <2>2. unsent < QSIZE /\ QueueCount'
    BY <1>0, <2>1 DEF Full, RingInv, QueueCount, Uncounted
  <2>3. iput = After(Head, unsent) /\ iput \in Slots
    BY DEF RingInv, TypeOK
  <2>4. iput' = After(Head', numread' - sent')
    <3>1. numread' - sent' = unsent + 1 /\ unsent \in 0 .. QSIZE - 1
      BY <1>0, <2>2
    <3>2. iput' = Succ(iput)
      OBVIOUS
    <3>3. After(Head, unsent + 1) = Succ(After(Head, unsent))
      BY <1>0, <3>1, AfterSlots
    <3> QED
      BY <2>1, <2>3, <3>1, <3>2, <3>3
  <2>5. ASSUME NEW k \in 0 .. numread' - sent' - 1
        PROVE  dg'[After(Head', k)] = sent' + 1 + k
    <3>1. CASE k = unsent
      BY <1>0, <2>1, <2>3, <3>1
    <3>2. CASE k # unsent
      <4>1. k \in 0 .. unsent - 1 /\ k \in 0 .. QSIZE - 1
        BY <1>0, <2>2, <3>2
      <4>2. After(Head, k) # iput /\ After(Head, k) \in Slots
        BY <1>0, <2>2, <2>3, <3>2, <4>1, AfterSlots
      <4> QED
        BY <1>0, <2>1, <4>1, <4>2 DEF RingInv
    <3> QED
      BY <3>1, <3>2
  <2> QED
    BY <1>0, <2>2, <2>4, <2>5 DEF RingInv
<1>2. CASE Send
  <2> USE <1>2 DEF Send
  <2>1. Head = iget /\ Head' = Succ(iget) /\ Uncounted = 0 /\ Uncounted' = 1
    BY DEF Head, Uncounted
  <2>2. unsent > 0
    BY <1>0, <2>1 DEF LoopInv, RingInv, QueueCount
  <2>3. sent' = sent + 1
    BY <1>0, <2>1, <2>2, AfterSlots DEF RingInv
  <2>4. iput' = After(Head', numread' - sent')
    BY <1>0, <2>1, <2>2, <2>3, AfterSlots DEF RingInv
  <2>5. ASSUME NEW k \in 0 .. numread' - sent' - 1
        PROVE  dg'[After(Head', k)] = sent' + 1 + k
    <3>1. k \in 0 .. QSIZE - 1 /\ k + 1 \in 0 .. unsent - 1
      BY <1>0, <2>3
    <3>2. After(Head', k) = After(Head, k + 1)
      BY <1>0, <2>1, <3>1, AfterSlots
    <3> QED
      BY <1>0, <2>3, <3>1, <3>2 DEF RingInv
  <2> QED
    BY <1>0, <2>1, <2>2, <2>3, <2>4, <2>5 DEF RingInv, QueueCount
<1>3. CASE Advance
  BY <1>0, <1>3 DEF Advance, RingInv, QueueCount, Uncounted, Head
<1>4. CASE Decrement
  BY <1>0, <1>4 DEF Decrement, RingInv, QueueCount, Uncounted, Head
<1>5. CASE Arrive
  BY <1>0, <1>5 DEF Arrive, RingInv, QueueCount, Uncounted, Head
<1>6. CASE Deliver \/ Hangup \/ HandlerOverflow \/ HandlerReturn \/ HandlerError
  BY <1>0, <1>6 DEF Deliver, Hangup, HandlerOverflow, HandlerReturn,
     HandlerError, Wake, RingInv, QueueCount, Uncounted, Head
<1>7. CASE Setup \/ Test \/ Suspend \/ Unblock \/ SendFails \/ Block
  <2>1. UNCHANGED <<dg, iget, iput, nqueue, numread, sent, arrived>>
    BY <1>7 DEF Setup, SetAsync, SetNonblocking, BlockFirst, Test, Suspend,
       Unblock, SendFails, Block
  <2>2. Head' = Head /\ Uncounted' = Uncounted
    BY <1>7 DEF Setup, SetAsync, SetNonblocking, BlockFirst, Test, Suspend,
       Unblock, SendFails, Block, Head, Uncounted, Succ
  <2> QED
    BY <2>1, <2>2 DEF RingInv, QueueCount, After
<1>8. CASE UNCHANGED vars
  BY <1>8 DEF RingInv, QueueCount, Uncounted, Head, After, Succ
<1> QED
  BY <1>1, <1>2, <1>3, <1>4, <1>5, <1>6, <1>7, <1>8
  DEF Next, Handler, Setup, Loop

\* Only the handler adds to nqueue and only the main loop subtracts, each while
\* the other stands still, so what the main loop has tested stays true.
LEMMA LoopStep == IInv /\ [Next]_vars => LoopInv' /\ HandlerInv'
<1> SUFFICES ASSUME IInv, [Next]_vars PROVE LoopInv' /\ HandlerInv'
  OBVIOUS
<1> USE QSizeAssumption
        DEF IInv, vars, mainVars, setupVars, ringVars, MainAt, InHandler, Goto
<1>1. CASE HandlerRead
  BY <1>1 DEF HandlerRead, RingInv, QueueCount, Uncounted, TypeOK, Full,
     LoopInv, HandlerInv
<1>2. CASE HandlerReturn
  BY <1>2 DEF HandlerReturn, Wake, LoopInv, HandlerInv
<1>3. CASE Deliver
  BY <1>3 DEF Deliver, TypeOK, CanDeliver, LoopInv, HandlerInv
<1>4. CASE Arrive
  BY <1>4 DEF Arrive, LoopInv, HandlerInv
<1>5. CASE Hangup
  BY <1>5 DEF Hangup, Wake, LoopInv, HandlerInv
<1>6. CASE HandlerOverflow \/ HandlerError
  BY <1>6 DEF HandlerOverflow, HandlerError, LoopInv, HandlerInv
<1>7. CASE SetAsync \/ SetNonblocking \/ BlockFirst
  BY <1>7 DEF SetAsync, SetNonblocking, BlockFirst, LoopInv, HandlerInv
<1>8. CASE Test \/ Suspend
  BY <1>8 DEF Test, Suspend, TypeOK, LoopInv, HandlerInv
<1>9. CASE Unblock
  BY <1>9 DEF Unblock, TypeOK, LoopInv, HandlerInv
<1>10. CASE Send \/ SendFails
  BY <1>10 DEF Send, SendFails, LoopInv, HandlerInv
<1>11. CASE Advance \/ Block
  BY <1>11 DEF Advance, Block, LoopInv, HandlerInv
<1>12. CASE Decrement
  BY <1>12 DEF Decrement, TypeOK, LoopInv, HandlerInv
<1>13. CASE UNCHANGED vars
  BY <1>13 DEF LoopInv, HandlerInv
<1> QED
  BY <1>1, <1>2, <1>3, <1>4, <1>5, <1>6, <1>7, <1>8, <1>9, <1>10, <1>11,
     <1>12, <1>13 DEF Next, Handler, Setup, Loop

\* An arrival makes SIGIO pending; only a handler that finds the socket empty,
\* or the end of the process, leaves it without.
LEMMA SignalStep == IInv /\ [Next]_vars => SignalInv'
<1> SUFFICES ASSUME IInv, [Next]_vars PROVE SignalInv'
  OBVIOUS
<1> USE QSizeAssumption
        DEF IInv, vars, mainVars, setupVars, ringVars, MainAt, InHandler, Goto
<1>1. CASE Arrive
  BY <1>1 DEF Arrive, TypeOK, SignalInv
<1>2. CASE Deliver
  BY <1>2 DEF Deliver, SignalInv
<1>3. CASE Hangup
  BY <1>3 DEF Hangup, Wake, LoopInv, SignalInv
<1>4. CASE HandlerRead
  BY <1>4 DEF HandlerRead, TypeOK, SignalInv
<1>5. CASE HandlerReturn
  BY <1>5 DEF HandlerReturn, Wake, LoopInv, TypeOK, SignalInv
<1>6. CASE HandlerOverflow \/ HandlerError
  BY <1>6 DEF HandlerOverflow, HandlerError, SignalInv
<1>7. CASE SetAsync
  BY <1>7 DEF SetAsync, SignalInv
<1>8. CASE SetNonblocking
  <2> USE <1>8 DEF SetNonblocking
  <2>1. "FIONBIO" \in ioflags' /\ pc' = "mask" /\ early' = early
    OBVIOUS
  <2>2. "FIOASYNC" \in ioflags' /\ early' = arrived'
    BY DEF SignalInv
  <2> QED
    BY <2>1, <2>2 DEF SignalInv, TypeOK
<1>9. CASE BlockFirst
  BY <1>9 DEF BlockFirst, SignalInv
<1>10. CASE Test
  BY <1>10 DEF Test, SignalInv
<1>11. CASE Suspend
  BY <1>11 DEF Suspend, SignalInv
<1>12. CASE Unblock
  BY <1>12 DEF Unblock, SignalInv
<1>13. CASE Send \/ SendFails
  BY <1>13 DEF Send, SendFails, SignalInv
<1>14. CASE Advance \/ Block \/ Decrement
  BY <1>14 DEF Advance, Block, Decrement, SignalInv
<1>15. CASE UNCHANGED vars
  BY <1>15 DEF SignalInv
<1> QED
  BY <1>1, <1>2, <1>3, <1>4, <1>5, <1>6, <1>7, <1>8, <1>9, <1>10, <1>11,
     <1>12, <1>13, <1>14, <1>15 DEF Next, Handler, Setup, Loop

LEMMA StepInv == IInv /\ [Next]_vars => IInv'
  BY TypingStep, RingStep, LoopStep, SignalStep DEF IInv

-----------------------------------------------------------------------------
(* What the invariant gives.                                                 *)

\* The strengthened invariant holds throughout.
THEOREM Inductive == Spec => []IInv
  BY InitInv, StepInv, PTL DEF Spec

\* dg_echo's and sig_io's variables keep their types: iget and iput stay slots
\* of dg[QSIZE], and nqueue-- never takes the count below 0.
THEOREM Typing == Spec => []TypeOK
<1>1. IInv => TypeOK
  BY DEF IInv
<1> QED
  BY <1>1, Inductive, PTL

\* nqueue counts the datagrams on the ring, whichever instruction of the main
\* loop the handler interrupts, and cntread's index stays in its array.
THEOREM Counting == Spec => []QueueCount
<1>1. IInv => QueueCount
  BY DEF IInv, RingInv
<1> QED
  BY <1>1, Inductive, PTL

\* sig_io never reads into a slot whose datagram dg_echo has still to send.
THEOREM RingSafety == Spec => []NotOverwritten
<1>1. IInv => NotOverwritten
  <2> SUFFICES ASSUME IInv, NEW n \in sent + 1 .. numread
               PROVE  \E i \in Slots : dg[i] = n
    BY DEF NotOverwritten
  <2> DEFINE k == n - sent - 1
  <2>1. sent \in Nat /\ numread \in Nat /\ nqueue \in Nat /\ iget \in Slots
    BY DEF IInv, TypeOK
  <2>2. n \in Int /\ n >= sent + 1 /\ n <= numread
    BY <2>1
  <2>3. numread - sent <= QSIZE
    BY <2>1, QSizeAssumption DEF IInv, RingInv, QueueCount, Uncounted
  <2>4. k \in 0 .. numread - sent - 1 /\ k \in 0 .. QSIZE - 1
    BY <2>1, <2>2, <2>3, QSizeAssumption
  <2>5. Head \in Slots
    BY <2>1, QSizeAssumption DEF Head, Slots, Succ
  <2>6. After(Head, k) \in Slots
    BY <2>4, <2>5, AfterSlots
  <2>7. dg[After(Head, k)] = sent + 1 + k
    BY <2>4 DEF IInv, RingInv
  <2> QED
    BY <2>1, <2>2, <2>6, <2>7
<1> QED
  BY <1>1, Inductive, PTL

\* The three together: what the run checks of the ring.
THEOREM RingIsSound == Spec => []RingSound
BY Typing, Counting, RingSafety, PTL DEF RingSound

\* Testing nqueue with SIGIO blocked and waiting in sigsuspend loses no signal.
THEOREM Wakeups == Spec => []NoLostWakeup
<1>1. IInv => NoLostWakeup
  BY DEF IInv, SignalInv, NoLostWakeup
<1> QED
  BY <1>1, Inductive, PTL

\* dg_echo sends every datagram back once, in the order of arrival.
THEOREM Refinement == Spec => EchoesInOrder
<1> USE DEF Echo!ServiceSpec, Echo!ServiceInit, Echo!ServiceNext, Echo!Accept, Echo!Serve,
            Echo!End
<1>1. Init => Echo!ServiceInit
  BY DEF Init
<1>2. IInv /\ [Next]_vars
        => [Echo!ServiceNext]_<<arrived, sent,
                             IF status = "running" THEN "running" ELSE "ended">>
  <2> SUFFICES ASSUME IInv, [Next]_vars
               PROVE  [Echo!ServiceNext]_<<arrived, sent,
                             IF status = "running" THEN "running" ELSE "ended">>
    OBVIOUS
  <2> USE DEF vars, mainVars, setupVars, ringVars, MainAt, InHandler
  <2>1. CASE Arrive
    BY <2>1 DEF Arrive
  <2>2. CASE Send
    <3>1. status = "running" /\ status' = status /\ arrived' = arrived
      BY <2>2 DEF Send
    <3>2. sent' = sent + 1 /\ sent < arrived
      <4> USE <2>2 DEF Send, IInv
      <4>1. /\ sent \in Nat /\ numread \in Nat /\ arrived \in Nat
            /\ nqueue \in Nat /\ iget \in Slots
        BY DEF TypeOK
      <4>2. Head = iget /\ Uncounted = 0 /\ nqueue > 0
        BY DEF Head, Uncounted, LoopInv
      <4>3. sent < numread /\ numread <= arrived
        BY <4>1, <4>2 DEF RingInv, QueueCount
      <4>4. 0 \in 0 .. numread - sent - 1
        BY <4>1, <4>3
      <4>5. dg[After(Head, 0)] = sent + 1 + 0
        BY <4>4 DEF RingInv
      <4>6. After(Head, 0) = iget
        BY <4>1, <4>2, QSizeAssumption DEF After, Slots
      <4> QED
        BY <4>1, <4>2, <4>3, <4>5, <4>6
    <3> QED
      BY <3>1, <3>2
  <2>3. CASE HandlerOverflow \/ HandlerError \/ SendFails
    BY <2>3 DEF HandlerOverflow, HandlerError, SendFails
  <2>4. CASE Deliver \/ Hangup \/ HandlerRead \/ HandlerReturn
    BY <2>4 DEF Deliver, Hangup, HandlerRead, HandlerReturn
  <2>5. CASE Setup \/ Test \/ Suspend \/ Unblock \/ Advance \/ Block \/ Decrement
    BY <2>5 DEF Setup, SetAsync, SetNonblocking, BlockFirst, Test, Suspend, Unblock,
       Advance, Block, Decrement
  <2>6. CASE UNCHANGED vars
    BY <2>6
  <2> QED
    BY <2>1, <2>2, <2>3, <2>4, <2>5, <2>6 DEF Next, Handler, Loop
<1> QED
  BY <1>1, <1>2, Inductive, PTL DEF Spec, EchoesInOrder
=============================================================================
