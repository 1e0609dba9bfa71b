----------------------------- MODULE Echo_proofs ------------------------------
(* The echo clients and servers, for any number of lines, clients and faults   *)
(* and any sizes of the buffers.  What is typed into str_cli goes through its  *)
(* connection in order and is complete when the client ends (Delivered); what  *)
(* the UDP clients print answers what they asked, and the server for UDP and   *)
(* TCP stops only for what can be named (DatagramsMatch); an SCTP client that  *)
(* gets all its replies gets its own messages, whole and in the order of each  *)
(* stream (RepliesMatch).                                                      *)
EXTENDS MCEcho, FiniteSetTheorems, SequenceTheorems, TLAPS

-----------------------------------------------------------------------------
(* str_cli: what is where                                                    *)

Versions == {"str_cli", "select01", "select02", "nonb", "fork"}
Places   == {"fgets", "select", "sock", "stdin", "stdout", "write", "writen",
             "readline", "fputs", "pause"} \cup Ended

Types ==
  /\ version \in Versions /\ cli \in Places
  /\ server \in {"read", "write", "ended", "crashed"}
  /\ typed \in Nat /\ shown \in Nat /\ toi \in 0 .. MAXLINE /\ fri \in 0 .. MAXLINE
  /\ eof \in {"no", "yes"} /\ fin \in {"no", "yes"} /\ stdineof \in {0, 1}
  /\ /\ out \in Seq(Nat) /\ fr \in Seq(Nat) /\ s2c \in Seq(Nat) /\ sbuf \in Seq(Nat)
     /\ c2s \in Seq(Nat) /\ to \in Seq(Nat) /\ inbuf \in Seq(Nat)
     /\ stdinq \in Seq(Nat)

\* What is left of the input, and in stdio's buffer and to, at each place.
InputInv ==
  /\ stdineof = 1 => eof = "yes" /\ stdinq = <<>> /\ inbuf = <<>>
  /\ ~Stdio => inbuf = <<>>
  /\ version # "nonb" /\ cli \notin Ended \cup {"writen"} => to = <<>>
  /\ cli = "writen" => to # <<>> /\ version # "nonb"
  /\ version = "nonb" => cli \in {"select", "stdin", "sock", "stdout", "write"} \cup Ended
  /\ version = "nonb" /\ cli = "stdin" /\ "stdin" \in rset => stdinq # <<>> \/ eof = "yes"

\* The server holds lines only while it writes, and ends at the FIN.
ServerInv ==
  /\ sbuf # <<>> <=> server = "write"
  /\ server = "ended" => c2s = <<>> /\ fin = "yes"

\* select02 writes all it has read; strclinonb never writes more than fits.
ReaderInv ==
  /\ version = "select02" /\ cli # "fputs" => fr = <<>>
  /\ version = "nonb" => Len(c2s) <= SockBuf /\ Len(out) - shown <= Stdout

\* str_cli has at most one line on its way.
Flight == Len(fr) + Len(s2c) + Len(sbuf) + Len(c2s)
LockStep ==
  version = "str_cli" /\ server # "crashed" =>
    /\ cli = "fgets" => Flight = 0
    /\ cli = "writen" => Flight = 0 /\ Len(to) = 1
    /\ cli = "readline" => Flight = 1
    /\ cli = "fputs" => Flight = 1 /\ Len(fr) = 1

\* Once the client has returned nothing is typed or shown.
ReturnInv ==
  cli = "returned" /\ version # "select01" /\ server # "crashed" =>
    eof = "yes" /\ (version = "fork" => child = "exited")

IInv == /\ Types /\ InputInv /\ ServerInv /\ ReaderInv /\ LockStep /\ ReturnInv
        /\ Delivered

-----------------------------------------------------------------------------
(* Lemmas about sequences                                                    *)

\* A prefix of a sequence and what follows it.
LEMMA Split ==
  ASSUME NEW n \in Nat, NEW s \in Seq(Nat)
  PROVE  /\ UpTo(n, s) \in Seq(Nat) /\ After(n, s) \in Seq(Nat)
         /\ UpTo(n, s) \o After(n, s) = s
         /\ Len(UpTo(n, s)) = IF n < Len(s) THEN n ELSE Len(s)
         /\ Len(UpTo(n, s)) + Len(After(n, s)) = Len(s)
         /\ After(Len(UpTo(n, s)), s) = After(n, s)
         /\ Len(UpTo(n, s)) <= n /\ Len(UpTo(n, s)) \in Nat /\ Len(s) \in Nat
<1> DEFINE k == IF n < Len(s) THEN n ELSE Len(s)
<1>1. Len(s) \in Nat /\ \A j \in 1 .. Len(s) : s[j] \in Nat
  BY LenProperties, ElementOfSeq
<1>2. k \in 0 .. Len(s)
  BY <1>1
<1>3. UpTo(n, s) = SubSeq(s, 1, k)
  BY DEF UpTo
<1>4. After(n, s) = SubSeq(s, k + 1, Len(s))
  <2>1. CASE n < Len(s)
    BY <2>1 DEF After
  <2>2. CASE ~(n < Len(s))
    <3>1. SubSeq(s, n + 1, Len(s)) = <<>> /\ SubSeq(s, k + 1, Len(s)) = <<>>
      BY <2>2, <1>1, SubSeqEmpty
    <3> QED
      BY <3>1 DEF After
  <2> QED
    BY <2>1, <2>2
<1>5. k \in Int /\ k + 1 \in Int /\ 1 \in Int /\ Len(s) \in Int
  BY <1>1, <1>2
<1> HIDE DEF k
<1>6. SubSeq(s, 1, k) \in Seq(Nat) /\ Len(SubSeq(s, 1, k)) = k
  <2>1. \A j \in 1 .. k : s[j] \in Nat
    BY <1>1, <1>2
  <2> QED
    BY <2>1, <1>2, <1>5, SubSeqProperties
<1>7. /\ SubSeq(s, k + 1, Len(s)) \in Seq(Nat)
      /\ Len(SubSeq(s, k + 1, Len(s))) = Len(s) - k
  <2>1. \A j \in (k + 1) .. Len(s) : s[j] \in Nat
    BY <1>1, <1>2
  <2> QED
    BY <2>1, <1>1, <1>2, <1>5, SubSeqProperties
<1>8. SubSeq(s, 1, k) \o SubSeq(s, k + 1, Len(s)) = SubSeq(s, 1, Len(s))
  <2>1. 1 \in 1 .. Len(s) + 1 /\ k \in 1 - 1 .. Len(s) /\ Len(s) \in k .. Len(s)
    BY <1>1, <1>2
  <2> QED
    BY <2>1, ConcatAdjacentSubSeq
<1>9. SubSeq(s, 1, Len(s)) = s
  BY SubSeqFull
<1>10. After(Len(UpTo(n, s)), s) = After(n, s)
  BY <1>3, <1>4, <1>6 DEF After
<1>11. Len(UpTo(n, s)) = k /\ Len(UpTo(n, s)) + Len(After(n, s)) = Len(s)
  <2>1. Len(UpTo(n, s)) = k /\ Len(After(n, s)) = Len(s) - k
    BY ONLY <1>3, <1>4, <1>6, <1>7
  <2>2. k + (Len(s) - k) = Len(s)
    BY <1>1, <1>2
  <2> QED
    BY ONLY <2>1, <2>2
<1>12. UpTo(n, s) \o After(n, s) = s
  BY ONLY <1>3, <1>4, <1>8, <1>9
<1>13. Len(UpTo(n, s)) <= n /\ Len(UpTo(n, s)) \in Nat
  BY <1>1, <1>11 DEF k
<1> QED
  BY <1>1, <1>3, <1>4, <1>6, <1>7, <1>10, <1>11, <1>12, <1>13 DEF k

\* A prefix that takes something of what is not empty.
LEMMA SplitSome ==
  ASSUME NEW n \in Nat, NEW s \in Seq(Nat), n > 0, s # <<>>
  PROVE  UpTo(n, s) # <<>>
<1>1. Len(s) > 0
  BY EmptySeq
<1>2. Len(UpTo(n, s)) > 0
  BY <1>1, Split
<1> QED
  BY <1>2

\* Concatenation is associative on sequences of lines.
LEMMA Assoc ==
  \A a, b, c \in Seq(Nat) : (a \o b) \o c = a \o (b \o c)
BY ConcatAssociative

\* The first element of b moves to the end of a.
LEMMA MoveHead ==
  ASSUME NEW a \in Seq(Nat), NEW b \in Seq(Nat), b # <<>>
  PROVE  /\ Head(b) \in Nat /\ <<Head(b)>> \in Seq(Nat) /\ Tail(b) \in Seq(Nat)
         /\ Append(a, Head(b)) \in Seq(Nat)
         /\ Append(a, Head(b)) \o Tail(b) = a \o b
         /\ <<Head(b)>> \o Tail(b) = b
         /\ Len(Append(a, Head(b))) = Len(a) + 1 /\ Len(Tail(b)) = Len(b) - 1
         /\ Len(b) \in Nat \ {0}
<1>1. Head(b) \in Nat /\ Tail(b) \in Seq(Nat) /\ Len(Tail(b)) = Len(b) - 1
  BY HeadTailProperties
<1>2. <<Head(b)>> \in Seq(Nat)
  BY <1>1
<1>3. Len(b) \in Nat \ {0}
  BY EmptySeq
<1>4. <<Head(b)>> \o Tail(b) = b
  <2>1. SubSeq(b, 1, Len(b)) = <<b[1]>> \o SubSeq(b, 2, Len(b))
    BY <1>3, SubSeqRecursiveFirst
  <2>2. SubSeq(b, 1, Len(b)) = b /\ Tail(b) = SubSeq(b, 2, Len(b)) /\ Head(b) = b[1]
    BY <1>3, SubSeqFull, TailIsSubSeq
  <2> QED
    BY ONLY <2>1, <2>2
<1>5. /\ Append(a, Head(b)) \in Seq(Nat) /\ Append(a, Head(b)) = a \o <<Head(b)>>
      /\ Len(Append(a, Head(b))) = Len(a) + 1
  BY <1>1, AppendIsConcat, AppendProperties
<1>6. (a \o <<Head(b)>>) \o Tail(b) = a \o (<<Head(b)>> \o Tail(b))
  BY <1>1, <1>2, ConcatAssociative
<1>7. Append(a, Head(b)) \o Tail(b) = a \o b
  BY ONLY <1>4, <1>5, <1>6
<1> QED
  BY <1>1, <1>2, <1>3, <1>4, <1>5, <1>7

-----------------------------------------------------------------------------
(* Types                                                                     *)

LEMMA InitInv == Init => IInv
<1> SUFFICES ASSUME Init PROVE IInv
  OBVIOUS
<1> USE DEF Init
<1>1. Types
  BY SizeAssumption DEF Types, Versions, Places, Ended
<1>2. InputInv /\ ServerInv /\ ReturnInv
  BY DEF InputInv, ServerInv, ReturnInv, Ended
<1>3. ReaderInv /\ LockStep
  BY EmptySeq, SizeAssumption DEF ReaderInv, LockStep, Flight
<1>4. Typed = <<>>
  BY DEF Typed
<1>5. Delivered
  <2>1. \A s \in Seq(Nat) : s \o <<>> = s
    BY ConcatEmptySeq
  <2>2. <<>> \in Seq(Nat)
    OBVIOUS
  <2>3. Pipeline
    BY <1>4, <2>1, <2>2 DEF Pipeline
  <2> QED
    BY <2>3 DEF Delivered, CompleteAtReturn, FinAfterInput
<1> QED
  BY <1>1, <1>2, <1>3, <1>5 DEF IInv

-----------------------------------------------------------------------------
(* What each action moves                                                    *)

\* The server takes lines from the connection.
LEMMA EchoReadMoves ==
  ASSUME Types, EchoRead
  PROVE  /\ sbuf' \in Seq(Nat) /\ c2s' \in Seq(Nat) /\ sbuf' # <<>>
         /\ sbuf' \o c2s' = c2s /\ Len(sbuf') + Len(c2s') = Len(c2s)
         /\ Len(c2s') <= Len(c2s)
<1>1. c2s \in Seq(Nat) /\ c2s # <<>> /\ MAXLINE \in Nat /\ MAXLINE > 0
  BY SizeAssumption DEF Types, EchoRead
<1>2. sbuf' = UpTo(MAXLINE, c2s) /\ c2s' = After(MAXLINE, c2s)
  BY DEF EchoRead
<1>3. sbuf' \in Seq(Nat) /\ c2s' \in Seq(Nat) /\ sbuf' # <<>>
  BY <1>1, <1>2, Split, SplitSome
<1>4. sbuf' \o c2s' = c2s /\ Len(sbuf') + Len(c2s') = Len(c2s)
  BY <1>1, <1>2, Split
<1> QED
  BY <1>3, <1>4

\* The server returns a line of its buffer.
LEMMA EchoWriteMoves ==
  ASSUME Types, ServerInv, EchoWrite
  PROVE  /\ s2c' \in Seq(Nat) /\ sbuf' \in Seq(Nat)
         /\ s2c' \o sbuf' = s2c \o sbuf
         /\ Len(s2c') + Len(sbuf') = Len(s2c) + Len(sbuf)
<1>1. s2c \in Seq(Nat) /\ sbuf \in Seq(Nat) /\ sbuf # <<>>
  BY DEF Types, ServerInv, EchoWrite
<1>2. s2c' = Append(s2c, Head(sbuf)) /\ sbuf' = Tail(sbuf)
  BY DEF EchoWrite
<1> QED
  BY <1>1, <1>2, MoveHead

\* The client reads its input.
LEMMA ReadInputMoves ==
  ASSUME Types, InputInv, ReadInput
  PROVE  /\ to' \in Seq(Nat) /\ inbuf' \in Seq(Nat) /\ stdinq' \in Seq(Nat)
         /\ to = <<>> /\ to' # <<>> /\ (Stdio => Len(to') = 1)
         /\ (~Stdio => inbuf' = <<>>)
         /\ (to' \o inbuf') \o stdinq' = inbuf \o stdinq
<1> USE DEF Types
<1>1. to = <<>>
  BY DEF InputInv, ReadInput, AtInput, Select, Ended
<1>2. CASE Stdio /\ inbuf # <<>>
  <2>1. to' = <<Head(inbuf)>> /\ inbuf' = Tail(inbuf) /\ stdinq' = stdinq
    BY <1>2 DEF ReadInput
  <2>2. to' \in Seq(Nat) /\ inbuf' \in Seq(Nat) /\ to' \o inbuf' = inbuf
    BY <1>2, <2>1, MoveHead
  <2>3. to' # <<>> /\ Len(to') = 1
    BY <2>1
  <2> QED
    BY <1>1, <1>2, <2>1, <2>2, <2>3
<1>3. CASE Stdio /\ inbuf = <<>>
  <2>1. /\ to' = <<Head(stdinq)>> /\ inbuf' = Tail(stdinq) /\ stdinq' = <<>>
        /\ stdinq # <<>>
    BY <1>3 DEF ReadInput
  <2>2. /\ to' \in Seq(Nat) /\ inbuf' \in Seq(Nat) /\ stdinq' \in Seq(Nat)
        /\ to' \o inbuf' = stdinq
    BY <2>1, MoveHead
  <2>3. to' # <<>> /\ Len(to') = 1
    BY <2>1
  <2>4. stdinq \o <<>> = stdinq /\ <<>> \o stdinq = stdinq
    BY ConcatEmptySeq
  <2>5. (to' \o inbuf') \o stdinq' = inbuf \o stdinq
    BY ONLY <1>3, <2>1, <2>2, <2>4
  <2> QED
    BY <1>1, <1>3, <2>2, <2>3, <2>5
<1>4. CASE ~Stdio
  <2>1. /\ to' = UpTo(MAXLINE, stdinq) /\ stdinq' = After(MAXLINE, stdinq)
        /\ inbuf' = inbuf /\ stdinq # <<>>
    BY <1>4 DEF ReadInput
  <2>2. MAXLINE \in Nat /\ MAXLINE > 0 /\ stdinq \in Seq(Nat)
    BY SizeAssumption
  <2>3. to' \in Seq(Nat) /\ stdinq' \in Seq(Nat) /\ to' # <<>> /\ to' \o stdinq' = stdinq
    BY <2>1, <2>2, Split, SplitSome
  <2>4. inbuf = <<>>
    BY <1>4 DEF InputInv
  <2>5. to' \o <<>> = to' /\ <<>> \o stdinq = stdinq
    BY <2>3, ConcatEmptySeq
  <2>6. (to' \o inbuf') \o stdinq' = inbuf \o stdinq
    BY ONLY <2>1, <2>3, <2>4, <2>5
  <2> QED
    BY <1>1, <1>4, <2>1, <2>3, <2>4, <2>6
<1> QED
  BY <1>2, <1>3, <1>4

\* Writen gives the connection a line.
LEMMA WritenMoves ==
  ASSUME Types, InputInv, Writen
  PROVE  /\ c2s' \in Seq(Nat) /\ to' \in Seq(Nat)
         /\ c2s' \o to' = c2s \o to
         /\ Len(c2s') = Len(c2s) + 1 /\ Len(to') = Len(to) - 1
<1>1. c2s \in Seq(Nat) /\ to \in Seq(Nat) /\ to # <<>>
  BY DEF Types, InputInv, Writen
<1>2. c2s' = Append(c2s, Head(to)) /\ to' = Tail(to)
  BY DEF Writen
<1> QED
  BY <1>1, <1>2, MoveHead

\* Readline and Read take what the connection holds.
LEMMA ReadSocketMoves ==
  ASSUME Types, ReaderInv, ReadSocket
  PROVE  /\ fr' \in Seq(Nat) /\ s2c' \in Seq(Nat) /\ fr' # <<>>
         /\ fr' \o s2c' = fr \o s2c
         /\ Len(fr') + Len(s2c') = Len(fr) + Len(s2c)
<1>1. fr \in Seq(Nat) /\ s2c \in Seq(Nat) /\ MAXLINE \in Nat /\ MAXLINE > 0
  BY SizeAssumption DEF Types
<1>2. CASE UNCHANGED <<fr, s2c>> /\ fr # <<>>
  BY <1>1, <1>2
<1>3. CASE /\ fr = <<>> /\ s2c # <<>>
           /\ fr' = UpTo(MAXLINE, s2c) /\ s2c' = After(MAXLINE, s2c)
  <2>1. /\ fr' \in Seq(Nat) /\ s2c' \in Seq(Nat) /\ fr' # <<>>
        /\ fr' \o s2c' = s2c /\ Len(fr') + Len(s2c') = Len(s2c)
    BY <1>1, <1>3, Split, SplitSome
  <2>2. <<>> \o s2c = s2c /\ Len(fr) = 0 /\ Len(s2c) \in Nat
    BY <1>1, <1>3, ConcatEmptySeq
  <2> QED
    BY <1>3, <2>1, <2>2
<1>4. Stdio \/ fr = <<>>
  BY DEF ReaderInv, ReadSocket, AtSocket, Select, Stdio
<1> QED
  BY <1>2, <1>3, <1>4 DEF ReadSocket

\* Fputs and Writen take what was read from the socket.
LEMMA FputsMoves ==
  ASSUME Types, Fputs
  PROVE  /\ out' \in Seq(Nat) /\ fr' \in Seq(Nat)
         /\ out' \o fr' = out \o fr
         /\ Stdio /\ fr # <<>> => Len(fr') = Len(fr) - 1
         /\ ~Stdio => fr' = <<>>
<1> DEFINE m == IF Stdio THEN 1 ELSE Len(fr)
<1>1. m \in Nat /\ out \in Seq(Nat) /\ fr \in Seq(Nat) /\ Len(fr) \in Nat
  BY DEF Types
<1>2. out' = out \o UpTo(m, fr) /\ fr' = After(m, fr)
  BY DEF Fputs
<1>3. m = Len(fr) => After(m, fr) = <<>>
  <2>1. SubSeq(fr, Len(fr) + 1, Len(fr)) = <<>>
    BY <1>1, SubSeqEmpty
  <2> QED
    BY <2>1 DEF After
<1> HIDE DEF m
<1>4. /\ UpTo(m, fr) \in Seq(Nat) /\ After(m, fr) \in Seq(Nat)
      /\ UpTo(m, fr) \o After(m, fr) = fr
      /\ Len(UpTo(m, fr)) = IF m < Len(fr) THEN m ELSE Len(fr)
      /\ Len(UpTo(m, fr)) + Len(After(m, fr)) = Len(fr)
  BY <1>1, Split
<1>5. (out \o UpTo(m, fr)) \o After(m, fr) = out \o (UpTo(m, fr) \o After(m, fr))
  BY <1>1, <1>4, Assoc
<1>6. out' \o fr' = out \o fr
  BY ONLY <1>2, <1>4, <1>5
<1>7. out' \in Seq(Nat) /\ fr' \in Seq(Nat)
  BY <1>1, <1>2, <1>4, ConcatProperties
<1>8. ASSUME Stdio, fr # <<>> PROVE Len(fr') = Len(fr) - 1
  <2>1. m = 1 /\ Len(fr) \in Nat \ {0}
    BY <1>1, <1>8, EmptySeq DEF m
  <2>2. Len(UpTo(m, fr)) = 1 /\ Len(After(m, fr)) \in Nat
    BY <1>4, <2>1
  <2> QED
    BY <1>2, <1>4, <2>1, <2>2
<1>9. ~Stdio => fr' = <<>>
  BY <1>2, <1>3 DEF m
<1> QED
  BY <1>6, <1>7, <1>8, <1>9

\* The appended prefix of b and the rest of it.
LEMMA MovePrefix ==
  ASSUME NEW n \in Nat, NEW a \in Seq(Nat), NEW b \in Seq(Nat)
  PROVE  /\ a \o UpTo(n, b) \in Seq(Nat) /\ After(n, b) \in Seq(Nat)
         /\ (a \o UpTo(n, b)) \o After(n, b) = a \o b
         /\ Len(a \o UpTo(n, b)) <= Len(a) + n
<1>1. /\ UpTo(n, b) \in Seq(Nat) /\ After(n, b) \in Seq(Nat)
      /\ UpTo(n, b) \o After(n, b) = b
      /\ Len(UpTo(n, b)) <= n /\ Len(UpTo(n, b)) \in Nat
  BY Split
<1>2. (a \o UpTo(n, b)) \o After(n, b) = a \o (UpTo(n, b) \o After(n, b))
  BY <1>1, Assoc
<1>3. (a \o UpTo(n, b)) \o After(n, b) = a \o b
  BY ONLY <1>1, <1>2
<1>4. a \o UpTo(n, b) \in Seq(Nat) /\ Len(a \o UpTo(n, b)) = Len(a) + Len(UpTo(n, b))
  BY <1>1, ConcatProperties
<1> QED
  BY <1>1, <1>3, <1>4

\* strclinonb reads its input after what is left in to.
LEMMA NonbStdinMoves ==
  ASSUME Types, NonbStdin
  PROVE  /\ to' \in Seq(Nat) /\ stdinq' \in Seq(Nat) /\ toi' \in 0 .. MAXLINE
         /\ to' \o stdinq' = to \o stdinq
<1> USE DEF Types
<1>1. CASE UNCHANGED <<stdinq, to, toi>>
  BY <1>1
<1>2. CASE /\ "stdin" \in rset /\ stdinq # <<>>
  <2> DEFINE n == MAXLINE - toi
             got == UpTo(n, stdinq)
  <2>1. /\ to' = to \o got /\ toi' = toi + Len(got)
        /\ stdinq' = After(Len(got), stdinq)
    BY <1>2 DEF NonbStdin
  <2>2. n \in Nat /\ to \in Seq(Nat) /\ stdinq \in Seq(Nat)
    BY SizeAssumption
  <2>3. After(Len(got), stdinq) = After(n, stdinq) /\ Len(got) <= n /\ Len(got) \in Nat
    BY <2>2, Split
  <2>4. toi' \in 0 .. MAXLINE
    BY <2>1, <2>3, SizeAssumption
  <2> HIDE DEF n
  <2>5. /\ to \o got \in Seq(Nat) /\ After(n, stdinq) \in Seq(Nat)
        /\ (to \o got) \o After(n, stdinq) = to \o stdinq
    BY ONLY <2>2, MovePrefix
  <2>6. /\ to' \in Seq(Nat) /\ stdinq' \in Seq(Nat)
        /\ to' \o stdinq' = to \o stdinq
    BY ONLY <2>1, <2>3, <2>5
  <2> QED
    BY <2>4, <2>6
<1> QED
  BY <1>1, <1>2 DEF NonbStdin

\* It reads the socket after what is left in fr.
LEMMA NonbSocketMoves ==
  ASSUME Types, NonbSocket
  PROVE  /\ fr' \in Seq(Nat) /\ s2c' \in Seq(Nat) /\ fri' \in 0 .. MAXLINE
         /\ fr' \o s2c' = fr \o s2c
<1> USE DEF Types
<1>1. CASE UNCHANGED <<fr, fri, s2c>>
  BY <1>1
<1>2. CASE ~("sock" \in rset /\ s2c = <<>> /\ ServerClosed)
  <2> DEFINE n == IF "sock" \in rset THEN MAXLINE - fri ELSE 0
             got == UpTo(n, s2c)
  <2>1. n \in Nat /\ fr \in Seq(Nat) /\ s2c \in Seq(Nat) /\ n <= MAXLINE - fri
    BY SizeAssumption
  <2>2. "sock" \notin rset => got = <<>>
    <3>1. Len(s2c) \in Nat /\ (0 < Len(s2c) \/ Len(s2c) = 0)
      BY <2>1
    <3>2. UpTo(0, s2c) = SubSeq(s2c, 1, 0)
      BY <3>1 DEF UpTo
    <3>3. SubSeq(s2c, 1, 0) = <<>>
      BY SubSeqEmpty
    <3> QED
      BY <3>2, <3>3
  <2>3. /\ fr' = fr \o got /\ fri' = fri + Len(got) /\ s2c' = After(Len(got), s2c)
    BY <1>2, <2>2 DEF NonbSocket
  <2> HIDE DEF n
  <2>4. After(Len(got), s2c) = After(n, s2c) /\ Len(got) <= n /\ Len(got) \in Nat
    BY <2>1, Split
  <2>5. fri' \in 0 .. MAXLINE
    <3> DEFINE k == Len(got)
    <3>1. k \in Nat /\ k <= n /\ fri' = fri + k
      BY <2>3, <2>4
    <3>2. MAXLINE \in Nat /\ fri \in 0 .. MAXLINE
      BY SizeAssumption
    <3> HIDE DEF k
    <3> QED
      BY ONLY <2>1, <3>1, <3>2
  <2>6. /\ fr \o got \in Seq(Nat) /\ After(n, s2c) \in Seq(Nat)
        /\ (fr \o got) \o After(n, s2c) = fr \o s2c
    BY ONLY <2>1, MovePrefix
  <2>7. fr' \in Seq(Nat) /\ s2c' \in Seq(Nat) /\ fr' \o s2c' = fr \o s2c
    BY ONLY <2>3, <2>4, <2>6
  <2> QED
    BY <2>5, <2>7
<1> QED
  BY <1>1, <1>2 DEF NonbSocket

\* It writes what standard output takes.
LEMMA NonbStdoutMoves ==
  ASSUME Types, ReaderInv, NonbStdout
  PROVE  /\ out' \in Seq(Nat) /\ fr' \in Seq(Nat) /\ fri' \in 0 .. MAXLINE
         /\ out' \o fr' = out \o fr
         /\ Len(out') - shown <= Stdout
<1> USE DEF Types
<1> DEFINE n == IF "stdout" \in wset THEN Stdout - (Len(out) - shown) ELSE 0
<1>1. /\ out' = out \o UpTo(n, fr) /\ fr' = After(n, fr)
      /\ fri' = IF fr' = <<>> THEN 0 ELSE fri
  BY DEF NonbStdout, Unwritten
<1>2. Len(out) - shown <= Stdout /\ Len(out) \in Nat /\ shown \in Nat /\ Stdout \in Nat
  BY SizeAssumption DEF ReaderInv, NonbStdout, Nonb
<1>3. n \in Nat /\ Len(out) + n - shown <= Stdout
  BY <1>2
<1> HIDE DEF n
<1>4. /\ out' \in Seq(Nat) /\ fr' \in Seq(Nat) /\ out' \o fr' = out \o fr
      /\ Len(out') <= Len(out) + n
  <2>1. /\ out \o UpTo(n, fr) \in Seq(Nat) /\ After(n, fr) \in Seq(Nat)
        /\ (out \o UpTo(n, fr)) \o After(n, fr) = out \o fr
        /\ Len(out \o UpTo(n, fr)) <= Len(out) + n
    BY <1>3, MovePrefix
  <2> QED
    BY ONLY <1>1, <2>1
<1>5. Len(out') \in Nat
  BY <1>4
<1>6. Len(out') - shown <= Stdout
  BY <1>2, <1>3, <1>4, <1>5
<1>7. fri' \in 0 .. MAXLINE
  BY <1>1, SizeAssumption
<1> QED
  BY <1>4, <1>6, <1>7

\* It writes what the connection takes.
LEMMA NonbWriteMoves ==
  ASSUME Types, ReaderInv, NonbWrite
  PROVE  /\ c2s' \in Seq(Nat) /\ to' \in Seq(Nat) /\ toi' \in 0 .. MAXLINE
         /\ c2s' \o to' = c2s \o to
         /\ Len(c2s') <= SockBuf
<1> USE DEF Types
<1> DEFINE n == IF "sock" \in wset THEN SockBuf - Len(c2s) ELSE 0
<1>1. c2s' = c2s \o UpTo(n, to) /\ to' = After(n, to)
  BY DEF NonbWrite
<1>2. Len(c2s) <= SockBuf /\ Len(c2s) \in Nat /\ SockBuf \in Nat
  BY SizeAssumption DEF ReaderInv, NonbWrite, Nonb
<1>3. n \in Nat /\ Len(c2s) + n <= SockBuf
  BY <1>2
<1> HIDE DEF n
<1>4. /\ c2s' \in Seq(Nat) /\ to' \in Seq(Nat) /\ c2s' \o to' = c2s \o to
      /\ Len(c2s') <= Len(c2s) + n
  <2>1. /\ c2s \o UpTo(n, to) \in Seq(Nat) /\ After(n, to) \in Seq(Nat)
        /\ (c2s \o UpTo(n, to)) \o After(n, to) = c2s \o to
        /\ Len(c2s \o UpTo(n, to)) <= Len(c2s) + n
    BY <1>3, MovePrefix
  <2> QED
    BY ONLY <1>1, <2>1
<1>5. toi' \in 0 .. MAXLINE
  BY SizeAssumption DEF NonbWrite
<1>6. Len(c2s') <= SockBuf
  <2>1. Len(c2s') \in Nat
    BY <1>4
  <2> QED
    BY <1>2, <1>3, <1>4, <2>1
<1> QED
  BY <1>4, <1>5, <1>6

-----------------------------------------------------------------------------
(* Every step keeps the invariant                                            *)

\* Every step keeps the type of every variable.
LEMMA TypesStep == IInv /\ [Next]_vars => Types'
<1> SUFFICES ASSUME Types, InputInv, ServerInv, ReaderInv, [Next]_vars PROVE Types'
  BY DEF IInv
<1> USE DEF input, user, sets, peer, screen
<1>1. CASE Type
  <2>1. stdinq' \in Seq(Nat) /\ typed' \in Nat
    BY <1>1, AppendProperties DEF Type, Types
  <2> QED
    BY <1>1, <2>1 DEF Type, Types
<1>2. CASE EndInput
  BY <1>2 DEF EndInput, Types
<1>3. CASE Show
  BY <1>3 DEF Show, Types
<1>4. CASE EchoRead
  BY <1>4, EchoReadMoves DEF EchoRead, Types
<1>5. CASE EchoWrite
  BY <1>5, EchoWriteMoves DEF EchoWrite, Types
<1>6. CASE EchoEnd
  BY <1>6 DEF EchoEnd, Types
<1>7. CASE EchoCrash
  BY <1>7 DEF EchoCrash, Types
<1>8. CASE ReadInput
  BY <1>8, ReadInputMoves DEF ReadInput, Types, Places
<1>9. CASE ReadEof
  BY <1>9 DEF ReadEof, AtEof, AtInput, Select, Shutdown, Types, Places, Ended
<1>10. CASE Writen
  BY <1>10, WritenMoves DEF Writen, AfterWriten, Types, Places
<1>11. CASE BrokenPipe
  BY <1>11 DEF BrokenPipe, Types, Places, Ended
<1>12. CASE SelectReturns
  BY <1>12 DEF SelectReturns, Types, Places
<1>13. CASE NotSet
  BY <1>13 DEF NotSet, Types, Places
<1>14. CASE NonbSelect
  BY <1>14 DEF NonbSelect, Nonb, Types, Places
<1>15. CASE NonbStdin
  BY <1>15, NonbStdinMoves DEF NonbStdin, Nonb, FinAtEof, Types, Places
<1>16. CASE NonbSocket
  BY <1>16, NonbSocketMoves DEF NonbSocket, Types, Places, Ended
<1>17. CASE NonbStdout
  BY <1>17, NonbStdoutMoves DEF NonbStdout, Nonb, Types, Places
<1>18. CASE NonbWrite
  BY <1>18, NonbWriteMoves DEF NonbWrite, Nonb, ToEmptied, Types, Places
<1>19. CASE ReadSocket
  BY <1>19, ReadSocketMoves DEF ReadSocket, ReaderGoto, Types, Places
<1>20. CASE ReadSocketEof
  BY <1>20 DEF ReadSocketEof, Types, Places, Ended
<1>21. CASE Fputs
  BY <1>21, FputsMoves DEF Fputs, ReaderGoto, AfterFputs, Types, Places
<1>22. CASE UNCHANGED vars
  BY <1>22 DEF vars, Types
<1> QED
  BY <1>1, <1>2, <1>3, <1>4, <1>5, <1>6, <1>7, <1>8, <1>9, <1>10, <1>11, <1>12,
     <1>13, <1>14, <1>15, <1>16, <1>17, <1>18, <1>19, <1>20, <1>21, <1>22
     DEF Next, Server, Copy, Back

\* A line typed is the next of what is typed.
LEMMA TypedAppend ==
  ASSUME typed \in Nat, Type
  PROVE  Typed' = Append(Typed, typed') /\ Typed \in Seq(Nat)
<1>1. typed' = typed + 1
  BY DEF Type
<1>2. Typed \in Seq(Nat) /\ Len(Typed) = typed
  BY DEF Typed
<1>3. Typed' = [n \in 1 .. typed + 1 |-> n]
  BY <1>1 DEF Typed
<1>4. Append(Typed, typed + 1) = [n \in 1 .. typed + 1 |-> n]
  BY <1>2 DEF Typed
<1> QED
  BY <1>1, <1>2, <1>3, <1>4

\* The end of a row grows with the row.
LEMMA ConcatAppend ==
  ASSUME NEW s \in Seq(Nat), NEW t \in Seq(Nat), NEW x \in Nat
  PROVE  s \o Append(t, x) = Append(s \o t, x)
<1>1. <<x>> \in Seq(Nat) /\ s \o t \in Seq(Nat)
  BY ConcatProperties
<1>2. Append(t, x) = t \o <<x>> /\ Append(s \o t, x) = (s \o t) \o <<x>>
  BY <1>1, AppendIsConcat
<1>3. (s \o t) \o <<x>> = s \o (t \o <<x>>)
  BY <1>1, Assoc
<1> QED
  BY ONLY <1>2, <1>3

\* The beginnings of the row.
Row2 == out \o fr
Row3 == Row2 \o s2c
Row4 == Row3 \o sbuf
Row5 == Row4 \o c2s
Row6 == Row5 \o to
Row7 == Row6 \o inbuf
Row8 == Row7 \o stdinq

\* They are sequences of lines.
LEMMA Rows ==
  ASSUME Types
  PROVE  /\ Row2 \in Seq(Nat) /\ Row3 \in Seq(Nat) /\ Row4 \in Seq(Nat)
         /\ Row5 \in Seq(Nat) /\ Row6 \in Seq(Nat) /\ Row7 \in Seq(Nat)
<1>0. \A s, t \in Seq(Nat) : s \o t \in Seq(Nat)
  BY ConcatProperties
<1>1. Row2 \in Seq(Nat)
  BY <1>0 DEF Types, Row2
<1>2. Row3 \in Seq(Nat)
  BY <1>0, <1>1 DEF Types, Row3
<1>3. Row4 \in Seq(Nat)
  BY <1>0, <1>2 DEF Types, Row4
<1>4. Row5 \in Seq(Nat)
  BY <1>0, <1>3 DEF Types, Row5
<1>5. Row6 \in Seq(Nat)
  BY <1>0, <1>4 DEF Types, Row6
<1>6. Row7 \in Seq(Nat)
  BY <1>0, <1>5 DEF Types, Row7
<1> QED
  BY <1>1, <1>2, <1>3, <1>4, <1>5, <1>6

\* Nothing is lost, repeated or reordered by a step.
LEMMA PipelineStep == IInv /\ [Next]_vars => Pipeline'
<1> SUFFICES ASSUME IInv, [Next]_vars, server' # "crashed"
             PROVE  Row8' = Typed'
  BY DEF Pipeline, Row2, Row3, Row4, Row5, Row6, Row7, Row8
<1>i. Types /\ InputInv /\ ServerInv /\ ReaderInv
  BY DEF IInv
<1>r. /\ Row2 \in Seq(Nat) /\ Row3 \in Seq(Nat) /\ Row4 \in Seq(Nat)
      /\ Row5 \in Seq(Nat) /\ Row6 \in Seq(Nat) /\ Row7 \in Seq(Nat)
  BY <1>i, Rows
<1>t. /\ out \in Seq(Nat) /\ fr \in Seq(Nat) /\ s2c \in Seq(Nat) /\ sbuf \in Seq(Nat)
      /\ c2s \in Seq(Nat) /\ to \in Seq(Nat) /\ inbuf \in Seq(Nat)
      /\ stdinq \in Seq(Nat) /\ typed \in Nat
  BY <1>i DEF Types
<1>r2. Row2 \in Seq(Nat)
  BY ONLY <1>r
<1>r3. Row3 \in Seq(Nat)
  BY ONLY <1>r
<1>r4. Row4 \in Seq(Nat)
  BY ONLY <1>r
<1>r5. Row5 \in Seq(Nat)
  BY ONLY <1>r
<1>t1. out \in Seq(Nat)
  BY ONLY <1>t
<1>t2. fr \in Seq(Nat)
  BY ONLY <1>t
<1>t3. s2c \in Seq(Nat)
  BY ONLY <1>t
<1>t4. sbuf \in Seq(Nat)
  BY ONLY <1>t
<1>t5. c2s \in Seq(Nat)
  BY ONLY <1>t
<1>t6. to \in Seq(Nat)
  BY ONLY <1>t
<1>t7. inbuf \in Seq(Nat)
  BY ONLY <1>t
<1>t8. stdinq \in Seq(Nat)
  BY ONLY <1>t
<1>s. server # "crashed"
  <2>1. CASE server = "crashed"
    BY <2>1 DEF Next, Server, Copy, Back, vars, peer, Type, EndInput, Show,
       EchoRead, EchoWrite, EchoEnd, EchoCrash, ReadInput, ReadEof, Writen, BrokenPipe,
       SelectReturns, NotSet, NonbSelect, NonbStdin, NonbSocket, NonbStdout, NonbWrite,
       ReadSocket, ReadSocketEof, Fputs
  <2> QED
    BY <2>1
<1>p. Row8 = Typed
  BY <1>s DEF IInv, Delivered, Pipeline, Row2, Row3, Row4, Row5, Row6, Row7, Row8
<1>x. SUFFICES ASSUME ~Type PROVE Row8' = Row8 /\ UNCHANGED typed
  <2>1. CASE ~Type
    BY <1>x, <1>p, <2>1 DEF Typed
  <2>2. CASE Type
    <3>1. /\ Typed' = Append(Typed, typed') /\ stdinq' = Append(stdinq, typed')
          /\ typed' \in Nat
      BY <1>t, <2>2, TypedAppend DEF Type
    <3>2. Row7' = Row7
      BY <2>2 DEF Type, Row2, Row3, Row4, Row5, Row6, Row7, user, peer, screen
    <3>3. Row7 \o Append(stdinq, typed') = Append(Row7 \o stdinq, typed')
      BY ONLY <1>r, <1>t8, <3>1, ConcatAppend
    <3>4. Row8' = Row7' \o stdinq' /\ Row8 = Row7 \o stdinq
      BY DEF Row8
    <3> QED
      BY ONLY <1>p, <3>1, <3>2, <3>3, <3>4
  <2> QED
    BY <2>1, <2>2
<1> USE DEF input, user, sets, peer, screen
<1>1. CASE EndInput \/ Show \/ EchoEnd \/ ReadEof \/ BrokenPipe \/ SelectReturns \/ NotSet
           \/ NonbSelect \/ ReadSocketEof \/ UNCHANGED vars
  BY <1>1 DEF EndInput, Show, EchoEnd, ReadEof, BrokenPipe, SelectReturns, NotSet,
     NonbSelect, ReadSocketEof, vars, Row2, Row3, Row4, Row5, Row6, Row7, Row8
<1>2. CASE EchoRead
  <2>1. /\ sbuf' \in Seq(Nat) /\ c2s' \in Seq(Nat) /\ sbuf' \o c2s' = c2s
    BY <1>2, <1>i, EchoReadMoves
  <2>2. sbuf = <<>> /\ <<>> \o c2s = c2s
    BY <1>2, <1>i, <1>t, ConcatEmptySeq DEF EchoRead, ServerInv
  <2>3. sbuf' \o c2s' = sbuf \o c2s
    BY ONLY <2>1, <2>2
  <2>t. sbuf' \in Seq(Nat) /\ c2s' \in Seq(Nat)
    BY ONLY <2>1
  <2>4. (Row3 \o sbuf') \o c2s' = (Row3 \o sbuf) \o c2s
    <3>1. (Row3 \o sbuf') \o c2s' = Row3 \o (sbuf' \o c2s')
      BY ONLY <1>r3, <2>t, Assoc
    <3>2. (Row3 \o sbuf) \o c2s = Row3 \o (sbuf \o c2s)
      BY ONLY <1>r3, <1>t4, <1>t5, Assoc
    <3> QED
      BY ONLY <2>3, <3>1, <3>2
  <2> QED
    BY <1>2, <2>4 DEF EchoRead, Row2, Row3, Row4, Row5, Row6, Row7, Row8
<1>3. CASE EchoWrite
  <2>1. s2c' \in Seq(Nat) /\ sbuf' \in Seq(Nat) /\ s2c' \o sbuf' = s2c \o sbuf
    BY <1>3, <1>i, EchoWriteMoves
  <2>t. s2c' \in Seq(Nat) /\ sbuf' \in Seq(Nat)
    BY ONLY <2>1
  <2>2. (Row2 \o s2c') \o sbuf' = (Row2 \o s2c) \o sbuf
    <3>1. (Row2 \o s2c') \o sbuf' = Row2 \o (s2c' \o sbuf')
      BY ONLY <1>r2, <2>t, Assoc
    <3>2. (Row2 \o s2c) \o sbuf = Row2 \o (s2c \o sbuf)
      BY ONLY <1>r2, <1>t3, <1>t4, Assoc
    <3> QED
      BY ONLY <2>1, <3>1, <3>2
  <2> QED
    BY <1>3, <2>2 DEF EchoWrite, Row2, Row3, Row4, Row5, Row6, Row7, Row8
<1>4. CASE ReadInput
  <2>1. /\ to' \in Seq(Nat) /\ inbuf' \in Seq(Nat) /\ stdinq' \in Seq(Nat)
        /\ to = <<>> /\ (to' \o inbuf') \o stdinq' = inbuf \o stdinq
    BY <1>4, <1>i, ReadInputMoves
  <2>2. /\ Row5 \o to = Row5 /\ to' \o inbuf' \in Seq(Nat)
    BY ONLY <1>r5, <2>1, ConcatEmptySeq, ConcatProperties
  <2>3. (Row5 \o to') \o inbuf' = Row5 \o (to' \o inbuf')
    BY ONLY <1>r5, <2>1, Assoc
  <2>t. to' \o inbuf' \in Seq(Nat) /\ stdinq' \in Seq(Nat)
    BY ONLY <2>1, <2>2
  <2>4. (Row5 \o (to' \o inbuf')) \o stdinq' = (Row5 \o inbuf) \o stdinq
    <3>1. (Row5 \o (to' \o inbuf')) \o stdinq' = Row5 \o ((to' \o inbuf') \o stdinq')
      BY ONLY <1>r5, <2>t, Assoc
    <3>2. (Row5 \o inbuf) \o stdinq = Row5 \o (inbuf \o stdinq)
      BY ONLY <1>r5, <1>t7, <1>t8, Assoc
    <3> QED
      BY ONLY <2>1, <3>1, <3>2
  <2>5. Row5' = Row5 /\ UNCHANGED typed
    BY <1>4 DEF ReadInput, Row2, Row3, Row4, Row5
  <2>6. Row8' = ((Row5' \o to') \o inbuf') \o stdinq' /\ Row8 = ((Row5 \o to) \o inbuf) \o stdinq
    BY DEF Row6, Row7, Row8
  <2> QED
    BY ONLY <2>2, <2>3, <2>4, <2>5, <2>6
<1>5. CASE Writen
  <2>1. c2s' \in Seq(Nat) /\ to' \in Seq(Nat) /\ c2s' \o to' = c2s \o to
    BY <1>5, <1>i, WritenMoves
  <2>t. c2s' \in Seq(Nat) /\ to' \in Seq(Nat)
    BY ONLY <2>1
  <2>2. (Row4 \o c2s') \o to' = (Row4 \o c2s) \o to
    <3>1. (Row4 \o c2s') \o to' = Row4 \o (c2s' \o to')
      BY ONLY <1>r4, <2>t, Assoc
    <3>2. (Row4 \o c2s) \o to = Row4 \o (c2s \o to)
      BY ONLY <1>r4, <1>t5, <1>t6, Assoc
    <3> QED
      BY ONLY <2>1, <3>1, <3>2
  <2> QED
    BY <1>5, <2>2 DEF Writen, Row2, Row3, Row4, Row5, Row6, Row7, Row8
<1>6. CASE ReadSocket
  <2>1. fr' \in Seq(Nat) /\ s2c' \in Seq(Nat) /\ fr' \o s2c' = fr \o s2c
    BY <1>6, <1>i, ReadSocketMoves
  <2>t. fr' \in Seq(Nat) /\ s2c' \in Seq(Nat)
    BY ONLY <2>1
  <2>2. (out \o fr') \o s2c' = (out \o fr) \o s2c
    <3>1. (out \o fr') \o s2c' = out \o (fr' \o s2c')
      BY ONLY <1>t1, <2>t, Assoc
    <3>2. (out \o fr) \o s2c = out \o (fr \o s2c)
      BY ONLY <1>t1, <1>t2, <1>t3, Assoc
    <3> QED
      BY ONLY <2>1, <3>1, <3>2
  <2> QED
    BY <1>6, <2>2 DEF ReadSocket, Row2, Row3, Row4, Row5, Row6, Row7, Row8
<1>7. CASE Fputs
  <2>1. out' \o fr' = out \o fr
    BY <1>7, <1>i, FputsMoves
  <2> QED
    BY <1>7, <2>1 DEF Fputs, Row2, Row3, Row4, Row5, Row6, Row7, Row8
<1>8. CASE NonbStdin
  <2>1. to' \in Seq(Nat) /\ stdinq' \in Seq(Nat) /\ to' \o stdinq' = to \o stdinq
    BY <1>8, <1>i, NonbStdinMoves
  <2>2. inbuf = <<>> /\ inbuf' = inbuf /\ UNCHANGED typed
    BY <1>8, <1>i DEF NonbStdin, Nonb, InputInv, Stdio
  <2>t. to' \in Seq(Nat) /\ stdinq' \in Seq(Nat)
    BY ONLY <2>1
  <2>3. (Row5 \o to') \o stdinq' = (Row5 \o to) \o stdinq
    <3>1. (Row5 \o to') \o stdinq' = Row5 \o (to' \o stdinq')
      BY ONLY <1>r5, <2>t, Assoc
    <3>2. (Row5 \o to) \o stdinq = Row5 \o (to \o stdinq)
      BY ONLY <1>r5, <1>t6, <1>t8, Assoc
    <3> QED
      BY ONLY <2>1, <3>1, <3>2
  <2>4. Row5 \o to' \in Seq(Nat) /\ Row5 \o to \in Seq(Nat)
    BY ONLY <1>r5, <1>t6, <2>t, ConcatProperties
  <2>5. (Row5 \o to') \o <<>> = Row5 \o to' /\ (Row5 \o to) \o <<>> = Row5 \o to
    BY ONLY <2>4, ConcatEmptySeq
  <2>6. Row5' = Row5
    BY <1>8 DEF NonbStdin, Row2, Row3, Row4, Row5
  <2>7. Row8' = ((Row5' \o to') \o inbuf') \o stdinq' /\ Row8 = ((Row5 \o to) \o inbuf) \o stdinq
    BY DEF Row6, Row7, Row8
  <2> QED
    BY ONLY <2>2, <2>3, <2>5, <2>6, <2>7
<1>9. CASE NonbSocket
  <2>1. fr' \in Seq(Nat) /\ s2c' \in Seq(Nat) /\ fr' \o s2c' = fr \o s2c
    BY <1>9, <1>i, NonbSocketMoves
  <2>t. fr' \in Seq(Nat) /\ s2c' \in Seq(Nat)
    BY ONLY <2>1
  <2>2. (out \o fr') \o s2c' = (out \o fr) \o s2c
    <3>1. (out \o fr') \o s2c' = out \o (fr' \o s2c')
      BY ONLY <1>t1, <2>t, Assoc
    <3>2. (out \o fr) \o s2c = out \o (fr \o s2c)
      BY ONLY <1>t1, <1>t2, <1>t3, Assoc
    <3> QED
      BY ONLY <2>1, <3>1, <3>2
  <2> QED
    BY <1>9, <2>2 DEF NonbSocket, Row2, Row3, Row4, Row5, Row6, Row7, Row8
<1>10. CASE NonbStdout
  <2>1. out' \o fr' = out \o fr
    BY <1>10, <1>i, NonbStdoutMoves
  <2> QED
    BY <1>10, <2>1 DEF NonbStdout, Row2, Row3, Row4, Row5, Row6, Row7, Row8
<1>11. CASE NonbWrite
  <2>1. c2s' \in Seq(Nat) /\ to' \in Seq(Nat) /\ c2s' \o to' = c2s \o to
    BY <1>11, <1>i, NonbWriteMoves
  <2>t. c2s' \in Seq(Nat) /\ to' \in Seq(Nat)
    BY ONLY <2>1
  <2>2. (Row4 \o c2s') \o to' = (Row4 \o c2s) \o to
    <3>1. (Row4 \o c2s') \o to' = Row4 \o (c2s' \o to')
      BY ONLY <1>r4, <2>t, Assoc
    <3>2. (Row4 \o c2s) \o to = Row4 \o (c2s \o to)
      BY ONLY <1>r4, <1>t5, <1>t6, Assoc
    <3> QED
      BY ONLY <2>1, <3>1, <3>2
  <2> QED
    BY <1>11, <2>2 DEF NonbWrite, Row2, Row3, Row4, Row5, Row6, Row7, Row8
<1>12. CASE EchoCrash
  BY <1>12 DEF EchoCrash
<1>13. \/ Type \/ EndInput \/ Show \/ EchoRead \/ EchoWrite \/ EchoEnd \/ EchoCrash
       \/ ReadInput \/ ReadEof \/ Writen \/ BrokenPipe \/ SelectReturns \/ NotSet
       \/ NonbSelect \/ NonbStdin \/ NonbSocket \/ NonbStdout \/ NonbWrite
       \/ ReadSocket \/ ReadSocketEof \/ Fputs \/ UNCHANGED vars
  BY DEF Next, Server, Copy, Back
<1> QED
  BY ONLY <1>1, <1>2, <1>3, <1>4, <1>5, <1>6, <1>7, <1>8, <1>9, <1>10, <1>11, <1>12,
     <1>13, <1>x

\* The input and to at each place of the client.
LEMMA InputStep == IInv /\ [Next]_vars => InputInv'
<1> SUFFICES ASSUME IInv, [Next]_vars PROVE InputInv'
  OBVIOUS
<1>i. Types /\ InputInv /\ ServerInv /\ ReaderInv /\ LockStep /\ ReturnInv /\ Delivered
  BY DEF IInv
<1> USE DEF input, user, sets, peer, screen, InputInv, Stdio, Select, Ended
<1>1. CASE Type
  <2>a. /\ stdinq \in Seq(Nat) /\ typed \in Nat /\ typed' = typed + 1
        /\ stdinq' = Append(stdinq, typed')
    BY <1>1, <1>i DEF Type, Types
  <2>1. stdinq' # <<>>
    BY <2>a, AppendProperties
  <2> QED
    BY <1>1, <2>1, <1>i DEF Type
<1>2. CASE EndInput
  BY <1>2, <1>i DEF EndInput
<1>3. CASE Show
  BY <1>3, <1>i DEF Show
<1>4. CASE EchoRead
  BY <1>4, <1>i, EchoReadMoves DEF EchoRead
<1>5. CASE EchoWrite
  BY <1>5, <1>i, EchoWriteMoves DEF EchoWrite
<1>6. CASE EchoEnd
  BY <1>6, <1>i DEF EchoEnd
<1>7. CASE EchoCrash
  BY <1>7, <1>i DEF EchoCrash
<1>8. CASE ReadInput
  BY <1>8, <1>i, ReadInputMoves DEF ReadInput, AtInput
<1>9. CASE ReadEof
  BY <1>9, <1>i DEF ReadEof, AtEof, AtInput, Shutdown
<1>10. CASE Writen
  BY <1>10, <1>i, WritenMoves DEF Writen, AfterWriten
<1>11. CASE BrokenPipe
  BY <1>11, <1>i DEF BrokenPipe
<1>12. CASE SelectReturns
  BY <1>12, <1>i DEF SelectReturns, Readable, WatchInput
<1>13. CASE NotSet
  BY <1>13, <1>i DEF NotSet
<1>14. CASE NonbSelect
  BY <1>14, <1>i DEF NonbSelect, Nonb
<1>15. CASE NonbStdin
  BY <1>15, <1>i, NonbStdinMoves DEF NonbStdin, Nonb, FinAtEof
<1>16. CASE NonbSocket
  BY <1>16, <1>i, NonbSocketMoves DEF NonbSocket, ServerClosed
<1>17. CASE NonbStdout
  BY <1>17, <1>i, NonbStdoutMoves DEF NonbStdout, Nonb
<1>18. CASE NonbWrite
  BY <1>18, <1>i, NonbWriteMoves DEF NonbWrite, Nonb, ToEmptied
<1>19. CASE ReadSocket
  BY <1>19, <1>i, ReadSocketMoves DEF ReadSocket, AtSocket, ReaderGoto
<1>20. CASE ReadSocketEof
  BY <1>20, <1>i DEF ReadSocketEof, AtSocket, ServerClosed
<1>21. CASE Fputs
  BY <1>21, <1>i, FputsMoves DEF Fputs, ReaderGoto, AfterFputs
<1>22. CASE UNCHANGED vars
  BY <1>22, <1>i DEF vars
<1> QED
  BY <1>1, <1>2, <1>3, <1>4, <1>5, <1>6, <1>7, <1>8, <1>9, <1>10, <1>11, <1>12,
     <1>13, <1>14, <1>15, <1>16, <1>17, <1>18, <1>19, <1>20, <1>21, <1>22
     DEF Next, Server, Copy, Back

\* What the server holds.
LEMMA ServerStep == IInv /\ [Next]_vars => ServerInv'
<1> SUFFICES ASSUME IInv, [Next]_vars PROVE ServerInv'
  OBVIOUS
<1>i. Types /\ InputInv /\ ServerInv /\ ReaderInv /\ LockStep /\ ReturnInv /\ Delivered
  BY DEF IInv
<1> USE DEF input, user, sets, peer, screen, ServerInv, Delivered, FinAfterInput
<1>1. CASE Type
  BY <1>1, <1>i DEF Type
<1>2. CASE EndInput
  BY <1>2, <1>i DEF EndInput
<1>3. CASE Show
  BY <1>3, <1>i DEF Show
<1>4. CASE EchoRead
  BY <1>4, <1>i, EchoReadMoves DEF EchoRead
<1>5. CASE EchoWrite
  BY <1>5, <1>i, EchoWriteMoves DEF EchoWrite
<1>6. CASE EchoEnd
  BY <1>6, <1>i DEF EchoEnd
<1>7. CASE EchoCrash
  BY <1>7, <1>i DEF EchoCrash
<1>8. CASE ReadInput
  BY <1>8, <1>i, ReadInputMoves DEF ReadInput, AtInput
<1>9. CASE ReadEof
  BY <1>9, <1>i DEF ReadEof, AtEof, AtInput, Select, Shutdown
<1>10. CASE Writen
  BY <1>10, <1>i, WritenMoves DEF Writen, AfterWriten
<1>11. CASE BrokenPipe
  BY <1>11, <1>i DEF BrokenPipe
<1>12. CASE SelectReturns
  BY <1>12, <1>i DEF SelectReturns, Readable, WatchInput
<1>13. CASE NotSet
  BY <1>13, <1>i DEF NotSet
<1>14. CASE NonbSelect
  BY <1>14, <1>i DEF NonbSelect, Nonb
<1>15. CASE NonbStdin
  BY <1>15, <1>i, NonbStdinMoves DEF NonbStdin, Nonb, FinAtEof
<1>16. CASE NonbSocket
  BY <1>16, <1>i, NonbSocketMoves DEF NonbSocket, ServerClosed
<1>17. CASE NonbStdout
  BY <1>17, <1>i, NonbStdoutMoves DEF NonbStdout, Nonb
<1>18. CASE NonbWrite
  BY <1>18, <1>i, NonbWriteMoves DEF NonbWrite, Nonb, ToEmptied
<1>19. CASE ReadSocket
  BY <1>19, <1>i, ReadSocketMoves DEF ReadSocket, AtSocket, ReaderGoto
<1>20. CASE ReadSocketEof
  BY <1>20, <1>i DEF ReadSocketEof, AtSocket, ServerClosed
<1>21. CASE Fputs
  BY <1>21, <1>i, FputsMoves DEF Fputs, ReaderGoto, AfterFputs
<1>22. CASE UNCHANGED vars
  BY <1>22, <1>i DEF vars
<1> QED
  BY <1>1, <1>2, <1>3, <1>4, <1>5, <1>6, <1>7, <1>8, <1>9, <1>10, <1>11, <1>12,
     <1>13, <1>14, <1>15, <1>16, <1>17, <1>18, <1>19, <1>20, <1>21, <1>22
     DEF Next, Server, Copy, Back

\* What the client holds of the echoes.
LEMMA ReaderStep == IInv /\ [Next]_vars => ReaderInv'
<1> SUFFICES ASSUME IInv, [Next]_vars PROVE ReaderInv'
  OBVIOUS
<1>i. Types /\ InputInv /\ ServerInv /\ ReaderInv /\ LockStep /\ ReturnInv /\ Delivered
  BY DEF IInv
<1>l. /\ Len(out) \in Nat /\ Len(c2s) \in Nat /\ shown \in Nat /\ SockBuf \in Nat
      /\ Stdout \in Nat
  BY <1>i, SizeAssumption DEF Types
<1> USE DEF input, user, sets, peer, screen, ReaderInv, Stdio, Select
<1>1. CASE Type
  BY <1>1, <1>i DEF Type
<1>2. CASE EndInput
  BY <1>2, <1>i DEF EndInput
<1>3. CASE Show
  BY <1>3, <1>i, <1>l DEF Show
<1>4. CASE EchoRead
  <2>1. Len(c2s') <= Len(c2s) /\ Len(c2s') \in Nat
    BY <1>4, <1>i, EchoReadMoves
  <2> QED
    BY <1>4, <1>i, <1>l, <2>1 DEF EchoRead
<1>5. CASE EchoWrite
  BY <1>5, <1>i, EchoWriteMoves DEF EchoWrite
<1>6. CASE EchoEnd
  BY <1>6, <1>i DEF EchoEnd
<1>7. CASE EchoCrash
  <2>1. Len(c2s') = 0
    BY <1>7 DEF EchoCrash
  <2> QED
    BY <1>7, <1>i, <1>l, <2>1 DEF EchoCrash
<1>8. CASE ReadInput
  BY <1>8, <1>i, ReadInputMoves DEF ReadInput, AtInput
<1>9. CASE ReadEof
  BY <1>9, <1>i DEF ReadEof, AtEof, AtInput, Shutdown
<1>10. CASE Writen
  BY <1>10, <1>i, WritenMoves DEF Writen, AfterWriten, InputInv, Ended
<1>11. CASE BrokenPipe
  BY <1>11, <1>i DEF BrokenPipe
<1>12. CASE SelectReturns
  BY <1>12, <1>i DEF SelectReturns, Readable, WatchInput
<1>13. CASE NotSet
  BY <1>13, <1>i DEF NotSet
<1>14. CASE NonbSelect
  BY <1>14, <1>i DEF NonbSelect, Nonb
<1>15. CASE NonbStdin
  BY <1>15, <1>i, NonbStdinMoves DEF NonbStdin, Nonb, FinAtEof
<1>16. CASE NonbSocket
  BY <1>16, <1>i, NonbSocketMoves DEF NonbSocket, ServerClosed
<1>17. CASE NonbStdout
  BY <1>17, <1>i, NonbStdoutMoves DEF NonbStdout, Nonb
<1>18. CASE NonbWrite
  BY <1>18, <1>i, NonbWriteMoves DEF NonbWrite, Nonb, ToEmptied
<1>19. CASE ReadSocket
  BY <1>19, <1>i, ReadSocketMoves DEF ReadSocket, AtSocket, ReaderGoto
<1>20. CASE ReadSocketEof
  BY <1>20, <1>i DEF ReadSocketEof, AtSocket, ServerClosed
<1>21. CASE Fputs
  BY <1>21, <1>i, FputsMoves DEF Fputs, ReaderGoto, AfterFputs, InputInv, Ended
<1>22. CASE UNCHANGED vars
  BY <1>22, <1>i DEF vars
<1> QED
  BY <1>1, <1>2, <1>3, <1>4, <1>5, <1>6, <1>7, <1>8, <1>9, <1>10, <1>11, <1>12,
     <1>13, <1>14, <1>15, <1>16, <1>17, <1>18, <1>19, <1>20, <1>21, <1>22
     DEF Next, Server, Copy, Back

\* Nothing follows a return.
LEMMA ReturnStep == IInv /\ [Next]_vars => ReturnInv'
<1> SUFFICES ASSUME IInv, [Next]_vars PROVE ReturnInv'
  OBVIOUS
<1>i. Types /\ InputInv /\ ServerInv /\ ReaderInv /\ LockStep /\ ReturnInv /\ Delivered
  BY DEF IInv
<1> USE DEF input, user, sets, peer, screen, ReturnInv, InputInv, Stdio, Select, Ended
<1>1. CASE Type
  BY <1>1, <1>i DEF Type
<1>2. CASE EndInput
  BY <1>2, <1>i DEF EndInput
<1>3. CASE Show
  BY <1>3, <1>i DEF Show
<1>4. CASE EchoRead
  BY <1>4, <1>i, EchoReadMoves DEF EchoRead
<1>5. CASE EchoWrite
  BY <1>5, <1>i, EchoWriteMoves DEF EchoWrite
<1>6. CASE EchoEnd
  BY <1>6, <1>i DEF EchoEnd
<1>7. CASE EchoCrash
  BY <1>7, <1>i DEF EchoCrash
<1>8. CASE ReadInput
  BY <1>8, <1>i, ReadInputMoves DEF ReadInput, AtInput
<1>9. CASE ReadEof
  BY <1>9, <1>i DEF ReadEof, AtEof, AtInput, Shutdown
<1>10. CASE Writen
  BY <1>10, <1>i, WritenMoves DEF Writen, AfterWriten
<1>11. CASE BrokenPipe
  BY <1>11, <1>i DEF BrokenPipe
<1>12. CASE SelectReturns
  BY <1>12, <1>i DEF SelectReturns, Readable, WatchInput
<1>13. CASE NotSet
  BY <1>13, <1>i DEF NotSet
<1>14. CASE NonbSelect
  BY <1>14, <1>i DEF NonbSelect, Nonb
<1>15. CASE NonbStdin
  BY <1>15, <1>i, NonbStdinMoves DEF NonbStdin, Nonb, FinAtEof
<1>16. CASE NonbSocket
  BY <1>16, <1>i, NonbSocketMoves DEF NonbSocket, ServerClosed
<1>17. CASE NonbStdout
  BY <1>17, <1>i, NonbStdoutMoves DEF NonbStdout, Nonb
<1>18. CASE NonbWrite
  BY <1>18, <1>i, NonbWriteMoves DEF NonbWrite, Nonb, ToEmptied
<1>19. CASE ReadSocket
  BY <1>19, <1>i, ReadSocketMoves DEF ReadSocket, AtSocket, ReaderGoto
<1>20. CASE ReadSocketEof
  BY <1>20, <1>i DEF ReadSocketEof, AtSocket, ServerClosed, ServerInv, Delivered,
     FinAfterInput
<1>21. CASE Fputs
  BY <1>21, <1>i, FputsMoves DEF Fputs, ReaderGoto, AfterFputs
<1>22. CASE UNCHANGED vars
  BY <1>22, <1>i DEF vars
<1> QED
  BY <1>1, <1>2, <1>3, <1>4, <1>5, <1>6, <1>7, <1>8, <1>9, <1>10, <1>11, <1>12,
     <1>13, <1>14, <1>15, <1>16, <1>17, <1>18, <1>19, <1>20, <1>21, <1>22
     DEF Next, Server, Copy, Back

\* At most one line of str_cli is on its way.
LEMMA LockStepStep == IInv /\ [Next]_vars => LockStep'
<1> SUFFICES ASSUME IInv, [Next]_vars, version' = "str_cli", server' # "crashed"
             PROVE  /\ cli' = "fgets" => Flight' = 0
                    /\ cli' = "writen" => Flight' = 0 /\ Len(to)' = 1
                    /\ cli' = "readline" => Flight' = 1
                    /\ cli' = "fputs" => Flight' = 1 /\ Len(fr)' = 1
  BY DEF LockStep
<1>i. Types /\ InputInv /\ ServerInv /\ ReaderInv
  BY DEF IInv
<1>l. /\ Len(fr) \in Nat /\ Len(s2c) \in Nat /\ Len(sbuf) \in Nat /\ Len(c2s) \in Nat
      /\ Len(to) \in Nat
  BY <1>i DEF Types
<1>m. Types' /\ Len(fr') \in Nat /\ Len(s2c') \in Nat /\ Len(sbuf') \in Nat
      /\ Len(c2s') \in Nat /\ Len(to') \in Nat
  BY TypesStep DEF Types
<1> USE DEF input, user, sets, peer, screen
<1>s. version = "str_cli" /\ server # "crashed"
  BY DEF Next, Server, Copy, Back, vars, Type, EndInput, Show,
     EchoRead, EchoWrite, EchoEnd, EchoCrash, ReadInput, ReadEof, Writen, BrokenPipe,
     SelectReturns, NotSet, NonbSelect, NonbStdin, NonbSocket, NonbStdout, NonbWrite,
     ReadSocket, ReadSocketEof, Fputs
<1>k. /\ cli = "fgets" => Flight = 0
      /\ cli = "writen" => Flight = 0 /\ Len(to) = 1
      /\ cli = "readline" => Flight = 1
      /\ cli = "fputs" => Flight = 1 /\ Len(fr) = 1
  BY <1>s DEF IInv, LockStep
<1>1. CASE Type \/ EndInput \/ Show \/ EchoEnd \/ UNCHANGED vars
  BY <1>1, <1>k DEF Type, EndInput, Show, EchoEnd, vars, Flight
<1>2. CASE EchoRead
  <2>1. Len(sbuf) = 0 /\ Len(sbuf') + Len(c2s') = Len(c2s)
    BY <1>2, <1>i, EchoReadMoves DEF ServerInv, EchoRead
  <2>2. Flight' = Flight
    BY <1>2, <1>l, <1>m, <2>1 DEF Flight, EchoRead
  <2> QED
    BY <1>2, <1>k, <2>2 DEF EchoRead
<1>3. CASE EchoWrite
  <2>1. Len(s2c') + Len(sbuf') = Len(s2c) + Len(sbuf)
    BY <1>3, <1>i, EchoWriteMoves
  <2>2. Flight' = Flight
    <3>1. UNCHANGED <<fr, c2s>>
      BY <1>3 DEF EchoWrite
    <3> QED
      BY <1>l, <1>m, <2>1, <3>1 DEF Flight
  <2> QED
    BY <1>3, <1>k, <2>2 DEF EchoWrite
<1>4. CASE ReadInput
  <2>1. Len(to') = 1
    BY <1>4, <1>i, <1>s, ReadInputMoves DEF Stdio
  <2>2. cli = "fgets" /\ cli' = "writen" /\ Flight' = Flight
    BY <1>4, <1>s DEF ReadInput, AtInput, Select, Flight
  <2> QED
    BY <1>k, <2>1, <2>2
<1>5. CASE ReadEof
  BY <1>5, <1>s DEF ReadEof
<1>6. CASE Writen
  <2>1. Len(c2s') = Len(c2s) + 1 /\ Len(to') = Len(to) - 1
    BY <1>6, <1>i, WritenMoves
  <2>2. cli = "writen" /\ to' = <<>>
    <3>1. cli = "writen" /\ Len(to') = 0
      BY <1>6, <1>k, <2>1 DEF Writen
    <3>2. to' \in Seq(Nat)
      BY <1>m DEF Types
    <3> QED
      BY ONLY <3>1, <3>2, EmptySeq
  <2>3. cli' = "readline" /\ Flight' = Flight + 1
    BY <1>6, <1>s, <1>l, <1>m, <2>1, <2>2 DEF Writen, AfterWriten, Flight
  <2> QED
    BY <1>k, <2>2, <2>3
<1>7. CASE ReadSocket
  <2>1. Len(fr') + Len(s2c') = Len(fr) + Len(s2c) /\ fr' # <<>>
    BY <1>7, <1>i, ReadSocketMoves
  <2>2. cli = "readline" /\ cli' = "fputs"
    BY <1>7, <1>s DEF ReadSocket, ReaderGoto, AtSocket, Select
  <2>3. Flight' = Flight
    BY <1>7, <1>l, <1>m, <2>1 DEF ReadSocket, Flight
  <2>4. Len(fr') > 0
    BY <1>m, <2>1, EmptySeq DEF Types
  <2>5. Len(fr') = 1
    <3>1. Flight' = 1
      BY <1>k, <2>2, <2>3
    <3>2. Len(fr') + Len(s2c') + Len(sbuf') + Len(c2s') = 1
      BY <3>1 DEF Flight
    <3> QED
      BY ONLY <1>m, <2>4, <3>2
  <2> QED
    BY <1>k, <2>2, <2>3, <2>5
<1>8. CASE Fputs
  <2>1. cli = "fputs" /\ cli' = "fgets"
    BY <1>8, <1>s DEF Fputs, ReaderGoto, AfterFputs
  <2>2. fr # <<>>
    BY <1>k, <2>1
  <2>3. Len(fr') = Len(fr) - 1
    BY <1>8, <1>i, <1>s, <2>2, FputsMoves DEF Stdio
  <2>4. Flight' = Flight - 1
    BY <1>8, <1>l, <1>m, <2>3 DEF Fputs, Flight
  <2> QED
    BY <1>k, <2>1, <2>4
<1>9. CASE BrokenPipe \/ ReadSocketEof \/ EchoCrash
  BY <1>9, <1>s DEF BrokenPipe, ReadSocketEof, EchoCrash, Ended
<1>10. CASE SelectReturns \/ NotSet \/ NonbSelect \/ NonbStdin \/ NonbSocket \/ NonbStdout
            \/ NonbWrite
  BY <1>10, <1>s DEF SelectReturns, NotSet, NonbSelect, NonbStdin, NonbSocket, NonbStdout,
     NonbWrite, Nonb, Select
<1> QED
  BY <1>1, <1>2, <1>3, <1>4, <1>5, <1>6, <1>7, <1>8, <1>9, <1>10 DEF Next, Server, Copy, Back

\* The FIN is sent when all of the input has been.
LEMMA FinStep == IInv /\ [Next]_vars => FinAfterInput'
<1> SUFFICES ASSUME IInv, [Next]_vars, fin' = "yes"
             PROVE  to' = <<>> /\ inbuf' = <<>> /\ stdinq' = <<>> /\ eof' = "yes"
  BY DEF FinAfterInput
<1>i. Types /\ InputInv /\ ServerInv /\ ReaderInv /\ FinAfterInput
  BY DEF IInv, Delivered
<1> USE DEF input, user, sets, peer, screen, FinAfterInput
<1>1. CASE Type \/ EndInput \/ Show \/ EchoRead \/ EchoWrite \/ EchoEnd \/ EchoCrash
           \/ BrokenPipe \/ SelectReturns \/ NotSet \/ NonbSelect \/ NonbSocket
           \/ NonbStdout \/ ReadSocket \/ ReadSocketEof \/ Fputs \/ UNCHANGED vars
  BY <1>1, <1>i DEF Type, EndInput, Show, EchoRead, EchoWrite, EchoEnd, EchoCrash,
     BrokenPipe, SelectReturns, NotSet, NonbSelect, NonbSocket, NonbStdout, ReadSocket,
     ReadSocketEof, Fputs, vars
<1>2. CASE ReadInput
  BY <1>2, <1>i DEF ReadInput
<1>3. CASE ReadEof
  BY <1>3, <1>i DEF ReadEof, AtEof, AtInput, Select, InputInv, Ended
<1>4. CASE Writen
  BY <1>4, <1>i DEF Writen, InputInv
<1>5. CASE NonbStdin
  BY <1>5, <1>i DEF NonbStdin, Nonb, FinAtEof, InputInv, Stdio
<1>6. CASE NonbWrite
  <2>1. CASE fin = "yes"
    <3>1. Len(to) = 0 /\ to = <<>> /\ inbuf = <<>> /\ stdinq = <<>> /\ eof = "yes"
      BY <1>i, <2>1, EmptySeq
    <3>2. to' = <<>>
      <4> DEFINE n == IF "sock" \in wset THEN SockBuf - Len(c2s) ELSE 0
      <4>1. to' = SubSeq(to, n + 1, Len(to))
        BY <1>6 DEF NonbWrite, After
      <4>2. Len(c2s) \in Nat /\ Len(c2s) <= SockBuf /\ SockBuf \in Nat
        BY <1>6, <1>i, SizeAssumption DEF NonbWrite, Nonb, ReaderInv, Types
      <4>3. n \in Nat
        BY <4>2
      <4> HIDE DEF n
      <4>4. SubSeq(to, n + 1, Len(to)) = <<>>
        BY <3>1, <4>3, SubSeqEmpty
      <4> QED
        BY ONLY <4>1, <4>4
    <3> QED
      BY <1>6, <3>1, <3>2 DEF NonbWrite
  <2>2. CASE fin # "yes"
    BY <1>6, <2>2, <1>i DEF NonbWrite, Nonb, ToEmptied, InputInv, Stdio
  <2> QED
    BY <2>1, <2>2
<1> QED
  BY <1>1, <1>2, <1>3, <1>4, <1>5, <1>6 DEF Next, Server, Copy, Back

\* A client that returns has shown, or strclinonb still holds, the echo of all.
LEMMA CompleteStep == IInv /\ [Next]_vars => CompleteAtReturn'
<1> SUFFICES ASSUME IInv, [Next]_vars, cli' = "returned", server' # "crashed",
                    version' # "select01"
             PROVE  out' = Typed' \/ (version' = "nonb" /\ out' \o fr' = Typed')
  BY DEF CompleteAtReturn
<1>i. /\ Types /\ InputInv /\ ServerInv /\ ReaderInv /\ LockStep /\ ReturnInv
      /\ FinAfterInput /\ CompleteAtReturn
  BY DEF IInv, Delivered
<1>p. out' \o fr' \o s2c' \o sbuf' \o c2s' \o to' \o inbuf' \o stdinq' = Typed'
  BY PipelineStep DEF Pipeline
<1>t. Types'
  BY TypesStep
<1>e. ASSUME s2c' = <<>>, sbuf' = <<>>, c2s' = <<>>, to' = <<>>, inbuf' = <<>>,
             stdinq' = <<>>
      PROVE  out' \o fr' = Typed'
  <2>1. out' \o fr' \in Seq(Nat)
    BY <1>t, ConcatProperties DEF Types
  <2>2. (out' \o fr') \o <<>> = out' \o fr'
    BY <2>1, ConcatEmptySeq
  <2> QED
    BY ONLY <1>p, <1>e, <2>2
<1>f. ASSUME fr' = <<>>, out' \o fr' = Typed' PROVE out' = Typed'
  <2>1. out' \o <<>> = out'
    BY <1>t, ConcatEmptySeq DEF Types
  <2> QED
    BY ONLY <1>f, <2>1
<1> USE DEF input, user, sets, peer, screen
<1>s. version' = version /\ server # "crashed"
  BY DEF Next, Server, Copy, Back, vars, Type, EndInput, Show,
     EchoRead, EchoWrite, EchoEnd, EchoCrash, ReadInput, ReadEof, Writen, BrokenPipe,
     SelectReturns, NotSet, NonbSelect, NonbStdin, NonbSocket, NonbStdout, NonbWrite,
     ReadSocket, ReadSocketEof, Fputs
<1>1. CASE cli = "returned"
  <2>1. out = Typed \/ (version = "nonb" /\ out \o fr = Typed)
    BY <1>1, <1>i, <1>s DEF CompleteAtReturn
  <2>2. eof = "yes" /\ (version = "fork" => child = "exited")
    BY <1>1, <1>i, <1>s DEF ReturnInv
  <2>3. UNCHANGED <<out, fr, typed>>
    BY <1>1, <1>i, <1>s, <2>2 DEF Next, Server, Copy, Back, vars, Type, EndInput, Show,
       EchoRead, EchoWrite, EchoEnd, EchoCrash, ReadInput, AtInput, ReadEof, AtEof, Writen,
       BrokenPipe, SelectReturns, NotSet, NonbSelect, NonbStdin, NonbSocket, NonbStdout,
       NonbWrite, Nonb, ReadSocket, AtSocket, Running, Ended, ReadSocketEof, Fputs, Select
  <2> QED
    BY <1>s, <2>1, <2>3 DEF Typed
<1>2. CASE cli # "returned"
  <2>1. CASE ReadEof
    <3>1. version = "str_cli" /\ cli = "fgets" /\ to = <<>> /\ inbuf = <<>> /\ stdinq = <<>>
      BY <1>i, <1>s, <2>1 DEF ReadEof, AtEof, AtInput, Select, Shutdown, InputInv, Ended
    <3>2. Flight = 0
      BY <1>i, <1>s, <3>1 DEF LockStep
    <3>3. /\ Len(fr) \in Nat /\ Len(s2c) \in Nat /\ Len(sbuf) \in Nat /\ Len(c2s) \in Nat
      BY <1>i DEF Types
    <3>4. Len(fr) = 0 /\ Len(s2c) = 0 /\ Len(sbuf) = 0 /\ Len(c2s) = 0
      BY <3>2, <3>3 DEF Flight
    <3>5. fr = <<>> /\ s2c = <<>> /\ sbuf = <<>> /\ c2s = <<>>
      BY <1>i, <3>4, EmptySeq DEF Types
    <3>6. UNCHANGED <<fr, s2c, sbuf, c2s, to, inbuf, stdinq>>
      BY <2>1 DEF ReadEof
    <3> QED
      BY <1>e, <1>f, <3>1, <3>5, <3>6
  <2>2. CASE ReadSocketEof \/ NonbSocket
    <3>1. s2c = <<>> /\ server = "ended"
      BY <1>2, <1>s, <2>2 DEF ReadSocketEof, NonbSocket, ServerClosed
    <3>2. sbuf = <<>> /\ c2s = <<>> /\ to = <<>> /\ inbuf = <<>> /\ stdinq = <<>>
      BY <1>i, <3>1 DEF ServerInv, FinAfterInput
    <3>3. UNCHANGED <<fr, s2c, sbuf, c2s, to, inbuf, stdinq>>
      BY <1>2, <2>2 DEF ReadSocketEof, NonbSocket
    <3>4. out' \o fr' = Typed'
      BY <1>e, <3>1, <3>2, <3>3
    <3>5. version = "nonb" \/ fr = <<>>
      BY <1>i, <2>2 DEF ReadSocketEof, AtSocket, Stdio, Select, NonbSocket, ReaderInv
    <3> QED
      BY <1>f, <1>s, <3>3, <3>4, <3>5
  <2>3. CASE ~(ReadEof \/ ReadSocketEof \/ NonbSocket)
    BY <1>2, <2>3 DEF Next, Server, Copy, Back, vars, Type, EndInput, Show,
       EchoRead, EchoWrite, EchoEnd, EchoCrash, ReadInput, Writen, AfterWriten, BrokenPipe,
       SelectReturns, NotSet, NonbSelect, NonbStdin, NonbStdout, NonbWrite, Nonb,
       ReadSocket, ReaderGoto, Fputs, AfterFputs
  <2> QED
    BY <2>1, <2>2, <2>3
<1> QED
  BY <1>1, <1>2

-----------------------------------------------------------------------------
(* The first theorem                                                         *)

\* In every form of str_cli the lines typed pass through the client's buffers,
\* the connection and the server without loss, repetition or change of order; a
\* client that returns has shown the echo of all of them (select01, which returns
\* when its input ends, and what strclinonb holds in fr excepted); and the FIN
\* follows the last line, for any sizes of the buffers (strclinonb.c:39-122).
THEOREM StrCliDelivers == Spec => []Delivered
<1>1. IInv /\ [Next]_vars => IInv'
  <2> SUFFICES ASSUME IInv, [Next]_vars PROVE IInv'
    OBVIOUS
  <2>1. Types' /\ InputInv' /\ ServerInv'
    BY TypesStep, InputStep, ServerStep
  <2>2. ReaderInv' /\ LockStep' /\ ReturnInv'
    BY ReaderStep, LockStepStep, ReturnStep
  <2>3. Pipeline' /\ CompleteAtReturn' /\ FinAfterInput'
    BY PipelineStep, CompleteStep, FinStep
  <2> QED
    BY <2>1, <2>2, <2>3 DEF IInv, Delivered
<1>2. IInv => Delivered
  BY DEF IInv
<1> QED
  BY InitInv, <1>1, <1>2, PTL DEF Spec

-----------------------------------------------------------------------------
(* UdpEcho: what is on its way, and what a client has taken                  *)

Hosts    == {"lo", "eth0", "eth0:1", "late"}
Sources  == Hosts \cup {"stranger"}
UdpPlain == UE!Plain \cup UE!Verifies \cup UE!Connected
Replies  == [line : Nat, src : Sources]
Taken    == [line : Nat, asked : Nat, src : Sources]
Request(k) == [line |-> k, dst |-> UE!Dst]

\* Which programs run together: a client that floods asks one that counts, and the
\* addresses that each program is told.
Pairing ==
  /\ ue_client \in UdpPlain \cup UE!Floods
  /\ ue_client \in UE!Floods <=> ue_server \in UE!Counters
  /\ ue_servaddr \in Hosts \cup {UE!Wild}
  /\ ue_client = "my_dgcliaddr" => ue_servaddr = UE!Wild
  /\ ue_client \in UE!Verifies \ {"my_dgcliaddr"} => ue_servaddr # UE!Wild

UdpTypes ==
  /\ ue_at \in {"fgets", "recv", "reread", "done", "failed"}
  /\ ue_sent \in Nat /\ ue_sent <= UE!Questions /\ ue_count \in Nat
  /\ ue_lost \in Nat /\ ue_strange \in Nat /\ ue_lost + ue_strange <= MaxFaults
  /\ ue_printed \in Seq(Taken) /\ ue_toClient \subseteq Replies /\ ue_peeked \in Seq(Replies)
  /\ IsFiniteSet(ue_toServer)
  /\ \A m \in ue_toServer : \E k \in 1 .. ue_sent : m = Request(k)

\* The sockets: the wildcard address is the last to be bound.
BoundInv ==
  /\ ue_bound \in Seq(Hosts \cup {UE!Brd, UE!Wild})
  /\ UE!ToSet(ue_bound) \subseteq UE!ToSet(Interfaces) \cup {UE!Brd, UE!Wild}
  /\ ue_server \in UE!PerAddress /\ UE!Wild \in UE!ToSet(ue_bound)
       => UE!ToSet(Interfaces) \subseteq UE!ToSet(ue_bound)
  /\ ue_server \in UE!Counters => UE!ToSet(ue_bound) = {UE!Wild}

\* A client that floods takes nothing; what MSG_PEEK showed is read again.
PeekInv ==
  /\ ue_client \in UE!Floods =>
       ue_at \in {"fgets", "done"} /\ ue_toClient = {} /\ ue_printed = <<>>
  /\ ue_at = "reread" =>
       /\ Len(ue_peeked) = 1
       /\ ue_client \in UE!Connected => Head(ue_peeked).src = UE!Dst
       /\ ue_client \notin UE!Verifies
  /\ ue_at = "done" => ue_sent = UE!Questions

\* Without strange datagrams one is on its way at most, while the client waits.
OneOnItsWay ==
  ue_strange = 0 /\ ue_client \notin UE!Floods =>
    /\ ue_at \in {"fgets", "done"} => ue_toServer = {} /\ ue_toClient = {}
    /\ ue_at = "recv" =>
         /\ \A m \in ue_toServer : m = Request(ue_sent) /\ ue_toClient = {}
         /\ \A m \in ue_toClient : m.line = ue_sent /\ ue_toClient = {m}
    /\ ue_at = "reread" =>
         ue_toServer = {} /\ ue_toClient = {} /\ Head(ue_peeked).line = ue_sent

\* A server with a socket for each address answers from the one that was asked.
FromAsked ==
  ue_client = "udpcli02" /\ ue_server \in UE!PerAddress /\ ue_servaddr # Late
    /\ ue_lost + ue_strange = 0 =>
    /\ \A m \in ue_toClient : m.src = ue_servaddr
    /\ ue_at \in {"fgets", "done"} => Len(ue_printed) = ue_sent
    /\ ue_at = "recv" => Len(ue_printed) + 1 = ue_sent

CountInv ==
  /\ UE!CountsWhatCame
  /\ ue_server \notin UE!Counters => ue_count = 0

UdpParts ==
  /\ UE!AnswersMatch /\ UE!OnlyFromServer /\ UE!VerifiesInVain /\ UE!SaysDestination

UdpInv == /\ Pairing /\ UdpTypes /\ BoundInv /\ PeekInv /\ OneOnItsWay /\ FromAsked
          /\ CountInv /\ UdpParts

-----------------------------------------------------------------------------
(* The host's addresses, and the sizes of sets as the instances write them   *)

LEMMA HostsAre ==
  /\ UE!Addrs = Hosts /\ UE!ToSet(Interfaces) = {"lo", "eth0", "eth0:1"}
  /\ DOMAIN Interfaces = 1 .. 3 /\ Interfaces[1] = "lo" /\ Late = "late"
  /\ \A k \in 1 .. 3 : Interfaces[k] \in UE!ToSet(Interfaces)
<1>1. DOMAIN Interfaces = {1, 2, 3}
  BY DEF Interfaces
<1>2. UE!ToSet(Interfaces) = {"lo", "eth0", "eth0:1"}
  <2>1. UE!ToSet(Interfaces) = {Interfaces[1], Interfaces[2], Interfaces[3]}
    BY <1>1 DEF UE!ToSet
  <2> QED
    BY <2>1 DEF Interfaces
<1> QED
  BY <1>1, <1>2 DEF Interfaces, Hosts, UE!Addrs, Late, UE!ToSet

LEMMA UdpSizes == ASSUME NEW S PROVE UE!Cardinality(S) = Cardinality(S)
BY DEF UE!Cardinality, Cardinality

\* The address that the client writes to is one of the host's.
LEMMA DstIsHost == ASSUME Pairing PROVE UE!Dst \in Hosts /\ UE!Wild \notin Sources
BY HostsAre DEF Pairing, UE!Dst, UE!Wild, Hosts, Sources

\* What an element added to a sequence adds to its set.
LEMMA AppendToSet ==
  ASSUME NEW S, NEW s \in Seq(S), NEW x \in S
  PROVE  UE!ToSet(Append(s, x)) = UE!ToSet(s) \cup {x} /\ Append(s, x) \in Seq(S)
<1>1. /\ Append(s, x) \in Seq(S) /\ Len(Append(s, x)) = Len(s) + 1
      /\ \A i \in 1 .. Len(s) : Append(s, x)[i] = s[i]
      /\ Append(s, x)[Len(s) + 1] = x /\ Len(s) \in Nat
  BY AppendProperties, LenProperties
<1>2. DOMAIN s = 1 .. Len(s) /\ DOMAIN Append(s, x) = 1 .. Len(s) + 1
  BY <1>1, LenProperties
<1> QED
  BY <1>1, <1>2 DEF UE!ToSet

-----------------------------------------------------------------------------

LEMMA UdpInit == UE!Init => UdpInv
<1> SUFFICES ASSUME UE!Init PROVE UdpInv
  OBVIOUS
<1> USE DEF UE!Init
<1>1. Pairing
  <2>1. UE!Runs(ue_client, ue_server)
    OBVIOUS
  <2>2. /\ ue_client \in UdpPlain \cup UE!Floods
        /\ ue_client \in UE!Floods <=> ue_server \in UE!Counters
    BY <2>1 DEF UdpPlain, UE!Runs, UE!Plain, UE!Verifies, UE!Connected, UE!Floods,
                UE!Daytimes, UE!Peeks, UE!Wildcards, UE!PerAddress, UE!Counters,
                UE!DaytimeServers
  <2>3. /\ ue_servaddr \in Hosts \cup {UE!Wild}
        /\ ue_client = "my_dgcliaddr" => ue_servaddr = UE!Wild
        /\ ue_client \in UE!Verifies \ {"my_dgcliaddr"} => ue_servaddr # UE!Wild
    BY HostsAre DEF UE!Mine, UE!Verifies, UE!Wild, Hosts
  <2> QED
    BY <2>2, <2>3 DEF Pairing
<1>2. UdpTypes
  BY BoundsAssumption, FS_EmptySet DEF UdpTypes, UE!Questions
<1>3. BoundInv
  <2>1. UE!ToSet(<<>>) = {} /\ UE!ToSet(<<UE!Wild>>) = {UE!Wild}
    BY DEF UE!ToSet
  <2>2. ue_bound = IF ue_server \in UE!PerAddress \cup {"none"} THEN <<>> ELSE <<UE!Wild>>
    OBVIOUS
  <2>3. <<>> \in Seq(Hosts \cup {UE!Brd, UE!Wild}) /\ <<UE!Wild>> \in Seq(Hosts \cup {UE!Brd, UE!Wild})
    <3> DEFINE S == Hosts \cup {UE!Brd, UE!Wild}
    <3>1. UE!Wild \in S
      OBVIOUS
    <3> HIDE DEF S
    <3> QED
      BY ONLY <3>1
  <2> QED
    BY <2>1, <2>2, <2>3 DEF BoundInv, UE!PerAddress, UE!Counters
<1>4. PeekInv /\ OneOnItsWay /\ FromAsked
  BY DEF PeekInv, OneOnItsWay, FromAsked
<1>5. CountInv
  BY UdpSizes, FS_EmptySet DEF CountInv, UE!CountsWhatCame
<1>6. UdpParts
  BY DEF UdpParts, UE!AnswersMatch, UE!OnlyFromServer, UE!VerifiesInVain,
         UE!SaysDestination
<1> QED
  BY <1>1, <1>2, <1>3, <1>4, <1>5, <1>6 DEF UdpInv

\* Whatever a program is called, it does one of these.
Receives == UE!RecvfromAny \/ UE!RecvfromVerified \/ UE!ReadConnected
LEMMA UdpSteps ==
  ASSUME UE!Next
  PROVE  \/ UE!Sendto \/ UE!EndOfInput \/ Receives \/ UE!Filtered \/ UE!Peek \/ UE!Reread
         \/ UE!BindUnicast \/ UE!BindBroadcast \/ UE!BindWild
         \/ UE!Answer \/ UE!CountDatagram \/ UE!Lose \/ UE!Extra \/ UE!Unreachable
<1>1. CASE UE!ClientStep
  BY <1>1 DEF Receives, UE!ClientStep, UE!DgCli, UE!DgCliInetaddr, UE!DgCliBig, UE!MyDgCli,
     UE!DgCliAddr, UE!DgCliConnect, UE!DgCliLoop1, UE!DgCliLoop3, UE!Udpcli01, UE!Udpcli02,
     UE!Udpcli03, UE!Udpcli04, UE!Udpcli06, UE!Udpcli08, UE!Udpcli10, UE!MyUdpcli01,
     UE!MyDgcliaddr, UE!MyDgcliconnect, UE!MyDgcliloop1, UE!Unixdgcli01,
     UE!Daytimeudpcli1, UE!Daytimeudpcli2, UE!Daytimeudpcli3, UE!Daytimeudpcli4
<1>2. CASE UE!ServerStep
  BY <1>2 DEF UE!ServerStep, UE!DgEcho, UE!DgEchoFlags, UE!MyDgEcho, UE!MydgEcho03,
     UE!MydgEcho04, UE!DgEchoLoop1, UE!DgEchoLoop2, UE!Binds, UE!Udpserv01, UE!Dgechoaddr,
     UE!MyUdpsrv01, UE!Unixdgserv01, UE!Udpserv03, UE!Udpserv04, UE!Udpserv06,
     UE!Udpserv07, UE!MyDgecholoop1, UE!Daytimeudpsrv2, UE!Daytimeudpsrv3
<1> QED
  BY <1>1, <1>2 DEF UE!Next

\* What the types say of a datagram.
LEMMA Datagram ==
  ASSUME Pairing, UdpTypes
  PROVE  /\ UE!Questions \in Nat \ {0} /\ UE!Questions <= UdpLines
         /\ \A m \in ue_toServer : m.line \in Nat /\ m.line <= ue_sent /\ m.dst = UE!Dst
         /\ \A m \in ue_toClient : m.line \in Nat /\ m.src \in Sources
         /\ UE!Dst \in Hosts
<1>1. UE!Questions \in Nat \ {0} /\ UE!Questions <= UdpLines
  BY BoundsAssumption DEF UE!Questions
<1>2. \A m \in ue_toServer : m.line \in Nat /\ m.line <= ue_sent /\ m.dst = UE!Dst
  BY DEF UdpTypes, Request
<1>3. \A m \in ue_toClient : m.line \in Nat /\ m.src \in Sources
  BY DEF UdpTypes, Replies
<1> QED
  BY <1>1, <1>2, <1>3, DstIsHost

\* A receive takes one datagram, and prints it or not.
LEMMA TakesOne ==
  ASSUME UdpInv, Receives
  PROVE  /\ ue_at = "recv" /\ ue_at' = "fgets" /\ ue_client \notin UE!Floods
         /\ UNCHANGED <<ue_client, ue_server, ue_servaddr, ue_sent, ue_toServer, ue_lost,
                        ue_strange, ue_bound, ue_told, ue_count, ue_peeked>>
         /\ \E m \in ue_toClient :
              /\ ue_toClient' = ue_toClient \ {m}
              /\ \/ UNCHANGED ue_printed /\ ue_client \in UE!Verifies /\ m.src # ue_servaddr
                 \/ /\ ue_printed' = Append(ue_printed,
                                      [line |-> m.line, asked |-> ue_sent, src |-> m.src])
                    /\ ue_client \in UE!Verifies => m.src = ue_servaddr
                    /\ ue_client \in UE!Connected => m.src = UE!Dst
<1> USE DEF UE!Received, UE!programs, UE!Puts
<1>0. ue_client \notin UE!Floods
  BY DEF UdpInv, PeekInv, Receives, UE!RecvfromAny, UE!RecvfromVerified, UE!ReadConnected
<1>d. /\ UE!Plain \cap (UE!Verifies \cup UE!Connected) = {}
      /\ UE!Verifies \cap UE!Connected = {}
  BY DEF UE!Plain, UE!Verifies, UE!Connected
<1>1. CASE UE!RecvfromAny
  BY <1>0, <1>1, <1>d DEF UE!RecvfromAny
<1>2. CASE UE!RecvfromVerified
  BY <1>0, <1>2, <1>d DEF UE!RecvfromVerified, UE!IsServer, UE!AfterIgnored
<1>3. CASE UE!ReadConnected
  BY <1>0, <1>3, <1>d DEF UE!ReadConnected, UE!FromPeer
<1> QED
  BY <1>1, <1>2, <1>3 DEF Receives

\* An answer comes from one of the host's addresses; from the one that was asked,
\* if the server has a socket for each.
LEMMA AnswerSent ==
  ASSUME UdpInv, UE!Answer
  PROVE  /\ ue_server \notin UE!Counters
         /\ UNCHANGED <<ue_client, ue_server, ue_servaddr, ue_at, ue_sent, ue_printed, ue_peeked,
                        ue_lost, ue_strange, ue_bound, ue_count>>
         /\ \E m \in ue_toServer, s \in Hosts :
              /\ ue_toServer' = ue_toServer \ {m}
              /\ ue_toClient' = ue_toClient \cup {[line |-> m.line, src |-> s]}
              /\ ue_server \in UE!PerAddress /\ UE!Dst \in UE!ToSet(Interfaces) => s = UE!Dst
         /\ \/ ue_told'.said \in {ue_told'.dst, UE!Wild}
            \/ ue_server = "udpserv03" /\ ue_told'.dst \notin UE!ToSet(Interfaces)
<1>1. PICK m \in ue_toServer :
         /\ UE!SocketFor(m.dst) # "none" /\ ue_toServer' = ue_toServer \ {m}
         /\ ue_told' = [dst |-> m.dst, said |-> UE!Says(UE!SocketFor(m.dst), m)]
         /\ \E s \in UE!Source(UE!SocketFor(m.dst), m) :
              ue_toClient' = ue_toClient \cup {[line |-> m.line, src |-> s]}
  BY Zenon DEF UE!Answer
<1>2. /\ ue_server \notin UE!Counters
      /\ UNCHANGED <<ue_client, ue_server, ue_servaddr, ue_at, ue_sent, ue_printed, ue_peeked,
                     ue_lost, ue_strange, ue_bound, ue_count>>
  BY DEF UE!Answer, UE!programs
<1>3. m.dst = UE!Dst /\ UE!Dst \in Hosts /\ UE!Wild \notin Hosts
  BY Datagram, DstIsHost DEF UdpInv, Sources
<1> DEFINE sock == UE!SocketFor(UE!Dst)
<1>4. \/ sock = UE!Dst
      \/ sock = UE!Wild /\ UE!Dst \notin UE!ToSet(ue_bound) /\ UE!Wild \in UE!ToSet(ue_bound)
  BY <1>1, <1>3 DEF UE!SocketFor
<1>5. sock = UE!Wild /\ ue_server \in UE!PerAddress => UE!Dst \notin UE!ToSet(Interfaces)
  BY <1>3, <1>4 DEF UdpInv, BoundInv
<1>6. UE!Source(sock, m) = IF sock = UE!Wild /\ ue_server # "unixdgserv01" THEN Hosts ELSE {UE!Dst}
  BY <1>3, HostsAre DEF UE!Source
<1>7. UE!Says(sock, m) = CASE ue_server = "udpserv03" /\ sock = UE!Wild -> UE!Brd
                           [] ue_server = "dgechoaddr" -> UE!Dst
                           [] OTHER -> sock
  BY <1>3 DEF UE!Says
<1>8. "udpserv03" \in UE!PerAddress
  BY DEF UE!PerAddress
<1> HIDE DEF sock
<1>9. PICK s \in UE!Source(sock, m) : ue_toClient' = ue_toClient \cup {[line |-> m.line, src |-> s]}
  BY <1>1, <1>3 DEF sock
<1>10. s \in Hosts /\ (ue_server \in UE!PerAddress /\ UE!Dst \in UE!ToSet(Interfaces) => s = UE!Dst)
  BY <1>3, <1>4, <1>5, <1>6
<1>11. ue_told' = [dst |-> UE!Dst, said |-> UE!Says(sock, m)]
  BY <1>1, <1>3 DEF sock
<1>12. \/ ue_told'.said \in {ue_told'.dst, UE!Wild}
       \/ ue_server = "udpserv03" /\ ue_told'.dst \notin UE!ToSet(Interfaces)
  BY <1>4, <1>5, <1>7, <1>8, <1>11
<1> QED
  BY <1>1, <1>2, <1>9, <1>10, <1>12, Zenon

\* Types.
LEMMA UdpTypesStep == UdpInv /\ [UE!Next]_ue_vars => Pairing' /\ UdpTypes'
<1> SUFFICES ASSUME UdpInv, [UE!Next]_ue_vars PROVE Pairing' /\ UdpTypes'
  OBVIOUS
<1>i. Pairing /\ UdpTypes
  BY DEF UdpInv
<1>d. /\ UE!Questions \in Nat \ {0}
      /\ \A m \in ue_toServer : m.line \in Nat /\ m.line <= ue_sent /\ m.dst = UE!Dst
      /\ UE!Dst \in Hosts
  BY <1>i, Datagram
<1> USE DEF UE!programs, UE!network, UE!Elsewhere, UE!Here, UE!Received
<1>n. UNCHANGED <<ue_client, ue_server, ue_servaddr>>
  <2>1. CASE UE!Next
    <3>1. CASE Receives
      BY <3>1, TakesOne
    <3>2. CASE UE!Answer
      BY <3>2, AnswerSent
    <3> QED
      BY <2>1, <3>1, <3>2, UdpSteps DEF UE!Sendto, UE!EndOfInput, UE!Filtered,
       UE!Peek, UE!Reread, UE!BindUnicast, UE!BindBroadcast, UE!BindWild, UE!CountDatagram,
       UE!Lose, UE!Extra, UE!Unreachable
  <2> QED
    BY <2>1 DEF ue_vars
<1>p. Pairing' /\ UE!Dst' = UE!Dst /\ UE!Questions' = UE!Questions
  BY <1>i, <1>n DEF Pairing, UE!Dst, UE!Questions
<1> SUFFICES UdpTypes'
  BY <1>p
<1> USE <1>p
<1>1. CASE UNCHANGED ue_vars
  BY <1>1, <1>i DEF ue_vars, UdpTypes, Request
<1>2. CASE UE!Sendto
  <2>1. /\ ue_sent' = ue_sent + 1 /\ ue_sent < UE!Questions
        /\ ue_toServer' = ue_toServer \cup {Request(ue_sent + 1)}
        /\ ue_at' \in {"fgets", "recv"}
        /\ UNCHANGED <<ue_printed, ue_toClient, ue_peeked, ue_lost, ue_strange, ue_count>>
    BY <1>2 DEF UE!Sendto, Request
  <2>2. ue_sent' \in Nat /\ ue_sent' <= UE!Questions
    BY <1>d, <1>i, <2>1 DEF UdpTypes
  <2>3. IsFiniteSet(ue_toServer')
    BY <1>i, <2>1, FS_AddElement DEF UdpTypes
  <2>4. \A m \in ue_toServer' : \E k \in 1 .. ue_sent' : m = [line |-> k, dst |-> UE!Dst]
    <3>1. \A m \in ue_toServer : \E k \in 1 .. ue_sent : m = [line |-> k, dst |-> UE!Dst]
      BY <1>i DEF UdpTypes, Request
    <3>2. ue_sent + 1 \in 1 .. ue_sent' /\ \A k \in 1 .. ue_sent : k \in 1 .. ue_sent'
      BY <1>i, <2>1 DEF UdpTypes
    <3> QED
      BY <2>1, <3>1, <3>2, Zenon DEF Request
  <2> QED
    BY <1>i, <2>1, <2>2, <2>3, <2>4 DEF UdpTypes, Request
<1>3. CASE UE!EndOfInput
  BY <1>3, <1>i DEF UE!EndOfInput, UdpTypes, Request
<1>4. CASE Receives
  <2>1. PICK m \in ue_toClient :
           /\ ue_toClient' = ue_toClient \ {m}
           /\ \/ UNCHANGED ue_printed
              \/ ue_printed' = Append(ue_printed, [line |-> m.line, asked |-> ue_sent, src |-> m.src])
    BY <1>4, TakesOne
  <2>2. [line |-> m.line, asked |-> ue_sent, src |-> m.src] \in Taken
    BY <1>i DEF UdpTypes, Replies, Taken
  <2>3. ue_printed' \in Seq(Taken)
    BY <1>i, <2>1, <2>2, AppendProperties DEF UdpTypes
  <2> QED
    BY <1>4, <1>i, <2>1, <2>3, TakesOne DEF UdpTypes, Request
<1>5. CASE UE!Filtered
  BY <1>5, <1>i DEF UE!Filtered, UdpTypes, Request
<1>6. CASE UE!Peek
  <2>1. PICK m \in ue_toClient : ue_toClient' = ue_toClient \ {m} /\ ue_peeked' = <<m>>
    BY <1>6 DEF UE!Peek
  <2>2. <<m>> \in Seq(Replies)
    <3>1. m \in Replies
      BY <1>i DEF UdpTypes
    <3> QED
      BY ONLY <3>1
  <2> QED
    BY <1>6, <1>i, <2>1, <2>2 DEF UE!Peek, UdpTypes, Request
<1>7. CASE UE!Reread
  <2>1. Head(ue_peeked) \in Replies
    <3>1. ue_peeked \in Seq(Replies) /\ Len(ue_peeked) = 1
      BY <1>7, <1>i DEF UE!Reread, UdpInv, PeekInv, UdpTypes
    <3>2. ue_peeked # <<>>
      BY <3>1
    <3> QED
      BY ONLY <3>1, <3>2, HeadTailProperties
  <2> DEFINE e == [line |-> Head(ue_peeked).line, asked |-> ue_sent, src |-> Head(ue_peeked).src]
  <2>2. e \in Taken
    BY <1>i, <2>1 DEF UdpTypes, Replies, Taken
  <2>3. ue_printed' = Append(ue_printed, e)
    BY <1>7 DEF UE!Reread, UE!Puts
  <2>4. ue_printed' \in Seq(Taken)
    BY <1>i, <2>2, <2>3, AppendProperties DEF UdpTypes
  <2>5. ue_peeked' \in Seq(Replies)
    <3>1. ue_peeked' = <<>>
      BY <1>7 DEF UE!Reread
    <3> QED
      BY ONLY <3>1
  <2> QED
    BY <1>7, <1>i, <2>4, <2>5 DEF UE!Reread, UdpTypes, Request
<1>8. CASE UE!BindUnicast \/ UE!BindBroadcast \/ UE!BindWild
  BY <1>8, <1>i DEF UE!BindUnicast, UE!BindBroadcast, UE!BindWild, UdpTypes, Request
<1>9. CASE UE!Answer
  <2>1. PICK m \in ue_toServer, s \in Hosts :
           /\ ue_toServer' = ue_toServer \ {m}
           /\ ue_toClient' = ue_toClient \cup {[line |-> m.line, src |-> s]}
    BY <1>9, AnswerSent
  <2>2. [line |-> m.line, src |-> s] \in Replies
    BY <1>d DEF Replies, Sources
  <2>3. IsFiniteSet(ue_toServer')
    BY <1>i, <2>1, FS_RemoveElement DEF UdpTypes
  <2> QED
    BY <1>9, <1>i, <2>1, <2>2, <2>3, AnswerSent DEF UdpTypes, Request
<1>10. CASE UE!CountDatagram
  <2>1. PICK m \in ue_toServer : ue_toServer' = ue_toServer \ {m}
    BY <1>10 DEF UE!CountDatagram
  <2>3. IsFiniteSet(ue_toServer')
    BY <1>i, <2>1, FS_RemoveElement DEF UdpTypes
  <2> QED
    BY <1>10, <1>i, <2>1, <2>3 DEF UE!CountDatagram, UdpTypes, Request
<1>11. CASE UE!Lose
  <2>1. \/ \E m \in ue_toServer : ue_toServer' = ue_toServer \ {m} /\ UNCHANGED ue_toClient
        \/ \E m \in ue_toClient : ue_toClient' = ue_toClient \ {m} /\ UNCHANGED ue_toServer
    BY <1>11 DEF UE!Lose
  <2>2. IsFiniteSet(ue_toServer') /\ ue_toServer' \subseteq ue_toServer /\ ue_toClient' \subseteq ue_toClient
    BY <1>i, <2>1, FS_RemoveElement DEF UdpTypes
  <2>3. ue_lost' \in Nat /\ ue_strange' \in Nat /\ ue_lost' + ue_strange' <= MaxFaults
    BY <1>11, <1>i, BoundsAssumption DEF UE!Lose, UE!Faulty, UdpTypes
  <2> QED
    BY <1>11, <1>i, <2>2, <2>3 DEF UE!Lose, UdpTypes, Request
<1>12. CASE UE!Extra
  <2>3. ue_lost' \in Nat /\ ue_strange' \in Nat /\ ue_lost' + ue_strange' <= MaxFaults
    BY <1>12, <1>i, BoundsAssumption DEF UE!Extra, UE!Faulty, UdpTypes
  <2>1. CASE UNCHANGED ue_toServer /\ ue_toClient' = ue_toClient \cup {[line |-> 0, src |-> "stranger"]}
    <3>1. [line |-> 0, src |-> "stranger"] \in Replies
      BY DEF Replies, Sources
    <3> QED
      BY <1>12, <1>i, <2>1, <2>3, <3>1 DEF UE!Extra, UdpTypes, Request
  <2>2. ASSUME NEW k \in 1 .. ue_sent, ue_toServer' = ue_toServer \cup {Request(k)}, UNCHANGED ue_toClient
        PROVE  UdpTypes'
    <3>1. IsFiniteSet(ue_toServer')
      BY <1>i, <2>2, FS_AddElement DEF UdpTypes
    <3>2. \A m \in ue_toServer' : \E j \in 1 .. ue_sent' : m = Request(j)
      BY <1>12, <1>i, <2>2 DEF UE!Extra, UdpTypes
    <3> QED
      BY <1>12, <1>i, <2>2, <2>3, <3>1, <3>2 DEF UE!Extra, UdpTypes, Request
  <2> QED
    BY <1>12, <2>1, <2>2 DEF UE!Extra, Request
<1>13. CASE UE!Unreachable
  <2>1. PICK m \in ue_toServer : ue_toServer' = ue_toServer \ {m}
    BY <1>13 DEF UE!Unreachable
  <2>2. IsFiniteSet(ue_toServer')
    BY <1>i, <2>1, FS_RemoveElement DEF UdpTypes
  <2>3. ue_at' \in {"fgets", "recv", "reread", "done", "failed"}
    BY <1>13, <1>i DEF UE!Unreachable, UdpTypes
  <2> QED
    BY <1>13, <1>i, <2>1, <2>2, <2>3 DEF UE!Unreachable, UdpTypes, Request
<1> QED
  BY <1>1, <1>2, <1>3, <1>4, <1>5, <1>6, <1>7, <1>8, <1>9, <1>10, <1>11, <1>12, <1>13, UdpSteps

\* Steps that bind no socket.
LEMMA NotBinding ==
  ASSUME UdpInv, [UE!Next]_ue_vars,
         ~UE!BindUnicast, ~UE!BindBroadcast, ~UE!BindWild
  PROVE  UNCHANGED <<ue_bound, ue_server>>
<1> USE DEF UE!programs, UE!network, UE!Elsewhere, UE!Received
<1>1. CASE Receives
  BY <1>1, TakesOne
<1>2. CASE UE!Answer
  BY <1>2, AnswerSent
<1>3. CASE UNCHANGED ue_vars
  BY <1>3 DEF ue_vars
<1> QED
  BY <1>1, <1>2, <1>3, UdpSteps DEF UE!Sendto, UE!EndOfInput, UE!Filtered,
     UE!Peek, UE!Reread, UE!CountDatagram, UE!Lose, UE!Extra, UE!Unreachable

\* The sockets.
LEMMA BoundStep == UdpInv /\ [UE!Next]_ue_vars => BoundInv'
<1> SUFFICES ASSUME UdpInv, [UE!Next]_ue_vars PROVE BoundInv'
  OBVIOUS
<1>b. BoundInv
  BY DEF UdpInv
<1>1. CASE UNCHANGED <<ue_bound, ue_server>>
  BY <1>1, <1>b DEF BoundInv
<1>2. ASSUME NEW x \in Hosts \cup {UE!Brd, UE!Wild},
             UE!Bind(x), UNCHANGED ue_server, UE!Setting,
             x \in UE!ToSet(Interfaces) \cup {UE!Brd, UE!Wild},
             x = UE!Wild => UE!ToSet(Interfaces) \subseteq UE!ToSet(ue_bound)
      PROVE  BoundInv'
  <2>1. /\ UE!ToSet(ue_bound)' = UE!ToSet(ue_bound) \cup {x}
        /\ ue_bound' \in Seq(Hosts \cup {UE!Brd, UE!Wild})
    BY <1>2, <1>b, AppendToSet DEF UE!Bind, BoundInv, UE!ToSet
  <2>2. ue_server \notin UE!Counters
    BY <1>2 DEF UE!Setting, UE!PerAddress, UE!Counters
  <2> QED
    BY <1>2, <1>b, <2>1, <2>2 DEF BoundInv, UE!Setting
<1>3. CASE UE!BindUnicast
  <2>1. PICK k \in UE!Unbound : UE!Bind(Interfaces[k])
    BY <1>3, Zenon DEF UE!BindUnicast
  <2>2. Interfaces[k] \in UE!ToSet(Interfaces) /\ Interfaces[k] \in Hosts /\ UE!Wild \notin Hosts
    BY HostsAre, DstIsHost DEF UE!Unbound, Hosts, UdpInv, Sources
  <2> QED
    BY <1>2, <1>3, <2>1, <2>2 DEF UE!BindUnicast, UE!Here, UE!programs
<1>4. CASE UE!BindBroadcast
  <2>1. UE!Brd # UE!Wild
    BY DEF UE!Brd, UE!Wild
  <2> QED
    BY <1>2, <1>4, <2>1 DEF UE!BindBroadcast, UE!Here, UE!programs
<1>5. CASE UE!BindWild
  <2>1. UE!ToSet(Interfaces) \subseteq UE!ToSet(ue_bound)
    BY <1>5 DEF UE!BindWild, UE!Unbound, UE!ToSet
  <2> QED
    BY <1>2, <1>5, <2>1 DEF UE!BindWild, UE!Here, UE!programs
<1> QED
  BY <1>1, <1>3, <1>4, <1>5, NotBinding

\* Peeking, and the end.
LEMMA PeekStep == UdpInv /\ [UE!Next]_ue_vars => PeekInv'
<1> SUFFICES ASSUME UdpInv, [UE!Next]_ue_vars PROVE PeekInv'
  OBVIOUS
<1>i. PeekInv /\ Pairing /\ UdpTypes /\ Pairing'
  BY UdpTypesStep DEF UdpInv
<1>p. ue_client \in UE!Floods => ue_client \notin UE!Connected \cup UE!Peeks
  BY DEF UE!Floods, UE!Connected, UE!Peeks
<1> USE DEF UE!programs, UE!network, UE!Elsewhere, UE!Received, UE!Here, UE!Questions, UE!Dst
<1>1. CASE UNCHANGED ue_vars
  BY <1>1, <1>i DEF ue_vars, PeekInv
<1>2. CASE UE!Sendto \/ UE!EndOfInput
  BY <1>2, <1>i DEF UE!Sendto, UE!EndOfInput, PeekInv
<1>3. CASE Receives
  BY <1>3, <1>i, TakesOne DEF PeekInv
<1>4. CASE UE!Filtered
  BY <1>4, <1>i, <1>p DEF UE!Filtered, PeekInv
<1>5. CASE UE!Peek
  <2>1. PICK m \in ue_toClient : ue_peeked' = <<m>> /\ (ue_client \in UE!Connected => m.src = UE!Dst)
    BY <1>5 DEF UE!Peek, UE!FromPeer
  <2>2. Len(ue_peeked') = 1 /\ Head(ue_peeked') = m
    BY <2>1
  <2>3. ue_client \in UE!Peeks => ue_client \notin UE!Verifies
    BY DEF UE!Peeks, UE!Verifies
  <2> QED
    BY <1>5, <1>i, <1>p, <2>1, <2>2, <2>3 DEF UE!Peek, PeekInv
<1>6. CASE UE!Reread
  BY <1>6, <1>i DEF UE!Reread, PeekInv
<1>7. CASE UE!BindUnicast \/ UE!BindBroadcast \/ UE!BindWild
  BY <1>7, <1>i DEF UE!BindUnicast, UE!BindBroadcast, UE!BindWild, PeekInv
<1>8. CASE UE!Answer
  BY <1>8, <1>i, AnswerSent DEF PeekInv, Pairing
<1>9. CASE UE!CountDatagram
  BY <1>9, <1>i DEF UE!CountDatagram, PeekInv
<1>10. CASE UE!Lose
  BY <1>10, <1>i DEF UE!Lose, PeekInv
<1>11. CASE UE!Extra
  BY <1>11, <1>i DEF UE!Extra, PeekInv, Pairing
<1>12. CASE UE!Unreachable
  BY <1>12, <1>i, <1>p DEF UE!Unreachable, PeekInv
<1> QED
  BY <1>1, <1>2, <1>3, <1>4, <1>5, <1>6, <1>7, <1>8, <1>9, <1>10, <1>11, <1>12, UdpSteps

\* One datagram on its way.
LEMMA OneStep == UdpInv /\ [UE!Next]_ue_vars => OneOnItsWay'
<1> SUFFICES ASSUME UdpInv, [UE!Next]_ue_vars PROVE OneOnItsWay'
  OBVIOUS
<1>i. OneOnItsWay /\ PeekInv /\ Pairing /\ UdpTypes /\ Pairing'
  BY UdpTypesStep DEF UdpInv
<1> USE DEF UE!programs, UE!network, UE!Elsewhere, UE!Received, UE!Here, UE!Dst, Request
<1>1. CASE UNCHANGED ue_vars
  BY <1>1, <1>i DEF ue_vars, OneOnItsWay
<1>2. CASE UE!Sendto \/ UE!EndOfInput
  BY <1>2, <1>i DEF UE!Sendto, UE!EndOfInput, OneOnItsWay
<1>3. CASE Receives
  BY <1>3, <1>i, TakesOne DEF OneOnItsWay
<1>4. CASE UE!Filtered
  BY <1>4, <1>i DEF UE!Filtered, OneOnItsWay
<1>5. CASE UE!Peek
  <2>1. PICK m \in ue_toClient : ue_toClient' = ue_toClient \ {m} /\ ue_peeked' = <<m>>
    BY <1>5 DEF UE!Peek
  <2>2. Head(ue_peeked') = m
    BY <2>1
  <2> QED
    BY <1>5, <1>i, <2>1, <2>2 DEF UE!Peek, OneOnItsWay
<1>6. CASE UE!Reread
  BY <1>6, <1>i DEF UE!Reread, OneOnItsWay
<1>7. CASE UE!BindUnicast \/ UE!BindBroadcast \/ UE!BindWild
  BY <1>7, <1>i DEF UE!BindUnicast, UE!BindBroadcast, UE!BindWild, OneOnItsWay
<1>8. CASE UE!Answer
  BY <1>8, <1>i, AnswerSent DEF OneOnItsWay, UdpTypes
<1>9. CASE UE!CountDatagram
  BY <1>9, <1>i DEF UE!CountDatagram, OneOnItsWay
<1>10. CASE UE!Lose
  BY <1>10, <1>i DEF UE!Lose, OneOnItsWay
<1>11. CASE UE!Extra
  BY <1>11, <1>i DEF UE!Extra, OneOnItsWay, UdpTypes
<1>12. CASE UE!Unreachable
  BY <1>12, <1>i DEF UE!Unreachable, OneOnItsWay
<1> QED
  BY <1>1, <1>2, <1>3, <1>4, <1>5, <1>6, <1>7, <1>8, <1>9, <1>10, <1>11, <1>12, UdpSteps

\* Answers from the address that was asked.
LEMMA FromStep == UdpInv /\ [UE!Next]_ue_vars => FromAsked'
<1> SUFFICES ASSUME UdpInv, [UE!Next]_ue_vars PROVE FromAsked'
  OBVIOUS
<1>i. FromAsked /\ PeekInv /\ Pairing /\ UdpTypes /\ Pairing'
  BY UdpTypesStep DEF UdpInv
<1>d. ue_printed \in Seq(Taken) /\ Len(ue_printed) \in Nat /\ ue_sent \in Nat
      /\ ue_lost \in Nat /\ ue_strange \in Nat
  BY <1>i, LenProperties DEF UdpTypes
<1>c. ue_client = "udpcli02" => /\ ue_client \in UE!Verifies /\ ue_client \notin UE!Peeks
                                /\ ue_client \notin UE!Connected /\ ue_client \notin UE!Floods
  BY DEF UE!Verifies, UE!Peeks, UE!Connected, UE!Floods
<1>a. ue_client = "udpcli02" /\ ue_servaddr # Late =>
         UE!Dst = ue_servaddr /\ UE!Dst \in UE!ToSet(Interfaces)
  <2>1. ue_client = "udpcli02" => ue_servaddr # UE!Wild /\ ue_servaddr \in Hosts
    BY <1>i DEF Pairing, UE!Verifies
  <2> QED
    BY <2>1, HostsAre DEF UE!Dst, Hosts
<1> USE DEF UE!programs, UE!network, UE!Elsewhere, UE!Received, UE!Here
<1>1. CASE UNCHANGED ue_vars
  BY <1>1, <1>i DEF ue_vars, FromAsked
<1>2. CASE UE!Sendto
  BY <1>2, <1>i, <1>c, <1>d DEF UE!Sendto, FromAsked
<1>3. CASE UE!EndOfInput
  BY <1>3, <1>i DEF UE!EndOfInput, FromAsked
<1>4. CASE Receives
  <2>1. PICK m \in ue_toClient :
           /\ ue_toClient' = ue_toClient \ {m}
           /\ \/ UNCHANGED ue_printed /\ ue_client \in UE!Verifies /\ m.src # ue_servaddr
              \/ ue_printed' = Append(ue_printed, [line |-> m.line, asked |-> ue_sent, src |-> m.src])
    BY <1>4, TakesOne
  <2>2. [line |-> m.line, asked |-> ue_sent, src |-> m.src] \in Taken
    BY <1>i DEF UdpTypes, Replies, Taken
  <2>3. \/ UNCHANGED ue_printed /\ m.src # ue_servaddr
        \/ Len(ue_printed') = Len(ue_printed) + 1
    BY <1>d, <2>1, <2>2, AppendProperties
  <2>4. /\ ue_at = "recv" /\ ue_at' = "fgets"
        /\ UNCHANGED <<ue_client, ue_server, ue_servaddr, ue_sent, ue_lost, ue_strange>>
    BY <1>4, TakesOne
  <2> DEFINE n == Len(ue_printed)
             p == Len(ue_printed')
  <2>5. n \in Nat /\ (UNCHANGED ue_printed => p = n) /\ (p = n + 1 \/ UNCHANGED ue_printed)
    BY <1>d, <2>3
  <2> HIDE DEF n, p
  <2>6. FromAsked' <=> (ue_client = "udpcli02" /\ ue_server \in UE!PerAddress /\ ue_servaddr # Late
                          /\ ue_lost + ue_strange = 0 =>
                            (\A x \in ue_toClient' : x.src = ue_servaddr) /\ p = ue_sent)
    BY <2>4 DEF FromAsked, p
  <2>7. FromAsked <=> (ue_client = "udpcli02" /\ ue_server \in UE!PerAddress /\ ue_servaddr # Late
                          /\ ue_lost + ue_strange = 0 =>
                            (\A x \in ue_toClient : x.src = ue_servaddr) /\ n + 1 = ue_sent)
    BY <2>4 DEF FromAsked, n
  <2> QED
    BY <1>i, <1>d, <2>1, <2>3, <2>5, <2>6, <2>7
<1>5. CASE UE!Filtered \/ UE!Peek \/ UE!Reread
  BY <1>5, <1>i, <1>c DEF UE!Filtered, UE!Peek, UE!Reread, FromAsked, PeekInv
<1>6. CASE UE!BindUnicast \/ UE!BindBroadcast \/ UE!BindWild
  BY <1>6, <1>i DEF UE!BindUnicast, UE!BindBroadcast, UE!BindWild, FromAsked
<1>7. CASE UE!Answer
  BY <1>7, <1>i, <1>a, AnswerSent DEF FromAsked
<1>8. CASE UE!CountDatagram
  BY <1>8, <1>i DEF UE!CountDatagram, FromAsked
<1>9. CASE UE!Lose
  BY <1>9, <1>i, <1>d DEF UE!Lose, FromAsked
<1>10. CASE UE!Extra
  BY <1>10, <1>i, <1>d DEF UE!Extra, FromAsked
<1>11. CASE UE!Unreachable
  BY <1>11, <1>i, <1>c DEF UE!Unreachable, FromAsked
<1> QED
  BY <1>1, <1>2, <1>3, <1>4, <1>5, <1>6, <1>7, <1>8, <1>9, <1>10, <1>11, UdpSteps

\* The servers that count.
LEMMA CountStep == UdpInv /\ [UE!Next]_ue_vars => CountInv'
<1> SUFFICES ASSUME UdpInv, [UE!Next]_ue_vars PROVE CountInv'
  OBVIOUS
<1>i. CountInv /\ PeekInv /\ BoundInv /\ Pairing /\ UdpTypes /\ Pairing'
  BY UdpTypesStep DEF UdpInv
<1> DEFINE n == Cardinality(ue_toServer)
           Sum == ue_count + n + ue_lost
<1>d. /\ n \in Nat /\ ue_count \in Nat /\ ue_lost \in Nat /\ ue_sent \in Nat
      /\ IsFiniteSet(ue_toServer)
  BY <1>i, FS_CardinalityType DEF UdpTypes
<1>c. /\ CountInv <=> IF ue_server \in UE!Counters THEN Sum = ue_sent ELSE ue_count = 0
      /\ CountInv' <=> IF ue_server' \in UE!Counters THEN Sum' = ue_sent' ELSE ue_count' = 0
  BY UdpSizes DEF CountInv, UE!CountsWhatCame
<1> USE DEF UE!programs, UE!network, UE!Elsewhere, UE!Received, UE!Here
\* A datagram that leaves toServer.
<1>r. ASSUME NEW m \in ue_toServer, ue_toServer' = ue_toServer \ {m}
      PROVE  n' = n - 1
  BY <1>d, <1>r, FS_RemoveElement
<1>s. ASSUME UNCHANGED <<ue_server, ue_count, ue_lost, ue_sent>>,
             ue_server \in UE!Counters => UNCHANGED ue_toServer
      PROVE  CountInv'
  BY <1>s, <1>i, <1>c
<1>1. CASE UNCHANGED ue_vars
  BY <1>1, <1>s DEF ue_vars
<1>2. CASE UE!Sendto
  <2>1. ue_toServer' = ue_toServer \cup {Request(ue_sent + 1)} /\ ue_sent' = ue_sent + 1
        /\ UNCHANGED <<ue_server, ue_count, ue_lost>>
    BY <1>2 DEF UE!Sendto, Request
  <2>2. Request(ue_sent + 1) \notin ue_toServer
    <3>1. \A m \in ue_toServer : m.line <= ue_sent
      BY <1>i, Datagram
    <3>2. Request(ue_sent + 1).line = ue_sent + 1 /\ ~(ue_sent + 1 <= ue_sent)
      BY <1>d DEF Request
    <3> QED
      BY <3>1, <3>2
  <2>3. n' = n + 1
    BY <1>d, <2>1, <2>2, FS_AddElement
  <2> HIDE DEF n
  <2> QED
    BY <1>i, <1>c, <1>d, <2>1, <2>3
<1>3. CASE UE!EndOfInput \/ UE!Filtered \/ UE!Peek \/ UE!Reread
  BY <1>3, <1>s DEF UE!EndOfInput, UE!Filtered, UE!Peek, UE!Reread
<1>4. CASE Receives
  BY <1>4, <1>s, TakesOne
<1>5. CASE UE!BindUnicast \/ UE!BindBroadcast \/ UE!BindWild
  BY <1>5, <1>s DEF UE!BindUnicast, UE!BindBroadcast, UE!BindWild
<1>6. CASE UE!Answer
  BY <1>6, <1>s, AnswerSent
<1>7. CASE UE!CountDatagram
  <2>1. n' = n - 1 /\ ue_count' = ue_count + 1 /\ UNCHANGED <<ue_server, ue_lost, ue_sent>>
        /\ ue_server \in UE!Counters
    BY <1>7, <1>r DEF UE!CountDatagram
  <2> HIDE DEF n
  <2> QED
    BY <1>i, <1>c, <1>d, <2>1
<1>8. CASE UE!Lose
  <2>1. ue_lost' = ue_lost + 1 /\ UNCHANGED <<ue_server, ue_count, ue_sent>>
    BY <1>8 DEF UE!Lose
  <2>2. CASE ue_server \in UE!Counters
    <3>1. ue_toClient = {}
      BY <1>i, <2>2 DEF Pairing, PeekInv
    <3>2. n' = n - 1
      BY <1>8, <1>r, <3>1 DEF UE!Lose
    <3> HIDE DEF n
    <3> QED
      BY <1>i, <1>c, <1>d, <2>1, <2>2, <3>2
  <2>3. CASE ue_server \notin UE!Counters
    BY <1>i, <1>c, <2>1, <2>3
  <2> QED
    BY <2>2, <2>3
<1>9. CASE UE!Extra
  BY <1>9, <1>s DEF UE!Extra
<1>10. CASE UE!Unreachable
  <2>1. ue_server \in UE!Counters => \A x : UE!SocketFor(x) # "none" \/ x = "none"
    BY <1>i DEF BoundInv, UE!SocketFor, UE!Wild
  <2>2. \A m \in ue_toServer : m.dst # "none"
    BY <1>i, Datagram DEF Hosts
  <2> QED
    BY <1>10, <1>s, <2>1, <2>2 DEF UE!Unreachable
<1> QED
  BY <1>1, <1>2, <1>3, <1>4, <1>5, <1>6, <1>7, <1>8, <1>9, <1>10, UdpSteps

\* An answer that is printed goes behind the others.
LEMMA Prints ==
  ASSUME UdpTypes, NEW e \in Taken, ue_printed' = Append(ue_printed, e)
  PROVE  \A k \in 1 .. Len(ue_printed') :
           \/ k \in 1 .. Len(ue_printed) /\ ue_printed'[k] = ue_printed[k]
           \/ ue_printed'[k] = e
<1>1. ue_printed \in Seq(Taken) /\ Len(ue_printed) \in Nat
  BY LenProperties DEF UdpTypes
<1>2. /\ Len(ue_printed') = Len(ue_printed) + 1
      /\ \A k \in 1 .. Len(ue_printed) : ue_printed'[k] = ue_printed[k]
      /\ ue_printed'[Len(ue_printed) + 1] = e
  BY <1>1, AppendProperties
<1> QED
  BY <1>1, <1>2

\* What is printed, and where the server says that the datagram went.
LEMMA PrintedRight ==
  ASSUME UdpInv, Pairing', UdpTypes',
         NEW e \in Taken, ue_printed' = Append(ue_printed, e),
         UNCHANGED <<ue_client, ue_server, ue_servaddr, ue_strange, ue_told>>,
         ue_strange = 0 => e.line = e.asked,
         ue_client \in UE!Verifies \cup UE!Connected => e.src = UE!Dst,
         ue_client # "my_dgcliaddr"
  PROVE  UdpParts'
<1>1. \A k \in 1 .. Len(ue_printed') :
        \/ k \in 1 .. Len(ue_printed) /\ ue_printed'[k] = ue_printed[k]
        \/ ue_printed'[k] = e
  BY Prints DEF UdpInv
<1>2. UE!AnswersMatch' /\ UE!OnlyFromServer'
  BY <1>1 DEF UdpInv, UdpParts, UE!AnswersMatch, UE!OnlyFromServer, UE!Dst
<1> QED
  BY <1>2 DEF UdpInv, UdpParts, UE!VerifiesInVain, UE!SaysDestination

LEMMA PartsStep == UdpInv /\ [UE!Next]_ue_vars => UdpParts'
<1> SUFFICES ASSUME UdpInv, [UE!Next]_ue_vars PROVE UdpParts'
  OBVIOUS
<1>i. /\ UdpParts /\ OneOnItsWay /\ PeekInv /\ Pairing /\ UdpTypes /\ Pairing' /\ UdpTypes'
  BY UdpTypesStep DEF UdpInv
<1>n. UE!Dst \in Hosts /\ UE!Wild \notin Sources
  BY <1>i, DstIsHost
<1> USE DEF UE!programs, UE!network, UE!Elsewhere, UE!Received, UE!Here
\* Steps that print nothing.
<1>s. ASSUME UNCHANGED <<ue_client, ue_server, ue_servaddr, ue_printed, ue_told>>,
             ue_strange' = 0 => ue_strange = 0
      PROVE  UdpParts'
  BY <1>s, <1>i DEF UdpParts, UE!AnswersMatch, UE!OnlyFromServer, UE!VerifiesInVain,
                    UE!SaysDestination, UE!Dst
<1>1. CASE UNCHANGED ue_vars
  BY <1>1, <1>s DEF ue_vars
<1>2. CASE UE!Sendto \/ UE!EndOfInput \/ UE!Filtered \/ UE!Peek
  BY <1>2, <1>s DEF UE!Sendto, UE!EndOfInput, UE!Filtered, UE!Peek
<1>3. CASE Receives
  <2>1. /\ ue_at = "recv" /\ ue_client \notin UE!Floods
        /\ UNCHANGED <<ue_client, ue_server, ue_servaddr, ue_strange, ue_told>>
    BY <1>3, TakesOne
  <2>2. PICK m \in ue_toClient :
           \/ UNCHANGED ue_printed
           \/ /\ ue_printed' = Append(ue_printed,
                                [line |-> m.line, asked |-> ue_sent, src |-> m.src])
              /\ ue_client \in UE!Verifies => m.src = ue_servaddr
              /\ ue_client \in UE!Connected => m.src = UE!Dst
    BY <1>3, TakesOne
  <2> DEFINE e == [line |-> m.line, asked |-> ue_sent, src |-> m.src]
  <2>3. e \in Taken /\ m.src \in Sources
    BY <1>i DEF UdpTypes, Replies, Taken
  <2>4. ue_strange = 0 => e.line = e.asked
    BY <1>i, <2>1 DEF OneOnItsWay
  <2>5. CASE UNCHANGED ue_printed
    BY <2>1, <2>5, <1>s
  <2>6. CASE /\ ue_printed' = Append(ue_printed, e)
             /\ ue_client \in UE!Verifies => m.src = ue_servaddr
             /\ ue_client \in UE!Connected => m.src = UE!Dst
    <3>1. ue_client # "my_dgcliaddr"
      BY <1>i, <1>n, <2>3, <2>6 DEF Pairing, UE!Verifies
    <3>2. ue_client \in UE!Verifies \cup UE!Connected => e.src = UE!Dst
      BY <1>i, <2>6, <3>1 DEF Pairing, UE!Dst
    <3> HIDE DEF e
    <3> QED
      BY <1>i, <2>1, <2>3, <2>4, <2>6, <3>1, <3>2, PrintedRight
  <2> QED
    BY <2>2, <2>5, <2>6
<1>4. CASE UE!Reread
  <2>1. /\ ue_at = "reread" /\ ue_printed' = Append(ue_printed,
             [line |-> Head(ue_peeked).line, asked |-> ue_sent, src |-> Head(ue_peeked).src])
        /\ UNCHANGED <<ue_client, ue_server, ue_servaddr, ue_strange, ue_told>>
    BY <1>4 DEF UE!Reread, UE!Puts
  <2> DEFINE h == Head(ue_peeked)
             e == [line |-> h.line, asked |-> ue_sent, src |-> h.src]
  <2>2. h \in Replies
    <3>1. ue_peeked \in Seq(Replies) /\ Len(ue_peeked) = 1
      BY <1>i, <2>1 DEF PeekInv, UdpTypes
    <3>2. ue_peeked # <<>>
      BY <3>1
    <3> QED
      BY ONLY <3>1, <3>2, HeadTailProperties
  <2>3. e \in Taken
    BY <1>i, <2>2 DEF UdpTypes, Replies, Taken
  <2>4. ue_client \notin UE!Verifies /\ (ue_client \in UE!Connected => h.src = UE!Dst)
    BY <1>i, <2>1 DEF PeekInv
  <2>5. ue_strange = 0 => h.line = ue_sent
    BY <1>i, <2>1 DEF OneOnItsWay, PeekInv
  <2>6. ue_client # "my_dgcliaddr"
    BY <2>4 DEF UE!Verifies
  <2> HIDE DEF h
  <2>7. e.line = h.line /\ e.asked = ue_sent /\ e.src = h.src /\ ue_printed' = Append(ue_printed, e)
    BY <2>1 DEF h
  <2> HIDE DEF e
  <2> QED
    BY <1>i, <2>1, <2>3, <2>4, <2>5, <2>6, <2>7, PrintedRight
<1>5. CASE UE!BindUnicast \/ UE!BindBroadcast \/ UE!BindWild
  BY <1>5, <1>s DEF UE!BindUnicast, UE!BindBroadcast, UE!BindWild
<1>6. CASE UE!Answer
  <2>1. /\ UNCHANGED <<ue_client, ue_server, ue_servaddr, ue_printed, ue_strange>>
        /\ \/ ue_told'.said \in {ue_told'.dst, UE!Wild}
           \/ ue_server = "udpserv03" /\ ue_told'.dst \notin UE!ToSet(Interfaces)
    BY <1>6, AnswerSent
  <2> QED
    BY <1>i, <2>1 DEF UdpParts, UE!AnswersMatch, UE!OnlyFromServer, UE!VerifiesInVain,
                      UE!SaysDestination, UE!Dst
<1>7. CASE UE!CountDatagram
  BY <1>7, <1>s DEF UE!CountDatagram
<1>8. CASE UE!Lose
  BY <1>8, <1>s DEF UE!Lose
<1>9. CASE UE!Extra
  <2>1. ue_strange' # 0
    BY <1>9, <1>i DEF UE!Extra, UdpTypes
  <2> QED
    BY <1>9, <2>1, <1>s DEF UE!Extra
<1>10. CASE UE!Unreachable
  BY <1>10, <1>s DEF UE!Unreachable
<1> QED
  BY <1>1, <1>2, <1>3, <1>4, <1>5, <1>6, <1>7, <1>8, <1>9, <1>10, UdpSteps

LEMMA UdpStep == UdpInv /\ [UE!Next]_ue_vars => UdpInv'
BY UdpTypesStep, BoundStep, PeekStep, OneStep, FromStep, CountStep, PartsStep DEF UdpInv

LEMMA UdpMeans == UdpInv => UE!UdpAnswers
<1> SUFFICES ASSUME UdpInv PROVE UE!UdpAnswers
  OBVIOUS
<1>i. Pairing /\ UdpTypes /\ BoundInv /\ PeekInv /\ FromAsked /\ CountInv /\ UdpParts
  BY DEF UdpInv
<1>1. ue_count \in 0 .. UdpLines
  <2> DEFINE n == Cardinality(ue_toServer)
  <2>1. n \in Nat /\ ue_count \in Nat /\ ue_lost \in Nat /\ ue_sent \in Nat
        /\ ue_sent <= UdpLines
    BY <1>i, FS_CardinalityType, Datagram, BoundsAssumption DEF UdpTypes
  <2>2. IF ue_server \in UE!Counters THEN ue_count + n + ue_lost = ue_sent ELSE ue_count = 0
    BY <1>i, UdpSizes DEF CountInv, UE!CountsWhatCame
  <2> HIDE DEF n
  <2> QED
    BY <2>1, <2>2, BoundsAssumption
<1>2. UE!TypeOK
  <2>1. ue_sent \in 0 .. UdpLines
    BY <1>i, Datagram, BoundsAssumption DEF UdpTypes
  <2>2. \A m \in ue_toServer : m.dst \in UE!Addrs
    BY <1>i, Datagram, HostsAre
  <2> QED
    BY <1>1, <1>i, <2>1, <2>2 DEF UE!TypeOK, UdpTypes, BoundInv
<1>3. UE!AnswersFromAddress
  BY <1>i DEF UE!AnswersFromAddress, FromAsked, PeekInv
<1>4. UE!CountsWhatCame
  BY <1>i DEF CountInv
<1> QED
  BY <1>2, <1>3, <1>4, <1>i DEF UE!UdpAnswers, UdpParts

-----------------------------------------------------------------------------
(* UdpTcpServer: what the loop may rely on                                   *)

\* The connections in the queue are different, and no child has one of them.
QueueInv ==
  /\ \A k \in 1 .. Len(ut_queue) : ut_child[ut_queue[k]] = "none"
  /\ \A k, l \in 1 .. Len(ut_queue) : ut_queue[k] = ut_queue[l] => k = l
  /\ \A k \in 1 .. Len(ut_queue) : ut_client[ut_queue[k]] # "idle"
  /\ ut_pc \in {"fork", "close"} => ut_connfd \in Clients /\ ut_client[ut_connfd] # "idle"
  /\ ut_pc = "fork" => /\ ut_child[ut_connfd] = "none"
                       /\ \A k \in 1 .. Len(ut_queue) : ut_queue[k] # ut_connfd

\* What select found is still there, or what took it away can be named.
StillReady ==
  /\ ut_pc = "accept" \/ (ut_pc = "tcp" /\ "listenfd" \in ut_rset) =>
       \/ ut_queue # <<>>
       \/ \E c \in Clients : ut_client[c] = "through" /\ ut_child[c] = "none"
  /\ \/ ut_pc = "recvfrom"
     \/ ut_pc \in {"tcp", "accept", "fork", "close", "udp"} /\ "udpfd" \in ut_rset
     => ut_dgrams # <<>> \/ ut_damaged # {}
  /\ ut_pc = "sendto" => ut_mesg # 0

\* A child has ended for each SIGCHLD since select was interrupted; errno is then
\* EINTR, or ECHILD when all of them have been reaped.
EndedOnes == UT!Are("zombie") \cup UT!Are("reaped")
ChildInv ==
  /\ ut_sigchld \/ ut_pc \in {"eintr", "errno"} => EndedOnes # {}
  /\ \/ ut_pc \in {"eintr", "errno"} /\ ut_sigchld
     \/ ut_pc = "errno" /\ ut_handler = "reap"
     => Cardinality(EndedOnes) >= 2
  /\ ut_pc = "errno" => ut_errno \in {"EINTR", "ECHILD"}
  /\ \/ ut_pc = "errno" /\ ut_errno = "ECHILD"
     \/ ut_pc \in {"err_sys", "failed"} /\ ut_restarts
     => Cardinality(UT!Are("reaped")) >= 2
  /\ UT!Are("zombie") # {} => ut_sigchld \/ ut_handler = "reap"
  /\ \A c \in Clients : ut_client[c] = "idle" => ut_child[c] = "none"
  /\ ut_pc = "failed" => UT!Are("zombie") = {}

BothInv == UT!TypeOK /\ QueueInv /\ StillReady /\ ChildInv

-----------------------------------------------------------------------------

LEMMA BothSizes == ASSUME NEW S PROVE UT!Cardinality(S) = Cardinality(S)
BY DEF UT!Cardinality, Cardinality

\* The sets of children are finite.
LEMMA ChildrenFinite ==
  ASSUME NEW S \in SUBSET Clients
  PROVE  IsFiniteSet(S) /\ Cardinality(S) \in Nat
BY BoundsAssumption, FS_Subset, FS_CardinalityType

\* A connection that is reset leaves the queue.
LEMMA LeaveQueue ==
  ASSUME NEW S, NEW s \in Seq(S), NEW k \in 1 .. Len(s)
  PROVE  /\ UT!RemoveAt(s, k) \in Seq(S) /\ Len(UT!RemoveAt(s, k)) = Len(s) - 1
         /\ \A j \in 1 .. Len(s) - 1 : UT!RemoveAt(s, k)[j] = s[IF j < k THEN j ELSE j + 1]
<1> DEFINE n == Len(s)
           a == SubSeq(s, 1, k - 1)
           b == SubSeq(s, k + 1, n)
<1>0. n \in Nat /\ k \in Nat /\ 1 <= k /\ k <= n
  BY LenProperties
<1>1. a \in Seq(S) /\ Len(a) = k - 1 /\ \A j \in 1 .. k - 1 : a[j] = s[j]
  BY <1>0, SubSeqProperties
<1>2. b \in Seq(S) /\ Len(b) = n - k /\ \A j \in 1 .. n - k : b[j] = s[k + j]
  <2>1. /\ b \in Seq(S) /\ Len(b) = IF k + 1 <= n THEN n - k ELSE 0
        /\ \A j \in 1 .. n - k : b[j] = s[k + 1 + j - 1]
    BY <1>0, SubSeqProperties
  <2> QED
    BY <1>0, <2>1
<1>3. UT!RemoveAt(s, k) = a \o b
  BY DEF UT!RemoveAt
<1> HIDE DEF a, b
<1>4. /\ a \o b \in Seq(S) /\ Len(a \o b) = Len(a) + Len(b)
      /\ \A j \in 1 .. Len(a) + Len(b) : (a \o b)[j] = IF j <= Len(a) THEN a[j] ELSE b[j - Len(a)]
  BY <1>1, <1>2, ConcatProperties
<1>5. Len(a) + Len(b) = n - 1
  BY <1>0, <1>1, <1>2
<1>6. ASSUME NEW j \in 1 .. n - 1 PROVE (a \o b)[j] = s[IF j < k THEN j ELSE j + 1]
  <2>1. (a \o b)[j] = IF j <= k - 1 THEN a[j] ELSE b[j - (k - 1)]
    BY <1>1, <1>4, <1>5
  <2>2. CASE j < k
    BY <1>0, <1>1, <2>1, <2>2
  <2>3. CASE ~(j < k)
    <3>1. j - (k - 1) \in 1 .. n - k /\ k + (j - (k - 1)) = j + 1 /\ ~(j <= k - 1)
      BY <1>0, <2>3
    <3> QED
      BY <1>2, <2>1, <2>3, <3>1
  <2> QED
    BY <2>2, <2>3
<1> QED
  BY <1>3, <1>4, <1>5, <1>6

\* Sizes of sets of children that grow.
LEMMA TwoEnded ==
  ASSUME NEW S \in SUBSET Clients, NEW c \in Clients \ S, S # {}
  PROVE  Cardinality(S \cup {c}) >= 2
<1>1. IsFiniteSet(S) /\ Cardinality(S) \in Nat /\ Cardinality(S) # 0
  BY ChildrenFinite, FS_EmptySet
<1>2. Cardinality(S \cup {c}) = Cardinality(S) + 1
  BY <1>1, FS_AddElement
<1> QED
  BY <1>1, <1>2

LEMMA MoreEnded ==
  ASSUME NEW S \in SUBSET Clients, NEW T \in SUBSET Clients, S \subseteq T
  PROVE  Cardinality(S) >= 2 => Cardinality(T) >= 2
<1>1. Cardinality(S) <= Cardinality(T) /\ Cardinality(S) \in Nat /\ Cardinality(T) \in Nat
  BY ChildrenFinite, FS_Subset
<1> QED
  BY <1>1

-----------------------------------------------------------------------------

LEMMA BothInit == UT!Init => BothInv
<1> SUFFICES ASSUME UT!Init PROVE BothInv
  OBVIOUS
<1> USE DEF UT!Init
<1>1. UT!TypeOK
  <2>1. 0 \in 0 .. UdpLines /\ <<>> \in Seq(Clients) /\ <<>> \in Seq(UT!Dgrams)
    BY BoundsAssumption
  <2>2. ut_child \in [Clients -> {"none"}] /\ ut_client \in [Clients -> {"idle"}]
    OBVIOUS
  <2> QED
    BY <2>1, <2>2 DEF UT!TypeOK
<1>2. QueueInv /\ StillReady
  BY DEF QueueInv, StillReady
<1>3. UT!Are("zombie") = {} /\ UT!Are("reaped") = {}
  BY DEF UT!Are
<1>4. ChildInv
  BY <1>3 DEF ChildInv, EndedOnes
<1> QED
  BY <1>1, <1>2, <1>4 DEF BothInv

\* Types.
LEMMA BothTypes == BothInv /\ [UT!Next]_ut_vars => UT!TypeOK'
<1> SUFFICES ASSUME BothInv, [UT!Next]_ut_vars PROVE UT!TypeOK'
  OBVIOUS
<1> USE DEF BothInv, UT!TypeOK, UT!sockets, UT!locals, UT!children, UT!signals
<1>1. CASE UNCHANGED ut_vars
  BY <1>1 DEF ut_vars
<1>2. ASSUME NEW c \in Clients, UT!Connect(c) PROVE UT!TypeOK'
  BY <1>2, AppendProperties DEF UT!Connect
<1>3. ASSUME NEW c \in Clients, UT!Disconnect(c) PROVE UT!TypeOK'
  <2>1. ut_queue' \in Seq(Clients)
    BY <1>3, LeaveQueue DEF UT!Disconnect
  <2> QED
    BY <1>3, <2>1 DEF UT!Disconnect
<1>4. ASSUME NEW c \in Clients, UT!StrEchoAndExit(c) PROVE UT!TypeOK'
  BY <1>4 DEF UT!StrEchoAndExit
<1>5. CASE UT!Datagram
  <2>1. ut_sent' \in 0 .. UdpLines /\ ut_sent' \in UT!Dgrams
    BY <1>5, BoundsAssumption DEF UT!Datagram, UT!Dgrams
  <2> QED
    BY <1>5, <2>1, AppendProperties DEF UT!Datagram
<1>6. CASE UT!Arm \/ UT!Select \/ UT!SelectInterrupted \/ UT!TestErrno \/ UT!TestTcp \/ UT!TestUdp
  BY <1>6 DEF UT!Arm, UT!Select, UT!SelectInterrupted, UT!TestErrno, UT!TestTcp, UT!TestUdp,
              UT!Armed, UT!Main
<1>7. CASE UT!ErrSys \/ UT!Fork \/ UT!Close
  BY <1>7 DEF UT!ErrSys, UT!Fork, UT!Close, UT!CloseConnfd, UT!Main
<1>8. CASE UT!Accept
  BY <1>8, HeadTailProperties DEF UT!Accept, UT!Main
<1>9. CASE UT!Recvfrom
  BY <1>9, HeadTailProperties DEF UT!Recvfrom, UT!Main
<1>10. CASE UT!Sendto
  BY <1>10 DEF UT!Sendto, UT!Main, StillReady
<1>11. CASE UT!Deliver \/ UT!SigChldReaps \/ UT!SigChldReturns
  BY <1>11 DEF UT!Deliver, UT!SigChldReaps, UT!SigChldReturns, UT!Interrupted, UT!CallsAgain,
               UT!Are
<1> QED
  BY <1>1, <1>2, <1>3, <1>4, <1>5, <1>6, <1>7, <1>8, <1>9, <1>10, <1>11
     DEF UT!Next, UT!ServerStep, UT!HandlerStep

\* The queue.
LEMMA BothQueue == BothInv /\ [UT!Next]_ut_vars => QueueInv'
<1> SUFFICES ASSUME BothInv, [UT!Next]_ut_vars PROVE QueueInv'
  OBVIOUS
<1>t. /\ ut_queue \in Seq(Clients) /\ Len(ut_queue) \in Nat
      /\ ut_child \in [Clients -> {"none", "running", "zombie", "reaped"}]
      /\ ut_client \in [Clients -> {"idle", "talking", "through"}]
      /\ \A k \in 1 .. Len(ut_queue) : ut_queue[k] \in Clients
  BY LenProperties, ElementOfSeq DEF BothInv, UT!TypeOK
<1> USE DEF UT!sockets, UT!locals, UT!children, UT!signals
<1>q. QueueInv
  BY DEF BothInv
<1>1. CASE UNCHANGED ut_vars
  BY <1>1, <1>q DEF ut_vars, QueueInv
<1>2. ASSUME NEW c \in Clients, UT!Connect(c) PROVE QueueInv'
  <2>1. /\ Len(ut_queue') = Len(ut_queue) + 1 /\ ut_queue'[Len(ut_queue) + 1] = c
        /\ \A k \in 1 .. Len(ut_queue) : ut_queue'[k] = ut_queue[k]
    BY <1>2, <1>t, AppendProperties DEF UT!Connect
  <2>2. /\ ut_client[c] = "idle" /\ ut_client' = [ut_client EXCEPT ![c] = "talking"]
        /\ UNCHANGED <<ut_child, ut_pc, ut_connfd>>
    BY <1>2 DEF UT!Connect
  <2>3. ut_child[c] = "none"
    BY <1>2, <2>2 DEF BothInv, ChildInv, UT!Connect
  <2> QED
    BY <1>q, <1>t, <2>1, <2>2, <2>3 DEF QueueInv
<1>3. ASSUME NEW c \in Clients, UT!Disconnect(c) PROVE QueueInv'
  <2>1. /\ ut_client[c] = "talking" /\ ut_client' = [ut_client EXCEPT ![c] = "through"]
        /\ UNCHANGED <<ut_child, ut_pc, ut_connfd>>
    BY <1>3 DEF UT!Disconnect
  <2>2. CASE UNCHANGED ut_queue
    BY <1>q, <1>t, <2>1, <2>2 DEF QueueInv
  <2>3. ASSUME NEW k \in DOMAIN ut_queue, ut_queue' = UT!RemoveAt(ut_queue, k)
        PROVE  QueueInv'
    <3>1. k \in 1 .. Len(ut_queue)
      BY <1>t, LenProperties
    <3>2. /\ Len(ut_queue') = Len(ut_queue) - 1
          /\ \A j \in 1 .. Len(ut_queue) - 1 :
               ut_queue'[j] = ut_queue[IF j < k THEN j ELSE j + 1]
      BY <1>t, <2>3, <3>1, LeaveQueue
    <3> DEFINE old(j) == IF j < k THEN j ELSE j + 1
    <3>3. \A j \in 1 .. Len(ut_queue') :
             old(j) \in 1 .. Len(ut_queue) /\ ut_queue'[j] = ut_queue[old(j)]
      BY <1>t, <3>1, <3>2
    <3>4. \A j, l \in 1 .. Len(ut_queue') : old(j) = old(l) => j = l
      BY <1>t, <3>1, <3>2
    <3> HIDE DEF old
    <3>5. \A j, l \in 1 .. Len(ut_queue') : ut_queue'[j] = ut_queue'[l] => j = l
      <4> SUFFICES ASSUME NEW j \in 1 .. Len(ut_queue'), NEW l \in 1 .. Len(ut_queue'),
                          ut_queue'[j] = ut_queue'[l]
                   PROVE  j = l
        BY Zenon
      <4>1. /\ old(j) \in 1 .. Len(ut_queue) /\ old(l) \in 1 .. Len(ut_queue)
            /\ ut_queue[old(j)] = ut_queue[old(l)]
        BY <3>3
      <4>2. \A x, y \in 1 .. Len(ut_queue) : ut_queue[x] = ut_queue[y] => x = y
        BY <1>q DEF QueueInv
      <4>3. old(j) = old(l)
        BY <4>1, <4>2, Zenon
      <4> QED
        BY <3>4, <4>3, Zenon
    <3>6. \A j \in 1 .. Len(ut_queue') : \E i \in 1 .. Len(ut_queue) : ut_queue'[j] = ut_queue[i]
      BY <3>3, Zenon
    <3> QED
      BY <1>q, <1>t, <2>1, <3>5, <3>6 DEF QueueInv
  <2> QED
    BY <1>3, <2>2, <2>3 DEF UT!Disconnect
<1>4. ASSUME NEW c \in Clients, UT!StrEchoAndExit(c) PROVE QueueInv'
  BY <1>4, <1>q, <1>t DEF UT!StrEchoAndExit, QueueInv
<1>5. CASE UT!Datagram
  BY <1>5, <1>q DEF UT!Datagram, QueueInv
<1>6. CASE UT!Arm \/ UT!Select \/ UT!SelectInterrupted \/ UT!TestErrno \/ UT!TestTcp \/ UT!TestUdp
  BY <1>6, <1>q DEF UT!Arm, UT!Select, UT!SelectInterrupted, UT!TestErrno, UT!TestTcp, UT!TestUdp,
              UT!Main, QueueInv
<1>7. CASE UT!ErrSys \/ UT!Fork \/ UT!Close
  BY <1>7, <1>q, <1>t DEF UT!ErrSys, UT!Fork, UT!Close, UT!CloseConnfd, UT!Main, QueueInv
<1>8. CASE UT!Accept
  <2>1. /\ ut_queue # <<>> /\ ut_connfd' = Head(ut_queue) /\ ut_queue' = Tail(ut_queue)
        /\ UNCHANGED <<ut_client, ut_child>> /\ ut_pc' = "fork"
    BY <1>8 DEF UT!Accept
  <2>2. /\ Head(ut_queue) = ut_queue[1] /\ 1 \in 1 .. Len(ut_queue)
        /\ Len(ut_queue') = Len(ut_queue) - 1
        /\ \A k \in 1 .. Len(ut_queue') : ut_queue'[k] = ut_queue[k + 1]
    BY <1>t, <2>1, HeadTailProperties, EmptySeq
  <2>3. \A k \in 1 .. Len(ut_queue') : k + 1 \in 1 .. Len(ut_queue) /\ k + 1 # 1
    BY <1>t, <2>2
  <2>4. \A k, l \in 1 .. Len(ut_queue') : k + 1 = l + 1 => k = l
    BY <1>t, <2>2
  <2> QED
    BY <1>q, <1>t, <2>1, <2>2, <2>3, <2>4 DEF QueueInv
<1>9. CASE UT!Recvfrom
  BY <1>9, <1>q DEF UT!Recvfrom, UT!Main, QueueInv
<1>10. CASE UT!Sendto
  BY <1>10, <1>q DEF UT!Sendto, UT!Main, QueueInv
<1>11. CASE UT!Deliver
  BY <1>11, <1>q DEF UT!Deliver, UT!Interrupted, QueueInv
<1>12. CASE UT!SigChldReaps \/ UT!SigChldReturns
  BY <1>12, <1>q, <1>t DEF UT!SigChldReaps, UT!SigChldReturns, UT!Are, QueueInv
<1> QED
  BY <1>1, <1>2, <1>3, <1>4, <1>5, <1>6, <1>7, <1>8, <1>9, <1>10, <1>11, <1>12
     DEF UT!Next, UT!ServerStep, UT!HandlerStep

\* Readiness.
LEMMA BothReady == BothInv /\ [UT!Next]_ut_vars => StillReady'
<1> SUFFICES ASSUME BothInv, [UT!Next]_ut_vars PROVE StillReady'
  OBVIOUS
<1>t. /\ ut_queue \in Seq(Clients) /\ Len(ut_queue) \in Nat
      /\ ut_child \in [Clients -> {"none", "running", "zombie", "reaped"}]
      /\ ut_client \in [Clients -> {"idle", "talking", "through"}]
      /\ \A k \in 1 .. Len(ut_queue) : ut_queue[k] \in Clients
      /\ ut_dgrams \in Seq(UT!Dgrams)
  BY LenProperties, ElementOfSeq DEF BothInv, UT!TypeOK
<1> USE DEF UT!sockets, UT!locals, UT!children, UT!signals, UT!Main
<1>q. StillReady
  BY DEF BothInv
<1>1. CASE UNCHANGED ut_vars
  BY <1>1, <1>q DEF ut_vars, StillReady
<1>2. ASSUME NEW c \in Clients, UT!Connect(c) PROVE StillReady'
  <2>1. ut_queue' # <<>>
    BY <1>2, <1>t, AppendProperties DEF UT!Connect
  <2> QED
    BY <1>2, <1>q, <2>1 DEF UT!Connect, StillReady
<1>3. ASSUME NEW c \in Clients, UT!Disconnect(c) PROVE StillReady'
  <2>1. /\ ut_client' = [ut_client EXCEPT ![c] = "through"]
        /\ UNCHANGED <<ut_child, ut_pc, ut_rset, ut_dgrams, ut_damaged, ut_mesg>>
    BY <1>3 DEF UT!Disconnect
  <2>2. CASE UNCHANGED ut_queue
    BY <1>q, <1>t, <2>1, <2>2 DEF StillReady
  <2>3. ASSUME NEW k \in DOMAIN ut_queue, ut_queue[k] = c PROVE StillReady'
    <3>1. ut_child[c] = "none"
      BY <1>t, <2>3, LenProperties DEF BothInv, QueueInv
    <3> QED
      BY <1>q, <1>t, <2>1, <3>1 DEF StillReady
  <2> QED
    BY <1>3, <2>2, <2>3 DEF UT!Disconnect
<1>4. ASSUME NEW c \in Clients, UT!StrEchoAndExit(c) PROVE StillReady'
  BY <1>4, <1>q, <1>t DEF UT!StrEchoAndExit, StillReady
<1>5. CASE UT!Datagram
  <2>1. ut_dgrams' # <<>>
    BY <1>5, <1>t, AppendProperties, EmptySeq, BoundsAssumption DEF UT!Datagram, BothInv, UT!TypeOK, UT!Dgrams
  <2> QED
    BY <1>5, <1>q, <2>1 DEF UT!Datagram, StillReady
<1>6. CASE UT!Arm \/ UT!SelectInterrupted \/ UT!TestErrno
  BY <1>6, <1>q DEF UT!Arm, UT!SelectInterrupted, UT!TestErrno, StillReady
<1>7. CASE UT!Select \/ UT!TestTcp \/ UT!TestUdp
  BY <1>7, <1>q DEF UT!Select, UT!TestTcp, UT!TestUdp, UT!Ready, StillReady
<1>8. CASE UT!ErrSys \/ UT!Fork \/ UT!Close
  BY <1>8, <1>q, <1>t DEF UT!ErrSys, UT!Fork, UT!Close, UT!CloseConnfd, StillReady
<1>9. CASE UT!Accept
  BY <1>9, <1>q DEF UT!Accept, StillReady
<1>10. CASE UT!Recvfrom
  <2>1. Head(ut_dgrams) \in UT!Dgrams
    BY <1>10, <1>t, HeadTailProperties DEF UT!Recvfrom
  <2>2. Head(ut_dgrams) # 0
    BY <2>1, BoundsAssumption DEF UT!Dgrams
  <2> QED
    BY <1>10, <1>q, <2>2 DEF UT!Recvfrom, StillReady
<1>11. CASE UT!Sendto
  BY <1>11, <1>q DEF UT!Sendto, StillReady
<1>12. CASE UT!Deliver
  BY <1>12, <1>q DEF UT!Deliver, UT!Interrupted, StillReady
<1>13. CASE UT!SigChldReaps \/ UT!SigChldReturns
  BY <1>13, <1>q, <1>t DEF UT!SigChldReaps, UT!SigChldReturns, UT!Are, StillReady
<1> QED
  BY <1>1, <1>2, <1>3, <1>4, <1>5, <1>6, <1>7, <1>8, <1>9, <1>10, <1>11, <1>12, <1>13
     DEF UT!Next, UT!ServerStep, UT!HandlerStep

\* Children and signals.
LEMMA BothSignals == BothInv /\ [UT!Next]_ut_vars => ChildInv'
<1> SUFFICES ASSUME BothInv, [UT!Next]_ut_vars PROVE ChildInv'
  OBVIOUS
<1>t. /\ ut_child \in [Clients -> {"none", "running", "zombie", "reaped"}]
      /\ ut_client \in [Clients -> {"idle", "talking", "through"}]
      /\ ut_errno \in {"none", "EINTR", "ECHILD"} /\ ut_sigchld \in BOOLEAN
      /\ ut_restarts \in BOOLEAN /\ ut_handler \in {"out", "reap"}
      /\ EndedOnes \subseteq Clients /\ UT!Are("reaped") \subseteq Clients
  BY DEF BothInv, UT!TypeOK, EndedOnes, UT!Are
<1> USE DEF UT!sockets, UT!locals, UT!children, UT!signals, UT!Main
<1>q. ChildInv
  BY DEF BothInv
\* Steps that touch no child.
<1>s. ASSUME UNCHANGED ut_child
      PROVE  /\ EndedOnes' = EndedOnes /\ UT!Are("zombie")' = UT!Are("zombie")
             /\ UT!Are("reaped")' = UT!Are("reaped")
  BY <1>s DEF EndedOnes, UT!Are
<1>1. CASE UNCHANGED ut_vars
  BY <1>1, <1>q, <1>s DEF ut_vars, ChildInv
<1>2. ASSUME NEW c \in Clients, UT!Connect(c) \/ UT!Disconnect(c) PROVE ChildInv'
  BY <1>2, <1>q, <1>s, <1>t DEF UT!Connect, UT!Disconnect, ChildInv
<1>3. CASE UT!Datagram \/ UT!Arm \/ UT!Select \/ UT!TestTcp \/ UT!TestUdp
  BY <1>3, <1>q, <1>s DEF UT!Datagram, UT!Arm, UT!Select, UT!TestTcp, UT!TestUdp, ChildInv
<1>4. CASE UT!Accept \/ UT!Close \/ UT!Recvfrom \/ UT!Sendto
  BY <1>4, <1>q, <1>s DEF UT!Accept, UT!Close, UT!Recvfrom, UT!Sendto, ChildInv
<1>5. CASE UT!SelectInterrupted
  BY <1>5, <1>q, <1>s DEF UT!SelectInterrupted, ChildInv
<1>6. CASE UT!TestErrno
  <2>1. /\ ut_pc = "errno" /\ ut_pc' \in {"arm", "err_sys"}
        /\ ut_pc' = "err_sys" => ut_errno # "EINTR"
        /\ UNCHANGED <<ut_child, ut_client, ut_errno, ut_handler, ut_sigchld, ut_restarts>>
    BY <1>6 DEF UT!TestErrno
  <2>2. ut_pc' = "err_sys" => Cardinality(UT!Are("reaped")) >= 2
    BY <1>q, <2>1 DEF ChildInv
  <2> QED
    BY <1>q, <1>s, <2>1, <2>2 DEF ChildInv
<1>7. CASE UT!ErrSys
  <2>1. /\ UT!Are("zombie")' = {} /\ UT!Are("reaped") \subseteq UT!Are("reaped")'
        /\ UT!Are("reaped")' \in SUBSET Clients
    BY <1>7, <1>t DEF UT!ErrSys, UT!Are
  <2>2. /\ ut_pc = "err_sys" /\ ut_pc' = "failed" /\ ~ut_sigchld'
        /\ UNCHANGED <<ut_client, ut_restarts>>
        /\ \A c \in Clients : ut_child[c] = "none" => ut_child'[c] = "none"
    BY <1>7, <1>t DEF UT!ErrSys
  <2>3. ut_restarts => Cardinality(UT!Are("reaped")) >= 2
    BY <1>q, <2>2 DEF ChildInv
  <2>4. ut_restarts => Cardinality(UT!Are("reaped")') >= 2
    BY <1>t, <2>1, <2>3, MoreEnded
  <2> QED
    BY <1>q, <2>1, <2>2, <2>4 DEF ChildInv
<1>8. CASE UT!Fork
  <2>1. ut_connfd \in Clients /\ ut_child[ut_connfd] = "none" /\ ut_client[ut_connfd] # "idle"
    BY <1>8 DEF BothInv, QueueInv, UT!Fork
  <2>2. ut_child' = [ut_child EXCEPT ![ut_connfd] = "running"]
    BY <1>8 DEF UT!Fork
  <2>3. /\ UT!Are("zombie")' = UT!Are("zombie") /\ UT!Are("reaped")' = UT!Are("reaped")
    BY <1>t, <2>1, <2>2 DEF UT!Are
  <2>4. EndedOnes' = EndedOnes
    BY <2>3 DEF EndedOnes
  <2> QED
    BY <1>8, <1>q, <1>t, <2>1, <2>2, <2>3, <2>4 DEF UT!Fork, ChildInv
<1>9. ASSUME NEW c \in Clients, UT!StrEchoAndExit(c) PROVE ChildInv'
  <2>1. /\ ut_child[c] = "running" /\ ut_client[c] = "through"
        /\ ut_child' = [ut_child EXCEPT ![c] = IF ut_pc = "failed" THEN "reaped" ELSE "zombie"]
        /\ ut_sigchld' = (ut_sigchld \/ ut_pc # "failed")
        /\ UNCHANGED <<ut_pc, ut_handler, ut_errno, ut_client, ut_restarts>>
    BY <1>9 DEF UT!StrEchoAndExit
  <2>2. /\ EndedOnes' = EndedOnes \cup {c} /\ c \notin EndedOnes
        /\ UT!Are("reaped") \subseteq UT!Are("reaped")' /\ UT!Are("reaped")' \in SUBSET Clients
        /\ EndedOnes' \in SUBSET Clients
    BY <1>t, <2>1 DEF EndedOnes, UT!Are
  <2>3. Cardinality(UT!Are("reaped")) >= 2 => Cardinality(UT!Are("reaped")') >= 2
    BY <1>t, <2>2, MoreEnded
  <2>4. Cardinality(EndedOnes) >= 2 => Cardinality(EndedOnes') >= 2
    BY <1>t, <2>2, MoreEnded
  <2>5. EndedOnes # {} => Cardinality(EndedOnes') >= 2
    BY <1>t, <2>2, TwoEnded
  <2>6. ut_pc = "failed" => UT!Are("zombie")' = UT!Are("zombie")
    BY <1>t, <2>1 DEF UT!Are
  <2>7. \A x \in Clients : ut_client'[x] = "idle" => ut_child'[x] = "none"
    BY <1>q, <1>t, <2>1 DEF ChildInv
  <2>8. EndedOnes' # {}
    BY <2>2
  <2> HIDE DEF EndedOnes
  <2> QED
    BY <1>q, <2>1, <2>3, <2>4, <2>5, <2>6, <2>7, <2>8 DEF ChildInv
<1>10. CASE UT!Deliver
  <2>1. /\ ut_sigchld /\ ut_handler = "out" /\ ut_pc # "failed" /\ ~ut_sigchld' /\ ut_handler' = "reap"
        /\ \/ ut_pc = "select" /\ ut_pc' = "eintr"
           \/ ~ut_restarts /\ ut_pc \in {"accept", "recvfrom"} /\ ut_pc' = "err_sys"
           \/ UNCHANGED ut_pc
        /\ UNCHANGED <<ut_child, ut_errno, ut_client, ut_restarts>>
    BY <1>10 DEF UT!Deliver, UT!Interrupted, UT!Blocked
  <2>2. CASE UNCHANGED ut_pc
    BY <1>q, <1>s, <2>1, <2>2 DEF ChildInv
  <2>3. CASE ut_pc' = "eintr"
    BY <1>q, <1>s, <2>1, <2>3 DEF ChildInv
  <2>4. CASE ut_pc' = "err_sys" /\ ~ut_restarts
    BY <1>q, <1>s, <2>1, <2>4 DEF ChildInv
  <2> QED
    BY <2>1, <2>2, <2>3, <2>4
<1>11. CASE UT!SigChldReaps
  <2>1. PICK c \in UT!Are("zombie") : ut_child' = [ut_child EXCEPT ![c] = "reaped"]
    BY <1>11 DEF UT!SigChldReaps
  <2>2. /\ ut_handler = "reap" /\ ut_handler' = "reap"
        /\ UNCHANGED <<ut_pc, ut_sigchld, ut_errno, ut_client, ut_restarts>>
    BY <1>11 DEF UT!SigChldReaps, UT!CallsAgain
  <2>3. /\ EndedOnes' = EndedOnes /\ UT!Are("zombie")' \subseteq UT!Are("zombie")
        /\ UT!Are("reaped") \subseteq UT!Are("reaped")' /\ UT!Are("reaped")' \in SUBSET Clients
        /\ c \in Clients /\ ut_child[c] = "zombie"
    BY <1>t, <2>1 DEF EndedOnes, UT!Are
  <2>4. Cardinality(UT!Are("reaped")) >= 2 => Cardinality(UT!Are("reaped")') >= 2
    BY <1>t, <2>3, MoreEnded
  <2>5. \A x \in Clients : ut_client'[x] = "idle" => ut_child'[x] = "none"
    BY <1>q, <1>t, <2>1, <2>2, <2>3 DEF ChildInv
  <2> QED
    BY <1>q, <2>2, <2>3, <2>4, <2>5 DEF ChildInv
<1>12. CASE UT!SigChldReturns
  <2>1. /\ ut_handler = "reap" /\ UT!Are("zombie") = {} /\ ut_handler' = "out"
        /\ ut_errno' \in {"ECHILD", ut_errno}
        /\ UNCHANGED <<ut_pc, ut_sigchld, ut_child, ut_client, ut_restarts>>
    BY <1>12 DEF UT!SigChldReturns
  <2>2. EndedOnes = UT!Are("reaped")
    BY <2>1 DEF EndedOnes
  <2> QED
    BY <1>q, <1>s, <2>1, <2>2 DEF ChildInv
<1> QED
  BY <1>1, <1>2, <1>3, <1>4, <1>5, <1>6, <1>7, <1>8, <1>9, <1>10, <1>11, <1>12
     DEF UT!Next, UT!ServerStep, UT!HandlerStep

LEMMA BothStep == BothInv /\ [UT!Next]_ut_vars => BothInv'
BY BothTypes, BothQueue, BothReady, BothSignals DEF BothInv

LEMMA BothMeans == BothInv => UT!StopsOnlyFor
<1> SUFFICES ASSUME BothInv PROVE UT!StopsOnlyFor
  OBVIOUS
<1>1. UT!TypeOK /\ StillReady /\ ChildInv
  BY DEF BothInv
<1> QED
  BY <1>1, BothSizes DEF UT!StopsOnlyFor, UT!StuckInAccept, UT!StuckInRecvfrom, StillReady, ChildInv

-----------------------------------------------------------------------------
(* The second theorem                                                        *)

\* While nothing is repeated and nobody else writes, every UDP client prints the
\* answers to its own lines; one that verifies the source or is connected prints
\* only its server's, and all of them when the server has bound each address
\* (dgcliaddr.c:18-23, dgcliconnect.c:9, udpserv03.c, udpserv04.c).
\* udpservselect01.c blocks in accept or recvfrom (58, 70) only if a client or the
\* kernel has taken away what select found, and ends in err_sys only where a signal
\* interrupts these calls too, or when a second child's has overwritten errno (50).
THEOREM DatagramsAnswered == SumSpec => []DatagramsMatch
<1> DEFINE Inv == UdpInv /\ BothInv
<1>1. SumInit => Inv
  BY UdpInit, BothInit DEF SumInit
<1>2. Inv /\ [SumNext]_all => Inv'
  <2> SUFFICES ASSUME Inv, [SumNext]_all PROVE Inv'
    OBVIOUS
  <2>1. [UE!Next]_ue_vars
    BY DEF SumNext, all, Copying, Sctp, Datagrams, Both
  <2>2. [UT!Next]_ut_vars
    BY DEF SumNext, all, Copying, Sctp, Datagrams, Both
  <2> QED
    BY <2>1, <2>2, UdpStep, BothStep
<1>3. Inv => DatagramsMatch
  BY UdpMeans, BothMeans DEF DatagramsMatch
<1> QED
  BY <1>1, <1>2, <1>3, PTL DEF SumSpec

-----------------------------------------------------------------------------
(* SCTP: of a client's line, every message is in one place: unread on one of   *)
(* its streams, in the server's buffer, in a reply on its way, or printed.     *)
(* Chain and the three orders say that no message is in two places and that    *)
(* the messages of one stream stay in order; so a client that has counted as   *)
(* many replies as it sent messages has them all.  All this as long as the     *)
(* server is undisturbed: no message was lost with its association, none was   *)
(* read in part for a whole one, and no pieces of two were put together.       *)

\* Where the server holds the pieces of a message, and for whom.
Holding == {"more", "status", "send"}
Holds(c) == se_spc \in Holding /\ se_cliaddr = c

\* Two messages of one line on one stream.
Twice == se_kind = "twice" /\ se_version # "fork"

\* Message a of a line is ahead of message b.
Ahead(a, b) == a # b /\ (Twice /\ a \div 2 = b \div 2 => a < b)

\* The messages of its line that a client has sent are those before this one.
Bound(c) == IF se_cpc[c] = "sendall" THEN se_i[c] ELSE SE!Awaited

\* The stream of a reply.
Dest(s) == IF ~se_increment THEN s ELSE IF s + 1 >= SE!Outstrms THEN 0 ELSE s + 1

Ids == Nat \X Nat
Messages == [id : Ids, stream : 0 .. ClientStreams - 1, left : 1 .. Parts]
Pieces == [from : Clients, id : Ids, part : Nat]

SctpSetup ==
  /\ se_version \in SE!Versions /\ se_kind \in SE!Kinds /\ se_increment \in BOOLEAN
  /\ se_version \in {"serv07", "fork"} => ~se_increment
  /\ se_host \in {"whole", "partial", "mixed"} /\ SE!Tried
  /\ se_version = "serv03" \/ \A c \in Clients : se_assoc[c] \in {"none", "up"}
  /\ se_version = "fork" \/ se_peeled = {}

SctpTypes ==
  /\ se_spc \in Holding \cup {"recv", "peel", "exit"}
  /\ se_size \in Nat \ {0} /\ se_stream \in Nat
  /\ se_buf \in Seq(Pieces)
  /\ se_assoc \in [Clients -> {"none", "up", "eof", "closing"}]
  /\ se_cpc \in [Clients -> {"fgets", "sendall", "recv", "exit"}]
  /\ se_line \in [Clients -> Nat] /\ se_i \in [Clients -> Nat]
  /\ se_lost \in Nat /\ se_split \in BOOLEAN /\ se_glued \in BOOLEAN
  /\ se_up \in [Clients -> [SE!Lanes -> Seq(Messages)]]
  /\ se_down \in [Clients -> [SE!Outs -> Seq(Seq(Pieces))]]
  /\ se_got \in [Clients -> Seq(Seq(Pieces))]

SctpPlaces ==
  /\ se_spc = "more" => SE!Reassembles
  /\ se_spc = "status" => se_increment
  /\ se_spc = "peel" => se_version = "fork"
  /\ se_spc \in Holding \cup {"peel"} => se_cliaddr \in Clients
  /\ se_spc \in Holding => se_buf # <<>>
  /\ se_spc \in {"more", "status"} \/ (se_spc = "send" /\ ~se_increment) =>
       se_stream < ClientStreams
  /\ se_spc = "send" /\ se_increment => se_stream < SE!Outstrms
  /\ \A c \in Clients : se_cpc[c] = "sendall" => SE!Echoing /\ se_i[c] < SE!Awaited
  /\ \A c \in Clients : ~SE!Echoing => se_i[c] = 0

\* A message that is not read belongs to its client's line; of one that is read
\* in part the server holds the rest.
UpInv(c) ==
  \A s \in SE!Lanes : \A k \in DOMAIN se_up[c][s] : LET m == se_up[c][s][k] IN
    /\ m.id[1] = se_line[c] /\ (Twice => m.stream = s /\ s = m.id[2] \div 2)
    /\ m.left # Parts =>
         k = 1 /\ Holds(c) /\ se_spc = "more" /\ m.id = se_buf[1].id /\ Len(se_buf) = Parts - m.left

\* What the server holds are the first pieces of one message, in order.
Portion(c, id, n) == [k \in 1 .. n |-> [from |-> c, id |-> id, part |-> k]]
HandInv(c) == Holds(c) =>
  LET id == se_buf[1].id IN
    /\ se_buf = Portion(c, id, Len(se_buf)) /\ id[1] = se_line[c]
    /\ se_spc # "more" => Len(se_buf) = Parts
    /\ se_spc = "more" => \E s \in SE!Lanes : SE!Begun(c, s)
    /\ Twice => se_stream = IF se_spc = "send" THEN Dest(id[2] \div 2) ELSE id[2] \div 2

\* A reply is one whole message of the client's line.
Num(e) == e[1].id[2]
IsReply(c, e) == e = Portion(c, e[1].id, Parts) /\ e[1].id[1] = se_line[c]
DownInv(c) ==
  \A t \in SE!Outs : \A k \in DOMAIN se_down[c][t] :
    IsReply(c, se_down[c][t][k]) /\ (Twice => t = Dest(Num(se_down[c][t][k]) \div 2))
GotInv(c) == \A k \in DOMAIN se_got[c] : IsReply(c, se_got[c][k])

\* The messages of a client's line at each stage of their way.
Unread(c)  == {n \in Nat : \E s \in SE!Lanes : \E k \in DOMAIN se_up[c][s] :
                 se_up[c][s][k].left = Parts /\ n = se_up[c][s][k].id[2]}
InHand(c)  == {n \in Nat : Holds(c) /\ n = Num(se_buf)}
Replied(c) == {n \in Nat : \E t \in SE!Outs : \E k \in DOMAIN se_down[c][t] :
                 n = Num(se_down[c][t][k])}
Got(c)     == {n \in Nat : \E k \in DOMAIN se_got[c] : n = Num(se_got[c][k])}

\* What is further on is another message, and of one stream the earlier.
Chain(c) ==
  /\ \A n \in Unread(c) \cup InHand(c) \cup Replied(c) \cup Got(c) : n < Bound(c)
  /\ \A n \in InHand(c), r \in Unread(c) : Ahead(n, r)
  /\ \A n \in Replied(c), r \in InHand(c) \cup Unread(c) : Ahead(n, r)
  /\ \A n \in Got(c), r \in Replied(c) \cup InHand(c) \cup Unread(c) : Ahead(n, r)
UpOrder(c) ==
  \A s, t \in SE!Lanes : \A k \in DOMAIN se_up[c][s], j \in DOMAIN se_up[c][t] :
    t # s \/ k < j => Ahead(se_up[c][s][k].id[2], se_up[c][t][j].id[2])
DownOrder(c) ==
  \A s, t \in SE!Outs : \A k \in DOMAIN se_down[c][s], j \in DOMAIN se_down[c][t] :
    t # s \/ k < j => Ahead(Num(se_down[c][s][k]), Num(se_down[c][t][j]))
GotOrder(c) ==
  \A k, j \in DOMAIN se_got[c] : k < j => Ahead(Num(se_got[c][k]), Num(se_got[c][j]))

\* Who has all replies has nothing on its way.
QuietInv(c) ==
  se_cpc[c] = "fgets" =>
    /\ \A s \in SE!Lanes : se_up[c][s] = <<>>
    /\ \A t \in SE!Outs : se_down[c][t] = <<>>
    /\ ~Holds(c)

\* Who has something on its way to the server has an association.
AssocInv(c) ==
  se_version # "serv03" /\ ((\E s \in SE!Lanes : se_up[c][s] # <<>>) \/ Holds(c)) =>
    se_assoc[c] # "none"

ClientInv(c) ==
  /\ UpInv(c) /\ HandInv(c) /\ DownInv(c) /\ GotInv(c) /\ Chain(c)
  /\ UpOrder(c) /\ DownOrder(c) /\ GotOrder(c) /\ QuietInv(c) /\ AssocInv(c)

\* Nothing but breaks, and a host that mixes, disturbs a server that reassembles.
Clean == SE!Reassembles => ~se_split /\ (se_lost = 0 /\ se_host # "mixed" => ~se_glued)

SctpInv ==
  /\ SctpSetup /\ SctpTypes /\ SctpPlaces /\ Clean
  /\ SE!Undisturbed => \A c \in Clients : ClientInv(c)
  /\ SE!BufferIsAllocated /\ SE!FitsBuffer /\ SE!ServerEndsOnlyFor

\* What the assumption on the constants gives.
LEMMA SctpSizes ==
  /\ SE!Outstrms \in Nat \ {0} /\ 0 \in SE!Outs /\ SE!Outs \subseteq Nat
  /\ SE!Awaited \in Nat \ {0} /\ (~SE!Echoing => SE!Awaited = 1)
  /\ SE!Lanes = 0 .. ClientStreams /\ ClientStreams \in Nat \ {0}
  /\ Parts \in Nat \ {0} /\ IncrSize \in Nat \ {0} /\ Threshold \in Nat \ {0}
<1>1. /\ Streams \in Nat \ {0} /\ MoreStreams \in Nat \ {0} /\ ClientStreams \in Nat \ {0}
      /\ EchoStreams \in Nat \ {0} /\ Parts \in Nat \ {0}
      /\ IncrSize \in Nat \ {0} /\ Threshold \in Nat \ {0}
  BY BoundsAssumption
<1>2. SE!Outstrms \in Nat \ {0}
  BY <1>1 DEF SE!Outstrms
<1>3. 0 \in SE!Outs /\ SE!Outs \subseteq Nat
  BY <1>2 DEF SE!Outs
<1>4. SE!Awaited \in Nat \ {0} /\ (~SE!Echoing => SE!Awaited = 1)
  <2>1. EchoStreams * 1 \in Nat \ {0} /\ EchoStreams * 2 \in Nat \ {0}
    BY <1>1
  <2> QED
    BY <2>1 DEF SE!Awaited, SE!Copies
<1> QED
  BY <1>1, <1>2, <1>3, <1>4 DEF SE!Lanes

\* At first nothing is on its way.
LEMMA SctpInit == SE!Init => SctpInv
<1> SUFFICES ASSUME SE!Init PROVE SctpInv
  OBVIOUS
<1> USE DEF SE!Init
<1>1. SctpSetup
  BY DEF SctpSetup
<1>2. SctpTypes
  <2>1. /\ se_spc = "recv" /\ se_size = IncrSize /\ IncrSize \in Nat \ {0} /\ se_stream = 0
        /\ se_buf = <<>> /\ se_lost = 0 /\ se_split = FALSE /\ se_glued = FALSE
    BY SctpSizes
  <2>2. <<>> \in Seq(Pieces) /\ <<>> \in Seq(Seq(Pieces)) /\ <<>> \in Seq(Messages)
    OBVIOUS
  <2>3. /\ se_up \in [Clients -> [SE!Lanes -> Seq(Messages)]]
        /\ se_down \in [Clients -> [SE!Outs -> Seq(Seq(Pieces))]]
        /\ se_got \in [Clients -> Seq(Seq(Pieces))]
    BY <2>2
  <2>4. /\ se_assoc \in [Clients -> {"none", "up", "eof", "closing"}]
        /\ se_cpc \in [Clients -> {"fgets", "sendall", "recv", "exit"}]
        /\ se_line \in [Clients -> Nat] /\ se_i \in [Clients -> Nat]
    OBVIOUS
  <2> HIDE DEF SE!Init
  <2> QED
    BY <2>1, <2>2, <2>3, <2>4 DEF SctpTypes
<1>3. SctpPlaces /\ Clean
  BY DEF SctpPlaces, Clean, Holding
<1>4. ASSUME NEW c \in Clients PROVE ClientInv(c)
  <2>1. /\ \A s \in SE!Lanes : se_up[c][s] = <<>> /\ DOMAIN se_up[c][s] = {}
        /\ \A t \in SE!Outs : se_down[c][t] = <<>> /\ DOMAIN se_down[c][t] = {}
        /\ se_got[c] = <<>> /\ DOMAIN se_got[c] = {} /\ ~Holds(c)
    BY DEF Holds, Holding
  <2>2. UpInv(c) /\ HandInv(c) /\ DownInv(c) /\ GotInv(c)
    BY <2>1 DEF UpInv, HandInv, DownInv, GotInv
  <2>3. UpOrder(c) /\ DownOrder(c) /\ GotOrder(c) /\ QuietInv(c) /\ AssocInv(c)
    BY <2>1 DEF UpOrder, DownOrder, GotOrder, QuietInv, AssocInv
  <2>4. Unread(c) = {} /\ InHand(c) = {} /\ Replied(c) = {} /\ Got(c) = {}
    BY <2>1 DEF Unread, InHand, Replied, Got
  <2> QED
    BY <2>2, <2>3, <2>4 DEF ClientInv, Chain
<1>5. SE!BufferIsAllocated /\ SE!FitsBuffer /\ SE!ServerEndsOnlyFor
  BY SctpSizes DEF SE!BufferIsAllocated, SE!FitsBuffer, SE!ServerEndsOnlyFor
<1> QED
  BY <1>1, <1>2, <1>3, <1>4, <1>5 DEF SctpInv

\* How much one call returns.
LEMMA SctpSome ==
  ASSUME NEW m \in Messages, NEW room \in Nat \ {0}, NEW n \in SE!Sizes(m, room)
  PROVE  n \in 1 .. m.left /\ n <= room /\ n \in Nat
BY SctpSizes DEF SE!Sizes, Messages

\* The first message of a stream, its pieces, and what is left of it.
LEMMA SctpTaken ==
  ASSUME SctpTypes, NEW c \in Clients, NEW s \in SE!Lanes, SE!Waiting(c, s),
         NEW n \in 1 .. Head(se_up[c][s]).left
  PROVE  LET U == SE!Taken(c, s, n)  m == Head(se_up[c][s])  q == U[c][s] IN
         /\ m \in Messages /\ 1 \in DOMAIN se_up[c][s] /\ m = se_up[c][s][1]
         /\ U \in [Clients -> [SE!Lanes -> Seq(Messages)]]
         /\ \A d \in Clients \ {c} : U[d] = se_up[d]
         /\ \A r \in SE!Lanes \ {s} : U[c][r] = se_up[c][r]
         /\ n = m.left => \A k \in DOMAIN q : k + 1 \in DOMAIN se_up[c][s] /\ k \in Nat \ {0}
                                             /\ q[k] = se_up[c][s][k + 1]
         /\ n # m.left => /\ DOMAIN q = DOMAIN se_up[c][s]
                          /\ q[1] = [m EXCEPT !.left = m.left - n]
                          /\ \A k \in DOMAIN q \ {1} : q[k] = se_up[c][s][k]
         /\ SE!Piece(c, s, n) = [k \in 1 .. n |->
              [from |-> c, id |-> m.id, part |-> Parts - m.left + k]]
         /\ SE!Piece(c, s, n) \in Seq(Pieces) /\ Len(SE!Piece(c, s, n)) = n
<1> DEFINE Q == se_up[c][s]
           m == Head(Q)
           N == [m EXCEPT !.left = m.left - n]
           q == IF n = m.left THEN Tail(Q) ELSE <<N>> \o Tail(Q)
<1>1. Q \in Seq(Messages) /\ Q # <<>> /\ m \in Messages /\ m = Q[1] /\ 1 \in DOMAIN Q
  BY DEF SctpTypes, SE!Waiting
<1>2. n \in Nat \ {0} /\ m.left \in 1 .. Parts /\ n <= m.left /\ Parts \in Nat
  BY <1>1, SctpSizes DEF Messages
<1>3. Tail(Q) \in Seq(Messages) /\ Len(Tail(Q)) = Len(Q) - 1
      /\ \A k \in 1 .. Len(Q) - 1 : Tail(Q)[k] = Q[k + 1]
  BY <1>1
<1>4. n # m.left => N \in Messages
  <2> SUFFICES ASSUME n # m.left PROVE N \in Messages
    OBVIOUS
  <2>1. m.left - n \in 1 .. Parts
    BY <1>2
  <2> HIDE DEF m
  <2> QED
    BY <1>1, <2>1 DEF Messages
<1>5. n # m.left => /\ <<N>> \o Tail(Q) \in Seq(Messages)
                    /\ DOMAIN (<<N>> \o Tail(Q)) = DOMAIN Q
                    /\ (<<N>> \o Tail(Q))[1] = N
                    /\ \A k \in DOMAIN Q \ {1} : (<<N>> \o Tail(Q))[k] = Q[k]
  <2> SUFFICES ASSUME n # m.left
               PROVE  /\ <<N>> \o Tail(Q) \in Seq(Messages)
                      /\ DOMAIN (<<N>> \o Tail(Q)) = DOMAIN Q
                      /\ (<<N>> \o Tail(Q))[1] = N
                      /\ \A k \in DOMAIN Q \ {1} : (<<N>> \o Tail(Q))[k] = Q[k]
    OBVIOUS
  <2>1. N \in Messages
    BY <1>4
  <2> HIDE DEF N, Q
  <2>2. <<N>> \in Seq(Messages) /\ Len(<<N>>) = 1 /\ <<N>>[1] = N
    BY ONLY <2>1
  <2>3. /\ <<N>> \o Tail(Q) \in Seq(Messages)
        /\ Len(<<N>> \o Tail(Q)) = 1 + Len(Tail(Q))
        /\ \A k \in 1 .. 1 + Len(Tail(Q)) : (<<N>> \o Tail(Q))[k] =
             IF k <= 1 THEN <<N>>[k] ELSE Tail(Q)[k - 1]
    BY ONLY <1>3, <2>2
  <2>4. Len(Q) \in Nat \ {0} /\ DOMAIN Q = 1 .. Len(Q)
    BY ONLY <1>1
  <2> QED
    BY ONLY <1>3, <2>2, <2>3, <2>4
<1>6. SE!Taken(c, s, n) = [se_up EXCEPT ![c][s] = q]
  BY DEF SE!Taken
<1>7. q \in Seq(Messages)
  BY <1>3, <1>5
<1>8. /\ SE!Taken(c, s, n) \in [Clients -> [SE!Lanes -> Seq(Messages)]]
      /\ \A d \in Clients \ {c} : SE!Taken(c, s, n)[d] = se_up[d]
      /\ \A r \in SE!Lanes \ {s} : SE!Taken(c, s, n)[c][r] = se_up[c][r]
      /\ SE!Taken(c, s, n)[c][s] = q
  <2>1. se_up \in [Clients -> [SE!Lanes -> Seq(Messages)]]
    BY DEF SctpTypes
  <2> HIDE DEF q, SE!Lanes
  <2> QED
    BY <1>6, <1>7, <2>1
<1>9. /\ SE!Piece(c, s, n) = [k \in 1 .. n |->
           [from |-> c, id |-> m.id, part |-> Parts - m.left + k]]
      /\ SE!Piece(c, s, n) \in Seq(Pieces) /\ Len(SE!Piece(c, s, n)) = n
  <2>1. SE!Piece(c, s, n) = [k \in 1 .. n |->
           [from |-> c, id |-> m.id, part |-> Parts - m.left + k]]
    BY DEF SE!Piece
  <2>2. \A k \in 1 .. n : [from |-> c, id |-> m.id, part |-> Parts - m.left + k] \in Pieces
    BY <1>1, <1>2 DEF Messages, Pieces
  <2> HIDE DEF m
  <2> QED
    BY <1>2, <2>1, <2>2
<1>10. n = m.left => \A k \in DOMAIN q : k + 1 \in DOMAIN Q /\ k \in Nat \ {0} /\ q[k] = Q[k + 1]
  BY <1>1, <1>3
<1> QED
  BY <1>1, <1>5, <1>8, <1>9, <1>10

\* A message that is sent goes to the end of its stream's queue, if it is sent.
Message(c, s) == [id |-> <<se_line'[c], se_i[c]>>, stream |-> s, left |-> Parts]
LEMMA SctpSent ==
  ASSUME SctpTypes, se_line' \in [Clients -> Nat], NEW c \in Clients, NEW s \in Nat,
         NEW next \in {"recv", "sendall"}, SE!SendOn(c, s, next)
  PROVE  /\ se_up' \in [Clients -> [SE!Lanes -> Seq(Messages)]]
         /\ se_assoc' \in [Clients -> {"none", "up", "eof", "closing"}]
         /\ se_cpc' \in [Clients -> {"fgets", "sendall", "recv", "exit"}]
         /\ \A d \in Clients \ {c} :
              se_up'[d] = se_up[d] /\ se_assoc'[d] = se_assoc[d] /\ se_cpc'[d] = se_cpc[d]
         /\ \/ se_cpc'[c] = "exit" /\ se_up'[c] = se_up[c] /\ se_assoc'[c] = se_assoc[c]
            \/ /\ se_cpc'[c] = next /\ s < ClientStreams /\ se_assoc'[c] # "none"
               /\ \E l \in SE!Lanes :
                    /\ se_kind # "unordered" => l = s
                    /\ \A r \in SE!Lanes \ {l} : se_up'[c][r] = se_up[c][r]
                    /\ se_up'[c][l] = Append(se_up[c][l], Message(c, s))
                    /\ Message(c, s) \in Messages
<1> DEFINE m == Message(c, s)
           l == IF se_kind = "unordered" THEN SE!Unordered ELSE s
<1>t. /\ se_up \in [Clients -> [SE!Lanes -> Seq(Messages)]]
      /\ se_assoc \in [Clients -> {"none", "up", "eof", "closing"}]
      /\ se_cpc \in [Clients -> {"fgets", "sendall", "recv", "exit"}]
  BY DEF SctpTypes
<1>1. CASE s >= ClientStreams \/ se_assoc[c] = "closing"
  <2>1. se_cpc' = [se_cpc EXCEPT ![c] = "exit"] /\ se_up' = se_up /\ se_assoc' = se_assoc
    BY <1>1 DEF SE!SendOn
  <2> QED
    BY <1>t, <2>1
<1>2. CASE ~(s >= ClientStreams \/ se_assoc[c] = "closing")
  <2>1. /\ se_cpc' = [se_cpc EXCEPT ![c] = next]
        /\ se_assoc' = [se_assoc EXCEPT ![c] = IF @ = "none" THEN "up" ELSE @]
        /\ se_up' = [se_up EXCEPT ![c][l] = Append(@, m)]
    BY <1>2 DEF SE!SendOn, Message
  <2>2. s < ClientStreams /\ l \in SE!Lanes
    BY <1>2, SctpSizes DEF SE!Unordered
  <2>3. m \in Messages
    <3>1. <<se_line'[c], se_i[c]>> \in Ids
      BY DEF SctpTypes, Ids
    <3> QED
      BY <2>2, <3>1, SctpSizes DEF Messages, Message
  <2>5. Append(se_up[c][l], m) \in Seq(Messages)
    <3> HIDE DEF m, l
    <3> QED
      BY <2>2, <2>3, <1>t
  <2>6. /\ se_up' \in [Clients -> [SE!Lanes -> Seq(Messages)]]
        /\ \A d \in Clients \ {c} : se_up'[d] = se_up[d]
        /\ \A r \in SE!Lanes \ {l} : se_up'[c][r] = se_up[c][r]
        /\ se_up'[c][l] = Append(se_up[c][l], m)
    <3> HIDE DEF m, l, SE!Lanes
    <3> QED
      BY <2>1, <2>2, <1>t, <2>5
  <2>7. se_kind # "unordered" => l = s
    OBVIOUS
  <2>8. \E r \in SE!Lanes :
          /\ se_kind # "unordered" => r = s
          /\ \A t \in SE!Lanes \ {r} : se_up'[c][t] = se_up[c][t]
          /\ se_up'[c][r] = Append(se_up[c][r], Message(c, s))
          /\ Message(c, s) \in Messages
    <3> HIDE DEF l
    <3> QED
      BY <2>2, <2>3, <2>6, <2>7, Zenon DEF m
  <2>9. /\ se_assoc' \in [Clients -> {"none", "up", "eof", "closing"}]
        /\ se_cpc' \in [Clients -> {"fgets", "sendall", "recv", "exit"}]
        /\ \A d \in Clients \ {c} : se_assoc'[d] = se_assoc[d] /\ se_cpc'[d] = se_cpc[d]
        /\ se_cpc'[c] = next /\ se_assoc'[c] # "none"
    BY <1>t, <2>1
  <2> QED
    BY <2>2, <2>6, <2>8, <2>9
<1> QED
  BY <1>1, <1>2

\* What the programs and their hosts do.
OwnSteps(c) ==
  \/ SE!SendLine(c) \/ SE!NextLine(c) \/ SE!SendAll(c) \/ SE!ReadReply(c)
  \/ SE!CheckNotification(c) \/ SE!Bye(c) \/ SE!ChildEcho(c)
  \/ SE!ShutdownArrives(c) \/ SE!ShutdownComplete(c) \/ SE!Autoclose(c) \/ SE!Break(c)
ServerSteps ==
  \/ SE!Notification \/ SE!Recv \/ SE!IncrementStream \/ SE!Send
  \/ SE!Reassembles /\ (SE!Realloc \/ SE!RecvMore)
  \/ se_version = "fork" /\ SE!Peeloff
LEMMA SctpActions ==
  [SE!Next]_se_vars => \/ UNCHANGED se_vars \/ ServerSteps \/ \E c \in Clients : OwnSteps(c)
BY DEF SE!Next, SE!Server, SE!Serv01, SE!Serv02, SE!Serv03, SE!Serv04, SE!Serv05, SE!Serv06,
   SE!Serv07, SE!Srv09, SE!ServFork, SE!Client, SE!StrCli, SE!StrCliUn, SE!StrCli1,
   SE!EchoAll, SE!EchoTwice, SE!Kernel, OwnSteps, ServerSteps

\* Of the setup nothing changes, but for whom the child of sctpserv_fork serves and
\* the associations that sctpserv03 shuts down.
LEMMA SctpSetupStep == SctpInv /\ [SE!Next]_se_vars => SctpSetup'
<1> SUFFICES ASSUME SctpInv, [SE!Next]_se_vars PROVE SctpSetup'
  OBVIOUS
<1>i. SctpSetup /\ SctpTypes /\ SctpPlaces
  BY DEF SctpInv
<1>1. UNCHANGED <<se_version, se_kind, se_increment, se_host>>
  BY SctpActions DEF OwnSteps, ServerSteps, SE!Bye, SE!ChildEcho, SE!Notification, SE!Recv,
     SE!Realloc, SE!RecvMore, SE!IncrementStream, SE!Send, SE!Peeloff, SE!ShutdownArrives,
     SE!ShutdownComplete, SE!Autoclose, SE!Break, SE!SendLine, SE!NextLine, SE!SendAll,
     SE!ReadReply, SE!CheckNotification, SE!setup, se_vars
<1>2. SE!Tried'
  BY <1>1, <1>i DEF SctpSetup, SE!Tried
<1>3. se_version = "fork" \/ se_peeled' = {}
  BY <1>i, SctpActions DEF OwnSteps, ServerSteps, SE!Bye, SE!ChildEcho, SE!Notification, SE!Recv,
     SE!Realloc, SE!RecvMore, SE!IncrementStream, SE!Send, SE!ShutdownArrives,
     SE!ShutdownComplete, SE!Autoclose, SE!Break, SE!SendLine, SE!NextLine, SE!SendAll,
     SE!ReadReply, SE!CheckNotification, SE!Ends, se_vars, SctpSetup, SE!Reassembles
<1>4. se_version = "serv03" \/ \A c \in Clients : se_assoc'[c] \in {"none", "up"}
  <2> SUFFICES ASSUME se_version # "serv03" PROVE \A c \in Clients : se_assoc'[c] \in {"none", "up"}
    OBVIOUS
  <2>1. \A c \in Clients : se_assoc[c] \in {"none", "up"}
    BY <1>i DEF SctpSetup
  <2>2. CASE UNCHANGED se_assoc
    BY <2>1, <2>2
  <2>3. ASSUME NEW c \in Clients,
               \/ SE!ShutdownArrives(c) \/ SE!ShutdownComplete(c) \/ SE!Autoclose(c)
               \/ SE!Break(c) \/ SE!Bye(c)
        PROVE  \A d \in Clients : se_assoc'[d] \in {"none", "up"}
    <3>1. UNCHANGED se_assoc \/ se_assoc' = [se_assoc EXCEPT ![c] = "none"]
      BY <2>1, <2>3 DEF SE!ShutdownArrives, SE!ShutdownComplete, SE!Autoclose, SE!Break, SE!Bye,
         SE!Ends
    <3> QED
      BY <1>i, <2>1, <3>1 DEF SctpTypes
  <2>4. ASSUME NEW c \in Clients, SE!SendLine(c) \/ SE!SendAll(c)
        PROVE  \A d \in Clients : se_assoc'[d] \in {"none", "up"}
    <3>1. UNCHANGED se_assoc \/ se_assoc' = [se_assoc EXCEPT ![c] = IF @ = "none" THEN "up" ELSE @]
      BY <2>4 DEF SE!SendLine, SE!SendAll, SE!SendOn
    <3> QED
      BY <1>i, <2>1, <3>1 DEF SctpTypes
  <2>5. CASE SE!Send
    BY <2>5, <2>1 DEF SE!Send
  <2> QED
    BY <2>2, <2>3, <2>4, <2>5, SctpActions
       DEF OwnSteps, ServerSteps, SE!ChildEcho, SE!Notification, SE!Recv,
       SE!Realloc, SE!RecvMore, SE!IncrementStream, SE!Peeloff, SE!NextLine,
       SE!ReadReply, SE!CheckNotification, SE!net, se_vars
<1> QED
  BY <1>i, <1>1, <1>2, <1>3, <1>4 DEF SctpSetup, SE!Versions, SE!Kinds

\* recvmsg takes some pieces of the first message of a client on a stream.
Takes(c, s, n) ==
  /\ SE!Waiting(c, s) /\ n \in 1 .. Head(se_up[c][s]).left
  /\ \/ se_host = "mixed" \/ SE!Begun(c, s)
     \/ \A y \in Clients \X SE!Lanes : ~SE!Begun(y[1], y[2])
  /\ se_up' = SE!Taken(c, s, n)
  /\ se_spc' = SE!AfterRecv(n = Head(se_up[c][s]).left)
LEMMA SctpReceives ==
  ASSUME SctpTypes, SE!Recv
  PROVE  \E c \in Clients, s \in SE!Lanes : \E n \in Nat :
           /\ Takes(c, s, n) /\ (SE!Reassembles => n <= se_size)
           /\ se_buf' = SE!Piece(c, s, n) /\ se_cliaddr' = c
           /\ se_stream' = Head(se_up[c][s]).stream
           /\ se_split' = (se_split \/ (Len(se_buf') < Parts /\ ~SE!Reassembles))
           /\ se_glued' = (se_glued \/ (SE!Reassembles /\ se_buf'[1].part > 1))
<1>1. PICK x \in SE!Deliverable :
        \E n \in SE!Sizes(Head(se_up[x[1]][x[2]]), IF SE!Reassembles THEN se_size ELSE Parts) :
          /\ se_buf' = SE!Piece(x[1], x[2], n) /\ se_up' = SE!Taken(x[1], x[2], n)
          /\ se_cliaddr' = x[1] /\ se_stream' = Head(se_up[x[1]][x[2]]).stream
          /\ se_spc' = SE!AfterRecv(n = Head(se_up[x[1]][x[2]]).left)
          /\ se_split' = (se_split \/ (Len(se_buf') < Parts /\ ~SE!Reassembles))
          /\ se_glued' = (se_glued \/ (SE!Reassembles /\ se_buf'[1].part > 1))
  BY Zenon DEF SE!Recv
<1> DEFINE c == x[1]  s == x[2]
<1>2. /\ c \in Clients /\ s \in SE!Lanes /\ SE!Waiting(c, s)
      /\ \/ se_host = "mixed" \/ SE!Begun(c, s)
         \/ \A y \in Clients \X SE!Lanes : ~SE!Begun(y[1], y[2])
  BY DEF SE!Deliverable
<1>3. Head(se_up[c][s]) \in Messages
  BY <1>2 DEF SctpTypes, SE!Waiting
<1>4. (IF SE!Reassembles THEN se_size ELSE Parts) \in Nat \ {0}
  BY SctpSizes DEF SctpTypes
<1>5. PICK n \in SE!Sizes(Head(se_up[c][s]), IF SE!Reassembles THEN se_size ELSE Parts) :
          /\ se_buf' = SE!Piece(c, s, n) /\ se_up' = SE!Taken(c, s, n)
          /\ se_cliaddr' = c /\ se_stream' = Head(se_up[c][s]).stream
          /\ se_spc' = SE!AfterRecv(n = Head(se_up[c][s]).left)
          /\ se_split' = (se_split \/ (Len(se_buf') < Parts /\ ~SE!Reassembles))
          /\ se_glued' = (se_glued \/ (SE!Reassembles /\ se_buf'[1].part > 1))
  BY <1>1, Zenon
<1>6. n \in 1 .. Head(se_up[c][s]).left /\ n \in Nat
      /\ n <= (IF SE!Reassembles THEN se_size ELSE Parts)
  BY <1>3, <1>4, <1>5, SctpSome
<1> HIDE DEF c, s
<1>7. Takes(c, s, n) /\ (SE!Reassembles => n <= se_size)
  BY <1>2, <1>5, <1>6 DEF Takes
<1> QED
  BY <1>2, <1>5, <1>6, <1>7, Zenon

\* The same of pdapi_recvmsg's further calls.
LEMMA SctpReceivesMore ==
  ASSUME SctpTypes, SE!RecvMore
  PROVE  /\ se_spc = "more" /\ UNCHANGED <<se_cliaddr, se_stream, se_split>>
         /\ \E c \in Clients, s \in SE!Lanes : \E n \in Nat :
              /\ Takes(c, s, n) /\ n <= se_size - Len(se_buf)
              /\ se_buf' = se_buf \o SE!Piece(c, s, n)
              /\ se_glued' = (se_glued \/ c # se_buf[1].from
                                       \/ Head(se_up[c][s]).id # se_buf[1].id)
<1>0. /\ se_spc = "more" /\ UNCHANGED <<se_cliaddr, se_stream, se_split>>
      /\ se_size - Len(se_buf) >= Threshold
  BY DEF SE!RecvMore
<1>1. PICK x \in SE!Deliverable :
        \E n \in SE!Sizes(Head(se_up[x[1]][x[2]]), se_size - Len(se_buf)) :
          /\ se_buf' = se_buf \o SE!Piece(x[1], x[2], n) /\ se_up' = SE!Taken(x[1], x[2], n)
          /\ se_spc' = SE!AfterRecv(n = Head(se_up[x[1]][x[2]]).left)
          /\ se_glued' = (se_glued \/ SE!Piece(x[1], x[2], n)[1].from # se_buf[1].from
                                   \/ SE!Piece(x[1], x[2], n)[1].id # se_buf[1].id)
  BY Zenon DEF SE!RecvMore
<1> DEFINE c == x[1]  s == x[2]
<1>2. /\ c \in Clients /\ s \in SE!Lanes /\ SE!Waiting(c, s)
      /\ \/ se_host = "mixed" \/ SE!Begun(c, s)
         \/ \A y \in Clients \X SE!Lanes : ~SE!Begun(y[1], y[2])
  BY DEF SE!Deliverable
<1>3. Head(se_up[c][s]) \in Messages
  BY <1>2 DEF SctpTypes, SE!Waiting
<1>4. se_size - Len(se_buf) \in Nat \ {0}
  <2>1. se_size \in Nat /\ Len(se_buf) \in Nat
    BY DEF SctpTypes
  <2> QED
    BY <1>0, <2>1, SctpSizes
<1>5. PICK n \in SE!Sizes(Head(se_up[c][s]), se_size - Len(se_buf)) :
          /\ se_buf' = se_buf \o SE!Piece(c, s, n) /\ se_up' = SE!Taken(c, s, n)
          /\ se_spc' = SE!AfterRecv(n = Head(se_up[c][s]).left)
          /\ se_glued' = (se_glued \/ SE!Piece(c, s, n)[1].from # se_buf[1].from
                                   \/ SE!Piece(c, s, n)[1].id # se_buf[1].id)
  BY <1>1, Zenon
<1>6. n \in 1 .. Head(se_up[c][s]).left /\ n \in Nat /\ n <= se_size - Len(se_buf)
  BY <1>3, <1>4, <1>5, SctpSome
<1> HIDE DEF c, s
<1>7. Takes(c, s, n)
  BY <1>2, <1>5, <1>6 DEF Takes
<1>8. SE!Piece(c, s, n)[1].from = c /\ SE!Piece(c, s, n)[1].id = Head(se_up[c][s]).id
  <2>1. 1 \in 1 .. n
    BY <1>3, <1>6 DEF Messages
  <2> QED
    BY <2>1 DEF SE!Piece
<1> QED
  BY <1>0, <1>2, <1>5, <1>6, <1>7, <1>8, Zenon

\* Types and what is known at each place of the server.
LEMMA SctpTypesStep == SctpInv /\ [SE!Next]_se_vars => SctpTypes' /\ SctpPlaces'
<1> SUFFICES ASSUME SctpInv, [SE!Next]_se_vars PROVE SctpTypes' /\ SctpPlaces'
  OBVIOUS
<1>i. SctpSetup /\ SctpTypes /\ SctpPlaces /\ Clean /\ SctpSetup'
  BY SctpSetupStep DEF SctpInv
<1>s. UNCHANGED <<se_version, se_kind, se_increment, se_host>>
  BY SctpActions DEF OwnSteps, ServerSteps, SE!Bye, SE!ChildEcho, SE!Notification, SE!Recv,
     SE!Realloc, SE!RecvMore, SE!IncrementStream, SE!Send, SE!Peeloff, SE!ShutdownArrives,
     SE!ShutdownComplete, SE!Autoclose, SE!Break, SE!SendLine, SE!NextLine, SE!SendAll,
     SE!ReadReply, SE!CheckNotification, SE!setup, se_vars
<1>a. SE!Awaited' = SE!Awaited /\ (SE!Echoing' <=> SE!Echoing) /\ SE!Outs' = SE!Outs
      /\ SE!Outstrms' = SE!Outstrms /\ (SE!Reassembles' <=> SE!Reassembles)
      /\ SE!Lanes' = SE!Lanes
  BY <1>s DEF SE!Awaited, SE!Copies, SE!Echoing, SE!Outs, SE!Outstrms, SE!Reassembles, SE!Lanes
<1> DEFINE ServerSame == UNCHANGED <<se_spc, se_buf, se_size, se_cliaddr, se_stream>>
           ClientSame == UNCHANGED <<se_cpc, se_line, se_i, se_got>>
           NetSame == UNCHANGED <<se_assoc, se_up, se_down>>
           HistSame == UNCHANGED <<se_lost, se_split, se_glued>>
<1>1. ASSUME ServerSame, ClientSame, NetSame, HistSame PROVE SctpTypes' /\ SctpPlaces'
  BY <1>1, <1>a, <1>i, <1>s DEF SctpTypes, SctpPlaces
<1> HIDE DEF ServerSame, ClientSame, NetSame, HistSame
<1>2. CASE SE!Recv
  <2>1. PICK c \in Clients, s \in SE!Lanes, n \in Nat :
          /\ Takes(c, s, n) /\ se_buf' = SE!Piece(c, s, n) /\ se_cliaddr' = c
          /\ se_stream' = Head(se_up[c][s]).stream
          /\ se_split' = (se_split \/ (Len(se_buf') < Parts /\ ~SE!Reassembles))
          /\ se_glued' = (se_glued \/ (SE!Reassembles /\ se_buf'[1].part > 1))
    BY <1>2, <1>i, SctpReceives, Zenon
  <2>2. UNCHANGED <<se_size, se_assoc, se_down, se_cpc, se_line, se_i, se_got, se_lost>>
    BY <1>2 DEF SE!Recv, SE!pdapi, SE!cli
  <2>3. /\ Head(se_up[c][s]) \in Messages /\ se_up' \in [Clients -> [SE!Lanes -> Seq(Messages)]]
        /\ se_buf' \in Seq(Pieces) /\ Len(se_buf') = n /\ n \in Nat \ {0}
    <3>1. SE!Waiting(c, s) /\ n \in 1 .. Head(se_up[c][s]).left /\ se_up' = SE!Taken(c, s, n)
      BY <2>1 DEF Takes
    <3>2. /\ Head(se_up[c][s]) \in Messages
          /\ SE!Taken(c, s, n) \in [Clients -> [SE!Lanes -> Seq(Messages)]]
          /\ SE!Piece(c, s, n) \in Seq(Pieces) /\ Len(SE!Piece(c, s, n)) = n
      BY <1>i, <3>1, SctpTaken
    <3>3. n \in Nat \ {0}
      BY <3>1, <3>2 DEF Messages
    <3> QED
      BY <2>1, <3>1, <3>2, <3>3
  <2>4. se_spc' = SE!AfterRecv(n = Head(se_up[c][s]).left)
    BY <2>1 DEF Takes
  <2>5. se_stream' \in Nat /\ se_stream' < ClientStreams
    BY <2>1, <2>3, SctpSizes DEF Messages
  <2>6. se_split' \in BOOLEAN /\ se_glued' \in BOOLEAN
    <3>1. se_split' \in BOOLEAN
      BY ONLY <2>1
    <3>2. se_glued' \in BOOLEAN
      BY ONLY <2>1
    <3> QED
      BY <3>1, <3>2
  <2>7. SctpTypes'
    BY <1>i, <1>a, <1>s, <2>1, <2>2, <2>3, <2>4, <2>5, <2>6 DEF SctpTypes, SE!AfterRecv, Holding
  <2>8. SctpPlaces'
    BY <1>i, <1>a, <1>s, <2>1, <2>2, <2>3, <2>4, <2>5 DEF SctpPlaces, SE!AfterRecv, Holding
  <2> QED
    BY <2>7, <2>8
<1>3. CASE SE!RecvMore
  <2>1. PICK c \in Clients, s \in SE!Lanes, n \in Nat :
          /\ Takes(c, s, n) /\ se_buf' = se_buf \o SE!Piece(c, s, n)
          /\ se_glued' = (se_glued \/ c # se_buf[1].from
                                   \/ Head(se_up[c][s]).id # se_buf[1].id)
    BY <1>3, <1>i, SctpReceivesMore, Zenon
  <2>2. /\ UNCHANGED <<se_cliaddr, se_stream, se_split, se_size, se_assoc, se_down, se_cpc,
                       se_line, se_i, se_got, se_lost>>
        /\ se_spc = "more"
    BY <1>3 DEF SE!RecvMore, SE!pdapi, SE!cli
  <2>3. /\ se_up' \in [Clients -> [SE!Lanes -> Seq(Messages)]]
        /\ SE!Piece(c, s, n) \in Seq(Pieces)
    <3>1. SE!Waiting(c, s) /\ n \in 1 .. Head(se_up[c][s]).left /\ se_up' = SE!Taken(c, s, n)
      BY <2>1 DEF Takes
    <3> QED
      BY <1>i, <2>1, <3>1, SctpTaken
  <2>4. se_spc' = SE!AfterRecv(n = Head(se_up[c][s]).left)
    BY <2>1 DEF Takes
  <2>5. se_glued' \in BOOLEAN
    BY ONLY <2>1
  <2>6. se_buf' \in Seq(Pieces) /\ se_buf' # <<>>
    <3>1. se_buf \in Seq(Pieces) /\ se_buf # <<>>
      BY <1>i, <2>2 DEF SctpTypes, SctpPlaces, Holding
    <3> HIDE DEF Pieces
    <3> QED
      BY <2>1, <2>3, <3>1
  <2>7. SctpTypes'
    BY <1>i, <1>a, <1>s, <2>1, <2>2, <2>3, <2>4, <2>5, <2>6 DEF SctpTypes, SE!AfterRecv, Holding
  <2>8. SctpPlaces'
    BY <1>i, <1>a, <1>s, <2>1, <2>2, <2>4, <2>6 DEF SctpPlaces, SE!AfterRecv, Holding
  <2> QED
    BY <2>7, <2>8
<1>4. CASE SE!Realloc \/ SE!Notification \/ SE!Peeloff
  <2>1. /\ UNCHANGED <<se_buf, se_cliaddr, se_stream>> /\ ClientSame /\ NetSame /\ HistSame
        /\ se_size' \in Nat \ {0}
        /\ UNCHANGED se_spc \/ se_spc' = "recv"
    BY <1>4, <1>i, SctpSizes
       DEF SE!Realloc, SE!Notification, SE!Peeloff, SE!pdapi, SE!cli, SE!net, SE!hist,
       SctpTypes, ClientSame, NetSame, HistSame
  <2>2. SctpTypes'
    BY <1>a, <1>i, <2>1 DEF SctpTypes, ClientSame, NetSame, HistSame
  <2>3. SctpPlaces'
    BY <1>a, <1>s, <1>i, <2>1 DEF SctpPlaces, ClientSame, NetSame, HistSame, Holding
  <2> QED
    BY <2>2, <2>3
<1>5. CASE SE!IncrementStream
  <2>1. /\ UNCHANGED <<se_buf, se_size, se_cliaddr>> /\ ClientSame /\ NetSame /\ HistSame
        /\ se_spc = "status"
    BY <1>5 DEF SE!IncrementStream, SE!pdapi, SE!cli, SE!net, SE!hist, ClientSame, NetSame, HistSame
  <2>2. se_stream' \in Nat /\ (se_spc' = "send" => se_stream' < SE!Outstrms)
        /\ se_spc' \in {"send", "exit"}
    <3>1. se_stream \in Nat /\ SE!Outstrms \in Nat \ {0}
      BY <1>i, SctpSizes DEF SctpTypes
    <3>2. SE!NextStream \in Nat /\ SE!NextStream < SE!Outstrms
      BY <3>1 DEF SE!NextStream
    <3> QED
      BY <1>5, <3>1, <3>2 DEF SE!IncrementStream, SE!ServerQuits
  <2>3. SctpTypes'
    BY <1>a, <1>i, <2>1, <2>2 DEF SctpTypes, ClientSame, NetSame, HistSame, Holding
  <2>4. SctpPlaces'
    BY <1>a, <1>s, <1>i, <2>1, <2>2 DEF SctpPlaces, ClientSame, NetSame, HistSame, Holding
  <2> QED
    BY <2>3, <2>4
<1>6. CASE SE!Send
  <2>1. /\ UNCHANGED <<se_buf, se_size, se_cliaddr, se_stream, se_up>> /\ ClientSame /\ HistSame
        /\ se_spc = "send"
    BY <1>6 DEF SE!Send, SE!pdapi, SE!cli, SE!hist, ClientSame, HistSame
  <2>2. /\ se_spc' \in {"exit", "recv", "peel"} /\ (se_spc' = "peel" => se_version = "fork")
        /\ se_assoc' \in {se_assoc, [se_assoc EXCEPT ![se_cliaddr] = "eof"]}
        /\ \/ UNCHANGED se_down
           \/ /\ se_stream < SE!Outstrms
              /\ se_down' = [se_down EXCEPT ![se_cliaddr][se_stream] = Append(@, se_buf)]
    <3>1. CASE se_stream >= SE!Outstrms
      BY <1>6, <3>1 DEF SE!Send, SE!ServerQuits
    <3>2. CASE ~(se_stream >= SE!Outstrms) /\ se_assoc[se_cliaddr] \in {"eof", "closing"}
      <4>1. se_stream < SE!Outstrms
        BY <1>i, <3>2, SctpSizes DEF SctpTypes
      <4> QED
        BY <1>6, <3>2, <4>1 DEF SE!Send, SE!ServerQuits
    <3>3. CASE ~(se_stream >= SE!Outstrms) /\ se_assoc[se_cliaddr] \notin {"eof", "closing"}
      <4>1. se_stream < SE!Outstrms
        BY <1>i, <3>3, SctpSizes DEF SctpTypes
      <4> QED
        BY <1>6, <3>3, <4>1 DEF SE!Send
    <3> QED
      BY <3>1, <3>2, <3>3
  <2>3. se_assoc' \in [Clients -> {"none", "up", "eof", "closing"}]
    BY <1>i, <2>2 DEF SctpTypes
  <2>4. se_down' \in [Clients -> [SE!Outs -> Seq(Seq(Pieces))]]
    <3>1. se_down \in [Clients -> [SE!Outs -> Seq(Seq(Pieces))]] /\ se_cliaddr \in Clients
      BY <1>i, <2>1 DEF SctpTypes, SctpPlaces, Holding
    <3>2. CASE se_down' = [se_down EXCEPT ![se_cliaddr][se_stream] = Append(@, se_buf)]
               /\ se_stream < SE!Outstrms
      <4>1. se_buf \in Seq(Pieces)
        BY <1>i DEF SctpTypes
      <4>2. se_stream \in SE!Outs
        BY <1>i, <3>2, SctpSizes DEF SctpTypes, SE!Outs
      <4> DEFINE R == Seq(Pieces)
      <4>3. Append(se_down[se_cliaddr][se_stream], se_buf) \in Seq(R)
        <5> HIDE DEF R
        <5>1. se_down[se_cliaddr][se_stream] \in Seq(R)
          BY <3>1, <4>2 DEF R
        <5>2. se_buf \in R
          BY <4>1 DEF R
        <5> QED
          BY <5>1, <5>2
      <4> HIDE DEF R, SE!Outs
      <4> QED
        BY <3>1, <3>2, <4>2, <4>3 DEF R
    <3> QED
      BY <2>2, <3>1, <3>2
  <2>5. SctpTypes'
    BY <1>a, <1>i, <2>1, <2>2, <2>3, <2>4 DEF SctpTypes, ClientSame, HistSame, Holding
  <2>6. SctpPlaces'
    BY <1>a, <1>s, <1>i, <2>1, <2>2 DEF SctpPlaces, ClientSame, HistSame, Holding
  <2> QED
    BY <2>5, <2>6
<1>7. ASSUME NEW c \in Clients, SE!SendLine(c) \/ SE!SendAll(c) PROVE SctpTypes' /\ SctpPlaces'
  <2>1. ServerSame /\ HistSame /\ UNCHANGED se_down
    BY <1>7 DEF SE!SendLine, SE!SendAll, SE!pdapi, SE!hist, ServerSame, HistSame
  <2>2. /\ se_line' \in [Clients -> Nat] /\ se_i' \in [Clients -> Nat]
        /\ se_got' \in [Clients -> Seq(Seq(Pieces))]
    <3>1. se_line' = [se_line EXCEPT ![c] = @ + 1] \/ se_line' = se_line
      BY <1>7 DEF SE!SendLine, SE!SendAll
    <3>2. se_i' = [se_i EXCEPT ![c] = @ + 1] \/ se_i' = se_i
      BY <1>7 DEF SE!SendLine, SE!SendAll
    <3>3. se_got' = [se_got EXCEPT ![c] = <<>>] \/ se_got' = se_got
      BY <1>7 DEF SE!SendLine, SE!SendAll
    <3>4. <<>> \in Seq(Seq(Pieces))
      OBVIOUS
    <3>5. se_got' \in [Clients -> Seq(Seq(Pieces))]
      BY <1>i, <3>3, <3>4 DEF SctpTypes
    <3>a. se_line \in [Clients -> Nat] /\ se_i \in [Clients -> Nat]
      BY <1>i DEF SctpTypes
    <3>6. se_line' \in [Clients -> Nat]
      BY <3>a, <3>1
    <3>7. se_i' \in [Clients -> Nat]
      BY <3>a, <3>2
    <3> QED
      BY <3>5, <3>6, <3>7
  <2>3. PICK s \in Nat, next \in {"recv", "sendall"} :
          /\ SE!SendOn(c, s, next)
          /\ SE!SendLine(c) => next = "recv" /\ UNCHANGED se_i /\ ~SE!Echoing
          /\ ~SE!SendLine(c) => /\ se_cpc[c] = "sendall" /\ se_i' = [se_i EXCEPT ![c] = @ + 1]
                                /\ (next = "sendall" => se_i[c] + 1 # SE!Awaited)
    <3>1. CASE SE!SendLine(c)
      <4>1. PICK s \in 0 .. ClientStreams : SE!SendOn(c, s, "recv")
        BY <3>1 DEF SE!SendLine
      <4>2. s \in Nat
        BY <4>1, SctpSizes
      <4>3. UNCHANGED se_i /\ ~SE!Echoing
        BY <3>1 DEF SE!SendLine
      <4> QED
        BY <3>1, <4>1, <4>2, <4>3
    <3>2. CASE ~SE!SendLine(c)
      <4> DEFINE next == IF se_i[c] + 1 = SE!Awaited THEN "recv" ELSE "sendall"
      <4>1. /\ SE!SendOn(c, se_i[c] \div SE!Copies, next)
            /\ se_cpc[c] = "sendall" /\ se_i' = [se_i EXCEPT ![c] = @ + 1]
        BY <1>7, <3>2 DEF SE!SendAll
      <4>2. se_i[c] \div SE!Copies \in Nat
        <5>1. se_i[c] \in Nat
          BY <1>i DEF SctpTypes
        <5> QED
          BY <5>1 DEF SE!Copies
      <4>3. next \in {"recv", "sendall"} /\ (next = "sendall" => se_i[c] + 1 # SE!Awaited)
        OBVIOUS
      <4> HIDE DEF next
      <4> QED
        BY <3>2, <4>1, <4>2, <4>3
    <3> QED
      BY <3>1, <3>2
  <2>4. /\ se_cpc' \in [Clients -> {"fgets", "sendall", "recv", "exit"}]
        /\ se_cpc'[c] \in {"exit", next} /\ \A d \in Clients \ {c} : se_cpc'[d] = se_cpc[d]
        /\ se_assoc' \in [Clients -> {"none", "up", "eof", "closing"}]
        /\ se_up' \in [Clients -> [SE!Lanes -> Seq(Messages)]]
    BY <1>i, <2>2, <2>3, SctpSent
  <2>5. SctpTypes'
    BY <1>a, <1>i, <2>1, <2>2, <2>4 DEF SctpTypes, ServerSame, HistSame
  <2>6. \A d \in Clients : se_cpc'[d] = "sendall" => SE!Echoing /\ se_i'[d] < SE!Awaited
    <3> SUFFICES ASSUME NEW d \in Clients, se_cpc'[d] = "sendall"
                 PROVE  SE!Echoing /\ se_i'[d] < SE!Awaited
      OBVIOUS
    <3>1. CASE d # c
      <4>1. se_cpc[d] = "sendall" /\ se_i'[d] = se_i[d]
        BY <1>i, <2>3, <2>4, <3>1 DEF SctpTypes
      <4> QED
        BY <1>i, <4>1 DEF SctpPlaces
    <3>2. CASE d = c
      <4>1. next = "sendall" /\ se_cpc[c] = "sendall" /\ se_i'[c] = se_i[c] + 1
            /\ se_i[c] + 1 # SE!Awaited
        BY <1>i, <2>3, <2>4, <3>2 DEF SctpTypes
      <4>2. SE!Echoing /\ se_i[c] < SE!Awaited /\ se_i[c] \in Nat
        BY <1>i, <4>1 DEF SctpPlaces, SctpTypes
      <4> QED
        BY <3>2, <4>1, <4>2, SctpSizes
    <3> QED
      BY <3>1, <3>2
  <2>7. \A d \in Clients : ~SE!Echoing => se_i'[d] = 0
    BY <1>i, <2>3 DEF SctpPlaces
  <2>8. SctpPlaces'
    BY <1>a, <1>s, <1>i, <2>1, <2>6, <2>7 DEF SctpPlaces, ServerSame
  <2> QED
    BY <2>5, <2>8
<1>8. ASSUME NEW c \in Clients, SE!NextLine(c) PROVE SctpTypes' /\ SctpPlaces'
  <2>1. /\ ServerSame /\ HistSame /\ NetSame
        /\ se_line' = [se_line EXCEPT ![c] = @ + 1] /\ se_got' = [se_got EXCEPT ![c] = <<>>]
        /\ se_i' = [se_i EXCEPT ![c] = 0] /\ se_cpc' = [se_cpc EXCEPT ![c] = "sendall"]
        /\ SE!Echoing
    BY <1>8 DEF SE!NextLine, SE!pdapi, SE!hist, SE!net, ServerSame, HistSame, NetSame
  <2>2. <<>> \in Seq(Seq(Pieces)) /\ SE!Awaited \in Nat \ {0}
    BY SctpSizes
  <2>3. SctpTypes'
    BY <1>a, <1>i, <2>1, <2>2 DEF SctpTypes, ServerSame, HistSame, NetSame
  <2>4. SctpPlaces'
    BY <1>a, <1>s, <1>i, <2>1, <2>2 DEF SctpPlaces, ServerSame, SctpTypes
  <2> QED
    BY <2>3, <2>4
<1>9. ASSUME NEW c \in Clients, SE!ReadReply(c) PROVE SctpTypes' /\ SctpPlaces'
  <2>1. PICK s \in SE!Outs :
          /\ se_down[c][s] # <<>> /\ se_down' = [se_down EXCEPT ![c][s] = Tail(@)]
          /\ se_got' = [se_got EXCEPT ![c] = Append(@, Head(se_down[c][s]))]
    BY <1>9 DEF SE!ReadReply
  <2>2. /\ ServerSame /\ HistSame /\ UNCHANGED <<se_assoc, se_up, se_line, se_i>>
        /\ \/ UNCHANGED se_cpc \/ se_cpc' = [se_cpc EXCEPT ![c] = "fgets"]
    <3>1. se_cpc' = [se_cpc EXCEPT ![c] = IF Len(se_got'[c]) = SE!Awaited THEN "fgets" ELSE @]
      BY <1>9 DEF SE!ReadReply
    <3>2. UNCHANGED se_cpc \/ se_cpc' = [se_cpc EXCEPT ![c] = "fgets"]
      BY <1>i, <3>1 DEF SctpTypes
    <3> QED
      BY <1>9, <3>2 DEF SE!ReadReply, SE!pdapi, SE!hist, ServerSame, HistSame
  <2> DEFINE R == Seq(Pieces)
  <2>3. se_down[c][s] \in Seq(R) /\ se_got[c] \in Seq(R)
    BY <1>i DEF SctpTypes
  <2>4. Tail(se_down[c][s]) \in Seq(R) /\ Append(se_got[c], Head(se_down[c][s])) \in Seq(R)
    <3> HIDE DEF R
    <3> QED
      BY <2>1, <2>3
  <2>5. /\ se_down' \in [Clients -> [SE!Outs -> Seq(R)]]
        /\ se_got' \in [Clients -> Seq(R)]
    <3>1. se_down \in [Clients -> [SE!Outs -> Seq(R)]] /\ se_got \in [Clients -> Seq(R)]
      BY <1>i DEF SctpTypes
    <3> HIDE DEF R, SE!Outs
    <3> QED
      BY <2>1, <2>4, <3>1
  <2>6. SctpTypes'
    BY <1>a, <1>i, <2>2, <2>5 DEF SctpTypes, ServerSame, HistSame
  <2>7. SctpPlaces'
    BY <1>a, <1>s, <1>i, <2>2 DEF SctpPlaces, ServerSame, SctpTypes
  <2> QED
    BY <2>6, <2>7
<1>10. ASSUME NEW c \in Clients, SE!ChildEcho(c) PROVE SctpTypes' /\ SctpPlaces'
  <2>1. PICK s \in SE!Lanes, n \in Nat :
          /\ SE!Waiting(c, s) /\ n \in 1 .. Head(se_up[c][s]).left
          /\ se_up' = SE!Taken(c, s, n) /\ se_split' = (se_split \/ n < Parts)
          /\ se_down' = [se_down EXCEPT ![c][0] = Append(@, SE!Piece(c, s, n))]
    <3>1. PICK s \in SE!Lanes : SE!Waiting(c, s) /\ \E n \in SE!Sizes(Head(se_up[c][s]), Parts) :
             /\ se_up' = SE!Taken(c, s, n) /\ se_split' = (se_split \/ n < Parts)
             /\ se_down' = [se_down EXCEPT ![c][0] = Append(@, SE!Piece(c, s, n))]
      BY <1>10 DEF SE!ChildEcho
    <3>2. Head(se_up[c][s]) \in Messages
      BY <1>i, <3>1 DEF SctpTypes, SE!Waiting
    <3> QED
      BY <3>1, <3>2, SctpSizes, SctpSome
  <2>2. ServerSame /\ ClientSame /\ UNCHANGED <<se_assoc, se_lost, se_glued>>
    BY <1>10 DEF SE!ChildEcho, SE!pdapi, SE!cli, ServerSame, ClientSame
  <2>3. se_up' \in [Clients -> [SE!Lanes -> Seq(Messages)]] /\ SE!Piece(c, s, n) \in Seq(Pieces)
    BY <1>i, <2>1, SctpTaken
  <2>4. se_split' \in BOOLEAN
    BY ONLY <2>1
  <2> DEFINE R == Seq(Pieces)
  <2>5. se_down' \in [Clients -> [SE!Outs -> Seq(R)]]
    <3>1. se_down \in [Clients -> [SE!Outs -> Seq(R)]] /\ SE!Piece(c, s, n) \in R
      BY <1>i, <2>3 DEF SctpTypes
    <3> HIDE DEF R, SE!Outs
    <3>2. 0 \in SE!Outs
      BY SctpSizes
    <3>3. Append(se_down[c][0], SE!Piece(c, s, n)) \in Seq(R)
      BY <3>1, <3>2
    <3> QED
      BY <2>1, <3>1, <3>2, <3>3
  <2>6. SctpTypes'
    BY <1>a, <1>i, <2>2, <2>3, <2>4, <2>5 DEF SctpTypes, ServerSame, ClientSame
  <2>7. SctpPlaces'
    BY <1>a, <1>s, <1>i, <2>2 DEF SctpPlaces, ServerSame, ClientSame
  <2> QED
    BY <2>6, <2>7
<1>11. ASSUME NEW c \in Clients, SE!CheckNotification(c) PROVE SctpTypes' /\ SctpPlaces'
  BY <1>1, <1>11 DEF SE!CheckNotification, SE!pdapi, SE!hist, SE!net,
     ServerSame, ClientSame, NetSame, HistSame
<1>12. ASSUME NEW c \in Clients,
              \/ SE!Bye(c) \/ SE!ShutdownArrives(c) \/ SE!ShutdownComplete(c)
              \/ SE!Autoclose(c) \/ SE!Break(c)
       PROVE  SctpTypes' /\ SctpPlaces'
  <2>1. /\ ServerSame /\ UNCHANGED <<se_line, se_i, se_got, se_split, se_glued>>
        /\ se_lost' \in {se_lost, se_lost + 1}
        /\ se_cpc' \in {se_cpc, [se_cpc EXCEPT ![c] = "exit"]}
        /\ \E a \in {"none", "closing"} : se_assoc' \in {se_assoc, [se_assoc EXCEPT ![c] = a]}
    BY <1>12 DEF SE!Bye, SE!ShutdownArrives, SE!ShutdownComplete, SE!Autoclose, SE!Break,
       SE!Ends, SE!pdapi, SE!hist, SE!cli, ServerSame
  <2>2. /\ se_up' \in {se_up, [se_up EXCEPT ![c] = [s \in SE!Lanes |-> <<>>]]}
        /\ se_down' \in {se_down, [se_down EXCEPT ![c] = [s \in SE!Outs |-> <<>>]]}
    BY <1>12 DEF SE!Bye, SE!ShutdownArrives, SE!ShutdownComplete, SE!Autoclose, SE!Break,
       SE!Ends, SE!net
  <2>3. /\ se_up' \in [Clients -> [SE!Lanes -> Seq(Messages)]]
        /\ se_down' \in [Clients -> [SE!Outs -> Seq(Seq(Pieces))]]
    <3>1. <<>> \in Seq(Messages) /\ <<>> \in Seq(Seq(Pieces))
      OBVIOUS
    <3>a. /\ se_up \in [Clients -> [SE!Lanes -> Seq(Messages)]]
          /\ se_down \in [Clients -> [SE!Outs -> Seq(Seq(Pieces))]]
      BY <1>i DEF SctpTypes
    <3> DEFINE E == [s \in SE!Lanes |-> <<>>]
               F == [s \in SE!Outs |-> <<>>]
    <3>e. E \in [SE!Lanes -> Seq(Messages)] /\ F \in [SE!Outs -> Seq(Seq(Pieces))]
      BY <3>1
    <3>f. se_up' \in {se_up, [se_up EXCEPT ![c] = E]} /\ se_down' \in {se_down, [se_down EXCEPT ![c] = F]}
      BY <2>2
    <3> HIDE DEF E, F
    <3>2. se_up' \in [Clients -> [SE!Lanes -> Seq(Messages)]]
      BY <3>a, <3>e, <3>f
    <3>3. se_down' \in [Clients -> [SE!Outs -> Seq(Seq(Pieces))]]
      BY <3>a, <3>e, <3>f
    <3> QED
      BY <3>2, <3>3
  <2>4. SctpTypes'
    <3>1. /\ se_cpc' \in [Clients -> {"fgets", "sendall", "recv", "exit"}]
          /\ se_assoc' \in [Clients -> {"none", "up", "eof", "closing"}]
          /\ se_lost' \in Nat
      <4>1. /\ se_cpc \in [Clients -> {"fgets", "sendall", "recv", "exit"}]
            /\ se_assoc \in [Clients -> {"none", "up", "eof", "closing"}]
            /\ se_lost \in Nat
        BY <1>i DEF SctpTypes
      <4> QED
        BY <2>1, <4>1
    <3> QED
      BY <1>a, <1>i, <2>1, <2>3, <3>1 DEF SctpTypes, ServerSame
  <2>5. SctpPlaces'
    BY <1>a, <1>s, <1>i, <2>1 DEF SctpPlaces, ServerSame, SctpTypes
  <2> QED
    BY <2>4, <2>5
<1>13. CASE UNCHANGED se_vars
  BY <1>1, <1>13 DEF se_vars, ServerSame, ClientSame, NetSame, HistSame
<1> QED
  BY <1>2, <1>3, <1>4, <1>5, <1>6, <1>7, <1>8, <1>9, <1>10, <1>11, <1>12, <1>13, SctpActions
     DEF OwnSteps, ServerSteps

\* What is said of a client's messages holds on while nobody moves them.
SetupSame == UNCHANGED <<se_version, se_kind, se_increment, se_host>>
QueuesSame(c) == se_up'[c] = se_up[c] /\ se_down'[c] = se_down[c] /\ se_got'[c] = se_got[c]
PlaceSame(c) == se_cpc'[c] = se_cpc[c] /\ se_line'[c] = se_line[c] /\ se_i'[c] = se_i[c]
HandSame(c) ==
  UNCHANGED <<se_spc, se_cliaddr, se_buf, se_stream>> \/ (~Holds(c) /\ ~Holds(c)')
\* What is derived from the setup is the same after a step that keeps it.
LEMMA SctpSameSetup ==
  ASSUME SetupSame
  PROVE  /\ SE!Awaited' = SE!Awaited /\ (SE!Echoing' <=> SE!Echoing) /\ SE!Outs' = SE!Outs
         /\ SE!Outstrms' = SE!Outstrms /\ (SE!Reassembles' <=> SE!Reassembles)
         /\ SE!Lanes' = SE!Lanes /\ (Twice' <=> Twice)
         /\ \A a, b : Ahead(a, b)' <=> Ahead(a, b)
         /\ \A s : Dest(s)' = Dest(s)
BY DEF SetupSame, SE!Awaited, SE!Copies, SE!Echoing, SE!Outs, SE!Outstrms, SE!Reassembles,
   SE!Lanes, Twice, Ahead, Dest

\* A client none of whose messages moved keeps its part of the invariant.
LEMMA SctpFrame ==
  ASSUME NEW c \in Clients, ClientInv(c), SetupSame, QueuesSame(c), PlaceSame(c), HandSame(c),
         se_assoc'[c] # "none" \/ AssocInv(c)'
  PROVE  ClientInv(c)'
<1> USE SctpSameSetup DEF QueuesSame, PlaceSame, HandSame
<1>h. /\ Holds(c)' <=> Holds(c)
      /\ Holds(c) => UNCHANGED <<se_spc, se_cliaddr, se_buf, se_stream>>
  BY DEF Holds
<1>b. \A s \in SE!Lanes : SE!Begun(c, s)' <=> SE!Begun(c, s)
  BY DEF SE!Begun, SE!Waiting
<1>1. UpInv(c)'
  BY <1>h DEF ClientInv, UpInv, SetupSame
<1>2. HandInv(c)'
  BY <1>h, <1>b DEF ClientInv, HandInv, Portion, SetupSame
<1>3. DownInv(c)' /\ GotInv(c)'
  BY DEF ClientInv, DownInv, GotInv, IsReply, Portion, Num
<1>4. Unread(c)' = Unread(c) /\ InHand(c)' = InHand(c) /\ Replied(c)' = Replied(c)
      /\ Got(c)' = Got(c) /\ Bound(c)' = Bound(c)
  BY <1>h DEF Unread, InHand, Replied, Got, Bound, Num
<1>5. Chain(c)'
  BY <1>4 DEF ClientInv, Chain
<1>6. UpOrder(c)'
  BY DEF ClientInv, UpOrder
<1>7. DownOrder(c)' /\ GotOrder(c)'
  BY DEF ClientInv, DownOrder, GotOrder, Num
<1>8. QuietInv(c)'
  BY <1>h DEF ClientInv, QuietInv
<1>9. AssocInv(c)'
  BY DEF AssocInv
<1> QED
  BY <1>1, <1>2, <1>3, <1>5, <1>6, <1>7, <1>8, <1>9 DEF ClientInv

\* A client that has nothing on its way, after a step.
LEMMA SctpEmpty ==
  ASSUME NEW c \in Clients,
         \A s \in SE!Lanes' : se_up'[c][s] = <<>>,
         \A t \in SE!Outs' : se_down'[c][t] = <<>>,
         ~Holds(c)', GotInv(c)', GotOrder(c)', \A n \in Got(c)' : n < Bound(c)'
  PROVE  ClientInv(c)'
<1>1. /\ \A s \in SE!Lanes' : DOMAIN se_up'[c][s] = {}
      /\ \A t \in SE!Outs' : DOMAIN se_down'[c][t] = {}
  OBVIOUS
<1>2. UpInv(c)' /\ HandInv(c)' /\ DownInv(c)'
  BY <1>1 DEF UpInv, HandInv, DownInv
<1>3. UpOrder(c)' /\ DownOrder(c)' /\ QuietInv(c)' /\ AssocInv(c)'
  BY <1>1 DEF UpOrder, DownOrder, QuietInv, AssocInv
<1>4. Unread(c)' = {} /\ InHand(c)' = {} /\ Replied(c)' = {}
  BY <1>1 DEF Unread, InHand, Replied
<1>5. Chain(c)'
  BY <1>4 DEF Chain
<1> QED
  BY <1>2, <1>3, <1>5 DEF ClientInv

\* Steps of the server, or of a client's association, that move no message.
LEMMA SctpStay ==
  ASSUME SctpInv, \A d \in Clients : ClientInv(d), SctpSetup', SctpTypes', SctpPlaces', SetupSame,
         \/ UNCHANGED se_vars \/ SE!Notification \/ SE!Realloc \/ SE!Peeloff
         \/ \E c \in Clients : \/ SE!CheckNotification(c) \/ SE!ShutdownArrives(c)
                               \/ SE!ShutdownComplete(c) \/ SE!Autoclose(c)
  PROVE  \A d \in Clients : ClientInv(d)'
<1> SUFFICES ASSUME NEW d \in Clients PROVE ClientInv(d)'
  OBVIOUS
<1>i. SctpSetup /\ SctpTypes /\ SctpPlaces /\ ClientInv(d)
  BY DEF SctpInv
<1>1. QueuesSame(d) /\ PlaceSame(d)
  BY DEF QueuesSame, PlaceSame, SE!Notification, SE!Realloc, SE!Peeloff, SE!CheckNotification,
     SE!ShutdownArrives, SE!ShutdownComplete, SE!Autoclose, SE!net, SE!cli, se_vars
<1>2. HandSame(d)
  BY DEF HandSame, Holds, Holding, SE!Notification, SE!Realloc, SE!Peeloff, SE!CheckNotification,
     SE!ShutdownArrives, SE!ShutdownComplete, SE!Autoclose, se_vars
<1>3. AssocInv(d)'
  <2>a. AssocInv(d) /\ (Holds(d)' => Holds(d)) /\ SE!Lanes' = SE!Lanes
    BY <1>i, <1>2, SctpSameSetup DEF ClientInv, HandSame, Holds
  <2>1. ASSUME se_assoc[d] # "none" => se_assoc'[d] # "none" PROVE AssocInv(d)'
    BY <2>1, <2>a, <1>1 DEF AssocInv, QueuesSame, SetupSame
  <2>2. CASE UNCHANGED se_assoc
    BY <2>1, <2>2
  <2>3. ASSUME NEW c \in Clients, SE!ShutdownArrives(c) \/ SE!ShutdownComplete(c) PROVE AssocInv(d)'
    <3>1. se_version = "serv03"
      BY <1>i, <2>3 DEF SctpSetup, SE!ShutdownArrives, SE!ShutdownComplete
    <3> QED
      BY <3>1 DEF AssocInv, SetupSame
  <2>4. ASSUME NEW c \in Clients, SE!Autoclose(c) PROVE AssocInv(d)'
    <3>1. CASE d # c
      <4>1. se_assoc'[d] = se_assoc[d]
        BY <1>i, <2>4, <3>1 DEF SE!Autoclose, SE!Ends, SctpTypes
      <4> QED
        BY <4>1, <2>1
    <3>2. CASE d = c
      <4>1. /\ \A s \in SE!Lanes : se_up[c][s] = <<>>
            /\ ~(se_cliaddr = c /\ se_spc \in {"status", "send"}) /\ se_version = "serv04"
        BY <2>4 DEF SE!Autoclose, SE!Waiting
      <4>2. ~Holds(c)
        BY <1>i, <4>1 DEF Holds, Holding, SctpPlaces, SE!Reassembles
      <4> QED
        BY <3>2, <4>1, <4>2, <2>a, <1>1 DEF AssocInv, QueuesSame
    <3> QED
      BY <3>1, <3>2
  <2> QED
    BY <2>2, <2>3, <2>4 DEF SE!Notification, SE!Realloc, SE!Peeloff, SE!CheckNotification, SE!net, se_vars
<1> QED
  BY <1>i, <1>1, <1>2, <1>3, SctpFrame

\* A client that ends had nothing on its way.
LEMMA SctpBye ==
  ASSUME SctpInv, \A d \in Clients : ClientInv(d), SctpSetup', SctpTypes', SctpPlaces', SetupSame,
         NEW c \in Clients, SE!Bye(c)
  PROVE  \A d \in Clients : ClientInv(d)'
<1> SUFFICES ASSUME NEW d \in Clients PROVE ClientInv(d)'
  OBVIOUS
<1>i. SctpSetup /\ SctpTypes /\ SctpPlaces /\ ClientInv(d)
  BY DEF SctpInv
<1>s. /\ SE!Lanes' = SE!Lanes /\ SE!Outs' = SE!Outs /\ SE!Awaited' = SE!Awaited
      /\ \A a, b : Ahead(a, b)' <=> Ahead(a, b)
  BY SctpSameSetup
<1>t. /\ se_up \in [Clients -> [SE!Lanes -> Seq(Messages)]]
      /\ se_down \in [Clients -> [SE!Outs -> Seq(Seq(Pieces))]]
      /\ se_cpc \in [Clients -> {"fgets", "sendall", "recv", "exit"}]
      /\ se_assoc \in [Clients -> {"none", "up", "eof", "closing"}]
  BY <1>i DEF SctpTypes
<1>1. /\ UNCHANGED <<se_spc, se_cliaddr, se_buf, se_stream, se_line, se_i, se_got>>
      /\ se_cpc[c] = "fgets" /\ se_cpc' = [se_cpc EXCEPT ![c] = "exit"]
      /\ se_assoc' \in {se_assoc, [se_assoc EXCEPT ![c] = "none"]}
      /\ se_up' \in {se_up, [se_up EXCEPT ![c] = [s \in SE!Lanes |-> <<>>]]}
      /\ se_down' \in {se_down, [se_down EXCEPT ![c] = [s \in SE!Outs |-> <<>>]]}
  BY DEF SE!Bye, SE!Ends
<1>2. CASE d # c
  <2>1. QueuesSame(d) /\ PlaceSame(d) /\ HandSame(d) /\ se_assoc'[d] = se_assoc[d]
    BY <1>t, <1>1, <1>2 DEF QueuesSame, PlaceSame, HandSame
  <2>2. AssocInv(d)'
    BY <1>i, <1>s, <1>1, <2>1 DEF ClientInv, AssocInv, QueuesSame, SetupSame, Holds
  <2> QED
    BY <1>i, <2>1, <2>2, SctpFrame
<1>3. CASE d = c
  <2>1. /\ \A s \in SE!Lanes : se_up[c][s] = <<>>
        /\ \A t \in SE!Outs : se_down[c][t] = <<>>
        /\ ~Holds(c)
    BY <1>i, <1>1, <1>3 DEF ClientInv, QuietInv
  <2>2. \A s \in SE!Lanes : se_up'[c][s] = <<>>
    BY <1>t, <1>1, <2>1
  <2>3. \A t \in SE!Outs : se_down'[c][t] = <<>>
    BY <1>t, <1>1, <2>1
  <2>4. ~Holds(c)'
    BY <1>1, <2>1 DEF Holds
  <2>5. GotInv(c)' /\ GotOrder(c)'
    <3>1. GotInv(c) /\ GotOrder(c)
      BY <1>i, <1>3 DEF ClientInv
    <3>2. \A x : IsReply(c, x)' <=> IsReply(c, x)
      BY <1>1 DEF IsReply, Portion
    <3> QED
      BY <1>1, <1>s, <3>1, <3>2 DEF GotInv, GotOrder
  <2>6. \A n \in Got(c)' : n < Bound(c)'
    <3>1. Got(c)' = Got(c) /\ Bound(c)' = Bound(c)
      BY <1>t, <1>1, <1>s DEF Got, Bound, Num
    <3> QED
      BY <1>i, <1>3, <3>1 DEF ClientInv, Chain
  <2> QED
    BY <1>3, <1>s, <2>2, <2>3, <2>4, <2>5, <2>6, SctpEmpty
<1> QED
  BY <1>2, <1>3

\* A client whose messages nobody moves, but what the server held may go.
LEMMA SctpLet ==
  ASSUME NEW c \in Clients, ClientInv(c), SetupSame, QueuesSame(c), PlaceSame(c),
         se_spc # "more", Holds(c)' => Holds(c) /\ se_buf' = se_buf, HandInv(c)', AssocInv(c)'
  PROVE  ClientInv(c)'
<1> USE SctpSameSetup DEF QueuesSame, PlaceSame
<1>1. UpInv(c)'
  BY DEF ClientInv, UpInv, SetupSame
<1>3. DownInv(c)' /\ GotInv(c)'
  BY DEF ClientInv, DownInv, GotInv, IsReply, Portion, Num
<1>4. Unread(c)' = Unread(c) /\ InHand(c)' \subseteq InHand(c) /\ Replied(c)' = Replied(c)
      /\ Got(c)' = Got(c) /\ Bound(c)' = Bound(c)
  BY DEF Unread, InHand, Replied, Got, Bound, Num
<1>5. Chain(c)'
  BY <1>4 DEF ClientInv, Chain
<1>6. UpOrder(c)'
  BY DEF ClientInv, UpOrder
<1>7. DownOrder(c)' /\ GotOrder(c)'
  BY DEF ClientInv, DownOrder, GotOrder, Num
<1>8. QuietInv(c)'
  BY DEF ClientInv, QuietInv
<1> QED
  BY <1>1, <1>3, <1>5, <1>6, <1>7, <1>8 DEF ClientInv

\* The replies on a stream.
LEMMA SctpDown ==
  ASSUME NEW c \in Clients, DownInv(c), se_down[c] \in [SE!Outs -> Seq(Seq(Pieces))],
         NEW t \in SE!Outs, NEW k \in DOMAIN se_down[c][t]
  PROVE  /\ se_down[c][t][k] \in Seq(Pieces) /\ IsReply(c, se_down[c][t][k])
         /\ Num(se_down[c][t][k]) \in Replied(c)
<1>1. se_down[c][t] \in Seq(Seq(Pieces))
  OBVIOUS
<1>2. se_down[c][t][k] \in Seq(Pieces)
  <2> DEFINE R == Seq(Pieces)
  <2> HIDE DEF R
  <2> QED
    BY <1>1 DEF R
<1>3. IsReply(c, se_down[c][t][k])
  BY DEF DownInv
<1>4. 1 \in DOMAIN se_down[c][t][k]
  BY <1>3, SctpSizes DEF IsReply, Portion
<1>5. se_down[c][t][k][1] \in Pieces
  BY <1>2, <1>4
<1> QED
  <2>1. Num(se_down[c][t][k]) \in Nat
    BY <1>5 DEF Num, Pieces, Ids
  <2>2. Num(se_down[c][t][k]) \in Replied(c)
    BY <2>1 DEF Replied
  <2> QED
    BY <1>2, <1>3, <2>2

\* A reply that joins those on a stream.
LEMMA SctpReplies ==
  ASSUME NEW c \in Clients, DownInv(c), DownOrder(c), SetupSame, se_line'[c] = se_line[c],
         se_down[c] \in [SE!Outs -> Seq(Seq(Pieces))],
         NEW t \in SE!Outs, NEW e \in Seq(Pieces), e # <<>>, IsReply(c, e),
         Twice => t = Dest(Num(e) \div 2), \A n \in Replied(c) : Ahead(n, Num(e)),
         se_down'[c][t] = Append(se_down[c][t], e),
         \A r \in SE!Outs \ {t} : se_down'[c][r] = se_down[c][r]
  PROVE  /\ DownInv(c)' /\ DownOrder(c)'
         /\ \A n \in Replied(c)' : n \in Replied(c) \/ n = Num(e)
<1> DEFINE Q == se_down[c][t]  Q1 == se_down'[c][t]
<1>s. /\ SE!Outs' = SE!Outs /\ (Twice' <=> Twice)
      /\ \A a, b : Ahead(a, b)' <=> Ahead(a, b)
      /\ \A s : Dest(s)' = Dest(s)
  BY SctpSameSetup
<1>1. /\ Q \in Seq(Seq(Pieces)) /\ Q1 = Append(Q, e)
  OBVIOUS
<1>2. /\ Len(Q) \in Nat /\ DOMAIN Q = 1 .. Len(Q) /\ DOMAIN Q1 = 1 .. Len(Q) + 1
      /\ Q1[Len(Q) + 1] = e /\ \A k \in DOMAIN Q : Q1[k] = Q[k]
  <2> DEFINE R == Seq(Pieces)
  <2>1. Q \in Seq(R) /\ e \in R
    OBVIOUS
  <2> HIDE DEF R, Q
  <2> QED
    BY <1>1, <2>1
<1>3. \A k \in DOMAIN Q1 : (k \in DOMAIN Q /\ Q1[k] = Q[k]) \/ (k = Len(Q) + 1 /\ Q1[k] = e)
  BY <1>2
<1>4. ASSUME NEW r \in SE!Outs, NEW k \in DOMAIN se_down'[c][r]
      PROVE  \/ k \in DOMAIN se_down[c][r] /\ se_down'[c][r][k] = se_down[c][r][k]
             \/ r = t /\ k = Len(Q) + 1 /\ se_down'[c][r][k] = e
  BY <1>3
<1>5. \A n : Num(n)' = Num(n) /\ (IsReply(c, n)' <=> IsReply(c, n))
  BY DEF Num, IsReply, Portion
<1>6. DownInv(c)'
  <2> SUFFICES ASSUME NEW r \in SE!Outs, NEW k \in DOMAIN se_down'[c][r]
               PROVE  /\ IsReply(c, se_down'[c][r][k])
                      /\ Twice => r = Dest(Num(se_down'[c][r][k]) \div 2)
    BY <1>s, <1>5 DEF DownInv, IsReply, Portion, Num
  <2> QED
    BY <1>4 DEF DownInv
<1>7. \A n \in Replied(c)' : n \in Replied(c) \/ n = Num(e)
  <2> SUFFICES ASSUME NEW n \in Replied(c)' PROVE n \in Replied(c) \/ n = Num(e)
    OBVIOUS
  <2>1. PICK r \in SE!Outs : \E k \in DOMAIN se_down'[c][r] : n = Num(se_down'[c][r][k])
    BY <1>s DEF Replied, Num
  <2>2. PICK k \in DOMAIN se_down'[c][r] : n = Num(se_down'[c][r][k])
    BY <2>1
  <2>3. n \in Nat
    BY DEF Replied
  <2> QED
    BY <1>4, <2>2, <2>3 DEF Replied
<1>8. DownOrder(c)'
  <2> SUFFICES ASSUME NEW r \in SE!Outs, NEW s \in SE!Outs,
                      NEW k \in DOMAIN se_down'[c][r], NEW j \in DOMAIN se_down'[c][s],
                      s # r \/ k < j
               PROVE  Ahead(Num(se_down'[c][r][k]), Num(se_down'[c][s][j]))
    <3>1. \A x, y : Ahead(x, y)' <=> Ahead(x, y)
      BY SctpSameSetup
    <3> QED
      BY <1>s, <3>1 DEF DownOrder, Num
  <2>1. \A n \in DOMAIN se_down[c][r] : Ahead(Num(se_down[c][r][n]), Num(e))
    BY SctpDown
  <2>2. CASE k \in DOMAIN se_down[c][r] /\ j \in DOMAIN se_down[c][s]
    <3>1. se_down'[c][r][k] = se_down[c][r][k]
      <4>1. CASE r = t
        BY <1>2, <2>2, <4>1
      <4>2. CASE r # t
        BY <4>2
      <4> QED
        BY <4>1, <4>2
    <3>2. se_down'[c][s][j] = se_down[c][s][j]
      <4>1. CASE s = t
        BY <1>2, <2>2, <4>1
      <4>2. CASE s # t
        BY <4>2
      <4> QED
        BY <4>1, <4>2
    <3> QED
      BY <2>2, <3>1, <3>2 DEF DownOrder
  <2>3. CASE s = t /\ j = Len(Q) + 1 /\ k \in DOMAIN se_down[c][r]
    BY <1>2, <1>4, <2>1, <2>3
  <2>4. CASE r = t /\ k = Len(Q) + 1 /\ s # t
    <3>1. /\ j \in DOMAIN se_down[c][s] /\ se_down'[c][s][j] = se_down[c][s][j]
          /\ se_down'[c][r][k] = e
      BY <1>2, <2>4
    <3>2. Ahead(Num(se_down[c][s][j]), Num(e))
      BY <3>1, SctpDown
    <3>3. Twice => s = Dest(Num(se_down[c][s][j]) \div 2)
      BY <3>1 DEF DownInv
    <3>4. Ahead(Num(e), Num(se_down[c][s][j]))
      BY <2>4, <3>2, <3>3 DEF Ahead
    <3> QED
      BY <3>1, <3>4
  <2> QED
    BY <1>2, <1>4, <2>2, <2>3, <2>4
<1> QED
  BY <1>6, <1>7, <1>8

\* sctp_get_no_strms: the stream of the reply is the next.
LEMMA SctpIncrements ==
  ASSUME SctpInv, \A d \in Clients : ClientInv(d), SctpSetup', SctpTypes', SctpPlaces', SetupSame,
         SE!IncrementStream
  PROVE  \A d \in Clients : ClientInv(d)'
<1> SUFFICES ASSUME NEW d \in Clients PROVE ClientInv(d)'
  OBVIOUS
<1>i. SctpSetup /\ SctpTypes /\ SctpPlaces /\ ClientInv(d)
  BY DEF SctpInv
<1>1. /\ se_spc = "status" /\ se_spc' \in {"send", "exit"}
      /\ UNCHANGED <<se_buf, se_cliaddr, se_assoc, se_up, se_down, se_cpc, se_line, se_i, se_got>>
  BY DEF SE!IncrementStream, SE!net, SE!cli, SE!ServerQuits
<1>2. QueuesSame(d) /\ PlaceSame(d) /\ (Holds(d)' => Holds(d) /\ se_buf' = se_buf)
  BY <1>1 DEF QueuesSame, PlaceSame, Holds, Holding
<1>3. AssocInv(d)'
  BY <1>i, <1>1, <1>2, SctpSameSetup DEF ClientInv, AssocInv, SetupSame
<1>4. HandInv(d)'
  <2> SUFFICES ASSUME Holds(d)' PROVE HandInv(d)'
    BY DEF HandInv
  <2>1. Holds(d) /\ se_spc' = "send"
    BY <1>1, <1>2 DEF Holds, Holding
  <2> DEFINE id == se_buf[1].id
  <2>2. /\ se_buf = Portion(d, id, Len(se_buf)) /\ id[1] = se_line[d] /\ Len(se_buf) = Parts
        /\ (Twice => se_stream = id[2] \div 2)
    BY <1>i, <1>1, <2>1 DEF ClientInv, HandInv
  <2>3. ASSUME Twice PROVE se_stream' = Dest(id[2] \div 2)
    <3>1. se_version # "serv03" /\ se_version # "srv09"
      BY <1>i, <2>3 DEF SctpSetup, SE!Tried, Twice
    <3>2. se_assoc[se_cliaddr] # "none" /\ se_increment
      BY <1>i, <1>1, <2>1, <3>1 DEF ClientInv, AssocInv, Holds, SctpPlaces
    <3>3. se_stream' = SE!NextStream
      BY <1>1, <3>1, <3>2 DEF SE!IncrementStream, SE!Associated, SE!ServerQuits
    <3> QED
      BY <2>2, <2>3, <3>2, <3>3 DEF SE!NextStream, Dest
  <2>4. Portion(d, id, Len(se_buf))' = Portion(d, id, Len(se_buf))
    BY <1>1 DEF Portion
  <2>5. \A s : Dest(s)' = Dest(s)
    BY SctpSameSetup
  <2>6. Twice' <=> Twice
    BY SctpSameSetup
  <2> QED
    BY <1>1, <2>1, <2>2, <2>3, <2>4, <2>5, <2>6 DEF HandInv
<1> QED
  BY <1>i, <1>1, <1>2, <1>3, <1>4, SctpLet

\* sctp_sendmsg: the reply goes to the end of its stream's queue, if there is one.
LEMMA SctpSends ==
  ASSUME SctpInv, \A d \in Clients : ClientInv(d), SctpSetup', SctpTypes', SctpPlaces', SetupSame,
         SE!Send
  PROVE  \A d \in Clients : ClientInv(d)'
<1> SUFFICES ASSUME NEW d \in Clients PROVE ClientInv(d)'
  OBVIOUS
<1>i. SctpSetup /\ SctpTypes /\ SctpPlaces /\ ClientInv(d) /\ se_cliaddr \in Clients
  BY DEF SctpInv, SctpPlaces, SE!Send, Holding
<1>1. /\ se_spc = "send" /\ se_spc' \in {"recv", "peel", "exit"}
      /\ UNCHANGED <<se_buf, se_cliaddr, se_up, se_cpc, se_line, se_i, se_got>>
  BY DEF SE!Send, SE!cli, SE!ServerQuits
<1>2. /\ PlaceSame(d) /\ ~Holds(d)' /\ se_up'[d] = se_up[d] /\ se_got'[d] = se_got[d]
  BY <1>1 DEF PlaceSame, Holds, Holding
<1>3. AssocInv(d)'
  <2>1. se_assoc'[d] = "none" => se_assoc[d] = "none"
    BY <1>i DEF SE!Send, SctpTypes
  <2> QED
    BY <1>i, <1>2, <2>1, SctpSameSetup DEF ClientInv, AssocInv, SetupSame
<1>4. HandInv(d)'
  BY <1>2 DEF HandInv
<1>5. CASE se_down'[d] = se_down[d]
  <2>1. QueuesSame(d)
    BY <1>2, <1>5 DEF QueuesSame
  <2> QED
    BY <1>i, <1>1, <1>2, <1>3, <1>4, <2>1, SctpLet
<1>6. CASE se_down'[d] # se_down[d]
  <2> DEFINE t == se_stream  e == se_buf
  <2>1. /\ d = se_cliaddr /\ t \in SE!Outs /\ Holds(d)
        /\ se_down' = [se_down EXCEPT ![se_cliaddr][se_stream] = Append(@, se_buf)]
    <3>1. se_down \in [Clients -> [SE!Outs -> Seq(Seq(Pieces))]] /\ se_stream \in Nat
          /\ SE!Outstrms \in Nat
      BY <1>i, SctpSizes DEF SctpTypes
    <3>2. se_down' = [se_down EXCEPT ![se_cliaddr][se_stream] = Append(@, se_buf)]
          /\ ~(se_stream >= SE!Outstrms)
      BY <1>6 DEF SE!Send
    <3>3. d = se_cliaddr
      BY <1>6, <3>1, <3>2
    <3> QED
      BY <1>1, <3>1, <3>2, <3>3 DEF SE!Outs, Holds, Holding
  <2>2. /\ se_down[d] \in [SE!Outs -> Seq(Seq(Pieces))] /\ e \in Seq(Pieces) /\ e # <<>>
        /\ se_down'[d][t] = Append(se_down[d][t], e)
        /\ \A r \in SE!Outs \ {t} : se_down'[d][r] = se_down[d][r]
    <3>1. se_down \in [Clients -> [SE!Outs -> Seq(Seq(Pieces))]]
      BY <1>i DEF SctpTypes
    <3>2. e \in Seq(Pieces) /\ e # <<>>
      BY <1>i, <1>1 DEF SctpTypes, SctpPlaces, Holding
    <3> HIDE DEF SE!Outs
    <3> QED
      BY <2>1, <3>1, <3>2
  <2>3. /\ IsReply(d, e) /\ (Twice => t = Dest(Num(e) \div 2)) /\ Num(e) \in Nat
    <3>1. /\ e = Portion(d, e[1].id, Len(e)) /\ e[1].id[1] = se_line[d] /\ Len(e) = Parts
          /\ (Twice => se_stream = Dest(e[1].id[2] \div 2))
      BY <1>i, <1>1, <2>1 DEF ClientInv, HandInv
    <3>2. e[1] \in Pieces
      BY <2>2
    <3> QED
      BY <3>1, <3>2 DEF IsReply, Num, Pieces, Ids
  <2>4. Num(e) \in InHand(d)
    BY <2>1, <2>3 DEF InHand
  <2>5. /\ \A n \in Unread(d) \cup InHand(d) \cup Replied(d) \cup Got(d) : n < Bound(d)
        /\ \A n \in InHand(d), r \in Unread(d) : Ahead(n, r)
        /\ \A n \in Replied(d), r \in InHand(d) \cup Unread(d) : Ahead(n, r)
        /\ \A n \in Got(d), r \in Replied(d) \cup InHand(d) \cup Unread(d) : Ahead(n, r)
    BY <1>i DEF ClientInv, Chain
  <2>6. /\ DownInv(d)' /\ DownOrder(d)'
        /\ \A n \in Replied(d)' : n \in Replied(d) \/ n = Num(e)
    <3>1. \A n \in Replied(d) : Ahead(n, Num(e))
      BY <2>4, <2>5
    <3>2. DownInv(d) /\ DownOrder(d) /\ se_line'[d] = se_line[d]
      BY <1>i, <1>2 DEF ClientInv, PlaceSame
    <3> HIDE DEF t, e
    <3> QED
      BY <2>1, <2>2, <2>3, <3>1, <3>2, SctpReplies
  <2> USE SctpSameSetup DEF PlaceSame
  <2>7. UpInv(d)'
    BY <1>i, <1>1, <1>2 DEF ClientInv, UpInv, SetupSame
  <2>8. GotInv(d)' /\ GotOrder(d)'
    BY <1>i, <1>2 DEF ClientInv, GotInv, GotOrder, IsReply, Portion, Num
  <2>9. UpOrder(d)'
    BY <1>i, <1>2 DEF ClientInv, UpOrder
  <2>10. Chain(d)'
    <3>1. Unread(d)' = Unread(d) /\ InHand(d)' = {} /\ Got(d)' = Got(d) /\ Bound(d)' = Bound(d)
      BY <1>2 DEF Unread, InHand, Got, Bound, Num
    <3> QED
      BY <2>4, <2>5, <2>6, <3>1 DEF Chain
  <2>11. QuietInv(d)'
    BY <1>i, <1>2, <2>1 DEF ClientInv, QuietInv
  <2> QED
    BY <1>3, <1>4, <2>6, <2>7, <2>8, <2>9, <2>10, <2>11 DEF ClientInv
<1> QED
  BY <1>5, <1>6

\* A client's messages after recvmsg took n pieces of the first on stream s: from
\* where each came, and how far it is from its end.
LEMMA SctpShift ==
  ASSUME SctpTypes, NEW c \in Clients, NEW s \in SE!Lanes, SE!Waiting(c, s),
         NEW n \in 1 .. Head(se_up[c][s]).left, se_up' = SE!Taken(c, s, n),
         NEW r \in SE!Lanes, NEW k \in DOMAIN se_up'[c][r]
  PROVE  LET m == Head(se_up[c][s])
             j == IF r = s /\ n = m.left THEN k + 1 ELSE k
         IN  /\ k \in Nat \ {0} /\ j \in DOMAIN se_up[c][r] /\ j \in Nat
             /\ se_up'[c][r][k].id = se_up[c][r][j].id
             /\ se_up'[c][r][k].stream = se_up[c][r][j].stream
             /\ se_up'[c][r][k].left = (IF r = s /\ k = 1 /\ n # m.left THEN m.left - n
                                        ELSE se_up[c][r][j].left)
<1> DEFINE m == Head(se_up[c][s])  q == se_up'[c][s]
<1>1. /\ m \in Messages /\ 1 \in DOMAIN se_up[c][s] /\ m = se_up[c][s][1]
      /\ \A x \in SE!Lanes \ {s} : se_up'[c][x] = se_up[c][x]
      /\ n = m.left => \A x \in DOMAIN q : x + 1 \in DOMAIN se_up[c][s] /\ x \in Nat \ {0}
                                           /\ q[x] = se_up[c][s][x + 1]
      /\ n # m.left => /\ DOMAIN q = DOMAIN se_up[c][s]
                       /\ q[1] = [m EXCEPT !.left = m.left - n]
                       /\ \A x \in DOMAIN q \ {1} : q[x] = se_up[c][s][x]
  BY SctpTaken
<1>2. se_up[c][r] \in Seq(Messages) /\ DOMAIN se_up[c][r] \subseteq Nat \ {0}
  BY DEF SctpTypes
<1>3. CASE r # s
  BY <1>1, <1>2, <1>3
<1>4. CASE r = s /\ n = m.left
  BY <1>1, <1>2, <1>4
<1>5. CASE r = s /\ n # m.left /\ k # 1
  BY <1>1, <1>2, <1>5
<1>6. CASE r = s /\ n # m.left /\ k = 1
  <2>1. /\ [m EXCEPT !.left = m.left - n].id = m.id
        /\ [m EXCEPT !.left = m.left - n].stream = m.stream
        /\ [m EXCEPT !.left = m.left - n].left = m.left - n
    <3> HIDE DEF m
    <3> QED
      BY <1>1 DEF Messages
  <2>2. /\ se_up'[c][s][1].id = m.id /\ se_up'[c][s][1].stream = m.stream
        /\ se_up'[c][s][1].left = m.left - n
    BY <1>1, <1>6, <2>1
  <2> QED
    BY <1>1, <1>2, <1>6, <2>2
<1> QED
  BY <1>3, <1>4, <1>5, <1>6

\* So they keep their order, and what is left is later than what was taken.
LEMMA SctpMoves ==
  ASSUME SctpTypes, SetupSame, NEW c \in Clients, UpInv(c), UpOrder(c), NEW s \in SE!Lanes,
         SE!Waiting(c, s), NEW n \in 1 .. Head(se_up[c][s]).left,
         se_up' = SE!Taken(c, s, n), se_line'[c] = se_line[c]
  PROVE  LET m == Head(se_up[c][s]) IN
         /\ UpOrder(c)' /\ Unread(c)' \subseteq Unread(c)
         /\ m.left = Parts => m.id[2] \in Unread(c) /\ \A x \in Unread(c)' : Ahead(m.id[2], x)
         /\ \A r \in SE!Lanes : \A k \in DOMAIN se_up'[c][r] : LET x == se_up'[c][r][k] IN
              /\ x.id[1] = se_line[c] /\ (Twice => x.stream = r /\ r = x.id[2] \div 2)
              /\ x.left # Parts /\ ~(r = s /\ k = 1 /\ n # m.left) =>
                   \E j \in DOMAIN se_up[c][r] :
                      x.id = se_up[c][r][j].id /\ se_up[c][r][j].left # Parts
                      /\ (r = s => j > 1)
         /\ n # m.left => SE!Begun(c, s)' /\ Head(se_up'[c][s]).id = m.id
                          /\ \A k \in DOMAIN se_up'[c][s] : k = 1 =>
                               se_up'[c][s][k].id = m.id /\ se_up'[c][s][k].left = m.left - n
<1> DEFINE m == Head(se_up[c][s])
           J(r, k) == IF r = s /\ n = m.left THEN k + 1 ELSE k
<1>s. /\ SE!Lanes' = SE!Lanes /\ (Twice' <=> Twice)
      /\ \A a, b : Ahead(a, b)' <=> Ahead(a, b)
  BY SctpSameSetup
<1>1. /\ m \in Messages /\ 1 \in DOMAIN se_up[c][s] /\ m = se_up[c][s][1]
      /\ n # m.left => DOMAIN se_up'[c][s] = DOMAIN se_up[c][s]
      /\ se_up' \in [Clients -> [SE!Lanes -> Seq(Messages)]]
  <2> DEFINE q == se_up'[c][s]
  <2>1. /\ m \in Messages /\ 1 \in DOMAIN se_up[c][s] /\ m = se_up[c][s][1]
        /\ \A x \in SE!Lanes \ {s} : se_up'[c][x] = se_up[c][x]
        /\ n = m.left => \A x \in DOMAIN q : x + 1 \in DOMAIN se_up[c][s] /\ x \in Nat \ {0}
                                             /\ q[x] = se_up[c][s][x + 1]
        /\ n # m.left => /\ DOMAIN q = DOMAIN se_up[c][s]
                         /\ q[1] = [m EXCEPT !.left = m.left - n]
                         /\ \A x \in DOMAIN q \ {1} : q[x] = se_up[c][s][x]
    BY SctpTaken
  <2>2. se_up' \in [Clients -> [SE!Lanes -> Seq(Messages)]]
    BY SctpTaken
  <2> QED
    BY <2>1, <2>2
<1>2. m.left \in 1 .. Parts /\ n \in Nat \ {0} /\ Parts \in Nat /\ n <= m.left /\ m.id[2] \in Nat
  <2>1. m \in Messages /\ n \in 1 .. m.left
    BY <1>1
  <2> HIDE DEF m
  <2> QED
    BY <2>1, SctpSizes DEF Messages, Ids
<1>3. ASSUME NEW r \in SE!Lanes, NEW k \in DOMAIN se_up'[c][r]
      PROVE  /\ k \in Nat \ {0} /\ J(r, k) \in DOMAIN se_up[c][r] /\ J(r, k) \in Nat
             /\ se_up'[c][r][k].id = se_up[c][r][J(r, k)].id
             /\ se_up'[c][r][k].stream = se_up[c][r][J(r, k)].stream
             /\ se_up'[c][r][k].left = (IF r = s /\ k = 1 /\ n # m.left THEN m.left - n
                                        ELSE se_up[c][r][J(r, k)].left)
  BY SctpShift
<1>4. UpOrder(c)'
  <2> SUFFICES ASSUME NEW r \in SE!Lanes, NEW t \in SE!Lanes, NEW k \in DOMAIN se_up'[c][r],
                      NEW j \in DOMAIN se_up'[c][t], t # r \/ k < j
               PROVE  Ahead(se_up'[c][r][k].id[2], se_up'[c][t][j].id[2])
    BY <1>s DEF UpOrder, Ahead
  <2>1. /\ J(r, k) \in DOMAIN se_up[c][r] /\ J(t, j) \in DOMAIN se_up[c][t]
        /\ se_up'[c][r][k].id = se_up[c][r][J(r, k)].id
        /\ se_up'[c][t][j].id = se_up[c][t][J(t, j)].id
    BY <1>3
  <2>2. t # r \/ J(r, k) < J(t, j)
    <3>1. k \in Nat /\ j \in Nat
      BY <1>3
    <3> QED
      BY <3>1
  <2> HIDE DEF J
  <2> QED
    BY <2>1, <2>2 DEF UpOrder
<1>5. ASSUME NEW x \in Unread(c)'
      PROVE  x \in Unread(c) /\ (m.left = Parts => Ahead(m.id[2], x))
  <2>1. PICK r \in SE!Lanes : \E k \in DOMAIN se_up'[c][r] :
               se_up'[c][r][k].left = Parts /\ x = se_up'[c][r][k].id[2]
    BY <1>s DEF Unread
  <2>2. PICK k \in DOMAIN se_up'[c][r] :
               se_up'[c][r][k].left = Parts /\ x = se_up'[c][r][k].id[2]
    BY <2>1
  <2>3. /\ k \in Nat \ {0} /\ J(r, k) \in DOMAIN se_up[c][r] /\ J(r, k) \in Nat
        /\ x = se_up[c][r][J(r, k)].id[2]
        /\ se_up'[c][r][k].left = (IF r = s /\ k = 1 /\ n # m.left THEN m.left - n
                                        ELSE se_up[c][r][J(r, k)].left)
    BY <1>3, <2>2
  <2>4. ~(r = s /\ k = 1 /\ n # m.left)
    <3>1. m.left - n # Parts
      <4> HIDE DEF m
      <4> QED
        BY <1>2
    <3> HIDE DEF m, J
    <3> QED
      BY <2>2, <2>3, <3>1
  <2>5. se_up[c][r][J(r, k)].left = Parts /\ (r # s \/ 1 < J(r, k))
    <3> HIDE DEF m
    <3> QED
      BY <1>2, <2>2, <2>3, <2>4
  <2>6. x \in Unread(c)
    <3>1. x \in Nat
      BY DEF Unread
    <3> HIDE DEF J
    <3> QED
      BY <2>3, <2>5, <3>1 DEF Unread
  <2>7. Ahead(m.id[2], x)
    <3> HIDE DEF J, m
    <3> QED
      BY <1>1, <2>3, <2>5 DEF UpOrder
  <2> QED
    BY <2>6, <2>7
<1>6. m.left = Parts => m.id[2] \in Unread(c)
  <2> HIDE DEF m
  <2> QED
    BY <1>1, <1>2 DEF Unread
<1>7. ASSUME NEW r \in SE!Lanes, NEW k \in DOMAIN se_up'[c][r]
      PROVE  LET x == se_up'[c][r][k] IN
              /\ x.id[1] = se_line[c] /\ (Twice => x.stream = r /\ r = x.id[2] \div 2)
              /\ x.left # Parts /\ ~(r = s /\ k = 1 /\ n # m.left) =>
                   \E j \in DOMAIN se_up[c][r] :
                      x.id = se_up[c][r][j].id /\ se_up[c][r][j].left # Parts
                      /\ (r = s => j > 1)
  <2> DEFINE j == J(r, k)  x == se_up'[c][r][k]
  <2>1. /\ k \in Nat \ {0} /\ j \in DOMAIN se_up[c][r] /\ j \in Nat
        /\ x.id = se_up[c][r][j].id /\ x.stream = se_up[c][r][j].stream
        /\ x.left = (IF r = s /\ k = 1 /\ n # m.left THEN m.left - n
                     ELSE se_up[c][r][j].left)
    BY <1>3
  <2>2. x.id[1] = se_line[c] /\ (Twice => x.stream = r /\ r = x.id[2] \div 2)
    <3> HIDE DEF j
    <3> QED
      BY <2>1 DEF UpInv
  <2>3. r = s => j > 1 \/ (k = 1 /\ n # m.left)
    <3> HIDE DEF m
    <3> QED
      BY <2>1
  <2> HIDE DEF j, m
  <2> QED
    BY <2>1, <2>2, <2>3
<1>8. n # m.left => SE!Begun(c, s)' /\ Head(se_up'[c][s]).id = m.id
                    /\ \A k \in DOMAIN se_up'[c][s] : k = 1 =>
                         se_up'[c][s][k].id = m.id /\ se_up'[c][s][k].left = m.left - n
  <2> SUFFICES ASSUME n # m.left
               PROVE  SE!Begun(c, s)' /\ Head(se_up'[c][s]).id = m.id
                    /\ \A k \in DOMAIN se_up'[c][s] : k = 1 =>
                         se_up'[c][s][k].id = m.id /\ se_up'[c][s][k].left = m.left - n
    OBVIOUS
  <2>1. se_up'[c][s] \in Seq(Messages)
    BY <1>1
  <2>2. 1 \in DOMAIN se_up'[c][s] /\ se_up'[c][s] # <<>> /\ Head(se_up'[c][s]) = se_up'[c][s][1]
    BY <1>1, <2>1
  <2>3. J(s, 1) = 1
    OBVIOUS
  <2>4. se_up'[c][s][1].id = se_up[c][s][1].id /\ se_up'[c][s][1].left = m.left - n
    BY <1>3, <2>2, <2>3
  <2> HIDE DEF m
  <2> QED
    BY <1>1, <1>2, <2>2, <2>4 DEF SE!Begun, SE!Waiting
<1> QED
  BY <1>4, <1>5, <1>6, <1>7, <1>8

\* What recvmsg returns.
LEMMA SctpFirst ==
  ASSUME SctpTypes, NEW c \in Clients, NEW s \in SE!Lanes, SE!Waiting(c, s),
         NEW n \in 1 .. Head(se_up[c][s]).left
  PROVE  LET m == Head(se_up[c][s]) IN
         /\ m \in Messages /\ 1 \in DOMAIN se_up[c][s] /\ m = se_up[c][s][1]
         /\ SE!Piece(c, s, n) = [k \in 1 .. n |->
              [from |-> c, id |-> m.id, part |-> Parts - m.left + k]]
         /\ SE!Piece(c, s, n) \in Seq(Pieces) /\ Len(SE!Piece(c, s, n)) = n
         /\ \A d \in Clients \ {c} : SE!Taken(c, s, n)[d] = se_up[d]
<1> DEFINE m == Head(se_up[c][s])
<1>1. m \in Messages /\ 1 \in DOMAIN se_up[c][s] /\ m = se_up[c][s][1]
  BY DEF SctpTypes, SE!Waiting
<1>2. SE!Piece(c, s, n) = [k \in 1 .. n |-> [from |-> c, id |-> m.id, part |-> Parts - m.left + k]]
  BY DEF SE!Piece
<1>3. SE!Piece(c, s, n) \in Seq(Pieces) /\ Len(SE!Piece(c, s, n)) = n
  BY SctpTaken
<1>4. \A d \in Clients \ {c} : SE!Taken(c, s, n)[d] = se_up[d]
  BY DEF SctpTypes, SE!Taken
<1> QED
  BY <1>1, <1>2, <1>3, <1>4

\* A client of whose messages the server has read one, or more of one.
LEMMA SctpHands ==
  ASSUME NEW c \in Clients, ClientInv(c), SetupSame, PlaceSame(c), se_assoc'[c] = se_assoc[c],
         se_down'[c] = se_down[c], se_got'[c] = se_got[c],
         \E s \in SE!Lanes : se_up[c][s] # <<>>,
         UpInv(c)', HandInv(c)', UpOrder(c)', Unread(c)' \subseteq Unread(c),
         \A x \in InHand(c)' : x \in Unread(c) \cup InHand(c) /\ \A y \in Unread(c)' : Ahead(x, y)
  PROVE  ClientInv(c)'
<1> USE SctpSameSetup DEF PlaceSame
<1>1. DownInv(c)' /\ GotInv(c)'
  <2>1. DownInv(c) /\ GotInv(c)
    BY DEF ClientInv
  <2>2. DownInv(c)'
    BY <2>1 DEF DownInv, IsReply, Portion, Num
  <2>3. GotInv(c)'
    <3>1. \A e : IsReply(c, e)' <=> IsReply(c, e)
      BY DEF IsReply, Portion
    <3> QED
      BY <2>1, <3>1 DEF GotInv
  <2> QED
    BY <2>2, <2>3
<1>2. DownOrder(c)' /\ GotOrder(c)'
  BY DEF ClientInv, DownOrder, GotOrder, Num
<1>3. Replied(c)' = Replied(c) /\ Got(c)' = Got(c) /\ Bound(c)' = Bound(c)
  BY DEF Replied, Got, Bound, Num
<1>4. Chain(c)'
  BY <1>3 DEF ClientInv, Chain
<1>5. QuietInv(c)'
  BY DEF ClientInv, QuietInv
<1>6. AssocInv(c)'
  BY DEF ClientInv, AssocInv, SetupSame
<1> QED
  BY <1>1, <1>2, <1>4, <1>5, <1>6 DEF ClientInv

\* recvmsg, of a message that nobody has begun: whole, or its first pieces.
LEMMA SctpRecvs ==
  ASSUME SctpInv, \A d \in Clients : ClientInv(d), SctpSetup', SctpTypes', SctpPlaces', SetupSame,
         SE!Recv, SE!Undisturbed'
  PROVE  \A d \in Clients : ClientInv(d)'
<1> SUFFICES ASSUME NEW d \in Clients PROVE ClientInv(d)'
  OBVIOUS
<1>i. SctpSetup /\ SctpTypes /\ SctpPlaces /\ ClientInv(d)
  BY DEF SctpInv
<1>1. /\ se_spc = "recv"
      /\ UNCHANGED <<se_assoc, se_down, se_cpc, se_line, se_i, se_got>>
  BY DEF SE!Recv, SE!cli
<1>2. PICK c \in Clients, s \in SE!Lanes, n \in Nat :
           /\ Takes(c, s, n)
           /\ se_buf' = SE!Piece(c, s, n) /\ se_cliaddr' = c
           /\ se_stream' = Head(se_up[c][s]).stream
           /\ se_split' = (se_split \/ (Len(se_buf') < Parts /\ ~SE!Reassembles))
  BY <1>i, SctpReceives, Zenon
<1>3. /\ SE!Waiting(c, s) /\ n \in 1 .. Head(se_up[c][s]).left
      /\ se_up' = SE!Taken(c, s, n) /\ se_spc' = SE!AfterRecv(n = Head(se_up[c][s]).left)
  BY <1>2 DEF Takes
<1>4. ~Holds(d)
  BY <1>1 DEF Holds, Holding
<1>5. PlaceSame(d)
  BY <1>1 DEF PlaceSame
<1>6. CASE d # c
  <2>1. se_up'[d] = se_up[d]
    <3>1. /\ SctpTypes /\ SE!Waiting(c, s) /\ n \in 1 .. Head(se_up[c][s]).left
      BY <1>3, <1>i
    <3>2. \A x \in Clients \ {c} : SE!Taken(c, s, n)[x] = se_up[x]
      BY <3>1, SctpFirst
    <3> QED
      BY <1>3, <1>6, <3>2
  <2>2. QueuesSame(d) /\ HandSame(d)
    BY <1>1, <1>2, <1>4, <1>6, <2>1 DEF QueuesSame, HandSame, Holds
  <2>3. AssocInv(d)'
    BY <1>i, <1>1, <1>2, <1>6, <2>1, SctpSameSetup DEF ClientInv, AssocInv, SetupSame, Holds
  <2> QED
    BY <1>i, <1>5, <2>2, <2>3, SctpFrame
<1>7. CASE d = c
  <2> DEFINE m == Head(se_up[c][s])
  <2>1. /\ m \in Messages /\ 1 \in DOMAIN se_up[c][s] /\ m = se_up[c][s][1]
        /\ se_buf' = [k \in 1 .. n |-> [from |-> c, id |-> m.id, part |-> Parts - m.left + k]]
        /\ Len(se_buf') = n
    <3>1. /\ SctpTypes /\ SE!Waiting(c, s) /\ n \in 1 .. Head(se_up[c][s]).left
      BY <1>3, <1>i
    <3> QED
      BY <1>2, <3>1, SctpFirst
  <2>2. UpInv(c) /\ UpOrder(c) /\ HandInv(c)
    BY <1>i, <1>7 DEF ClientInv
  <2>3. m.left = Parts
    <3> HIDE DEF m
    <3> QED
      BY <1>1, <2>1, <2>2 DEF UpInv
  <2>4. m.id[1] = se_line[c] /\ (Twice => m.stream = s /\ s = m.id[2] \div 2)
    <3> HIDE DEF m
    <3> QED
      BY <2>1, <2>2 DEF UpInv
  <2>5. /\ Parts \in Nat \ {0} /\ n \in 1 .. Parts
    <3> HIDE DEF m
    <3> QED
      BY <1>3, <2>3, SctpSizes DEF m
  <2>6. /\ se_buf' = [k \in 1 .. n |-> [from |-> c, id |-> m.id, part |-> k]]
        /\ se_buf'[1].id = m.id
    <3>1. \A k \in 1 .. n : Parts - m.left + k = k
      BY <2>3, <2>5
    <3> HIDE DEF m
    <3> QED
      BY <2>1, <2>5, <3>1
  <2>7. SE!Reassembles \/ n = Parts
    <3>1. Len(se_buf') < Parts /\ ~SE!Reassembles => se_split'
      BY <1>2
    <3> QED
      BY <2>1, <2>5, <3>1 DEF SE!Undisturbed
  <2>8. se_spc' = (IF n # Parts THEN "more" ELSE IF se_increment THEN "status" ELSE "send")
    <3> HIDE DEF m
    <3> QED
      BY <1>3, <2>3, <2>7 DEF SE!AfterRecv, m
  <2>9. Holds(c)'
    BY <1>2, <2>8 DEF Holds, Holding
  <2>10. /\ UpOrder(c)' /\ Unread(c)' \subseteq Unread(c)
         /\ m.id[2] \in Unread(c) /\ \A x \in Unread(c)' : Ahead(m.id[2], x)
         /\ \A r \in SE!Lanes : \A k \in DOMAIN se_up'[c][r] : LET x == se_up'[c][r][k] IN
              /\ x.id[1] = se_line[c] /\ (Twice => x.stream = r /\ r = x.id[2] \div 2)
              /\ x.left # Parts /\ ~(r = s /\ k = 1 /\ n # m.left) =>
                   \E j \in DOMAIN se_up[c][r] :
                      x.id = se_up[c][r][j].id /\ se_up[c][r][j].left # Parts
                      /\ (r = s => j > 1)
         /\ n # m.left => SE!Begun(c, s)' /\ Head(se_up'[c][s]).id = m.id
                          /\ \A k \in DOMAIN se_up'[c][s] : k = 1 =>
                               se_up'[c][s][k].id = m.id /\ se_up'[c][s][k].left = m.left - n
    <3>1. se_line'[c] = se_line[c]
      BY <1>1
    <3> QED
      BY <1>i, <1>3, <2>2, <2>3, <3>1, SctpMoves
  <2> HIDE DEF m
  <2>11. UpInv(c)'
    <3> SUFFICES ASSUME NEW r \in SE!Lanes, NEW k \in DOMAIN se_up'[c][r]
                 PROVE  LET x == se_up'[c][r][k] IN
                        /\ x.id[1] = se_line'[c] /\ (Twice' => x.stream = r /\ r = x.id[2] \div 2)
                        /\ x.left # Parts =>
                             k = 1 /\ Holds(c)' /\ se_spc' = "more" /\ x.id = se_buf'[1].id
                             /\ Len(se_buf') = Parts - x.left
      BY SctpSameSetup DEF UpInv
    <3> DEFINE x == se_up'[c][r][k]
    <3>1. /\ x.id[1] = se_line[c] /\ (Twice => x.stream = r /\ r = x.id[2] \div 2)
          /\ x.left # Parts /\ ~(r = s /\ k = 1 /\ n # m.left) =>
                   \E j \in DOMAIN se_up[c][r] :
                      x.id = se_up[c][r][j].id /\ se_up[c][r][j].left # Parts
      BY <2>10
    <3>2. \A j \in DOMAIN se_up[c][r] : se_up[c][r][j].left = Parts
      BY <1>1, <2>2 DEF UpInv
    <3>3. x.left # Parts => r = s /\ k = 1 /\ n # m.left
      BY <3>1, <3>2
    <3>4. x.left # Parts => x.id = m.id /\ x.left = m.left - n /\ n # m.left
      BY <3>3, <2>10
    <3>5. Twice' <=> Twice
      BY SctpSameSetup
    <3> HIDE DEF x
    <3>6. x.left # Parts => Parts - x.left = n
      BY <3>4, <2>3, <2>5
    <3> QED
      BY <1>1, <2>1, <2>3, <2>6, <2>8, <2>9, <3>1, <3>3, <3>4, <3>5, <3>6 DEF x
  <2>12. HandInv(c)'
    <3>1. se_buf' = Portion(c, se_buf'[1].id, Len(se_buf'))
      BY <2>1, <2>6 DEF Portion
    <3>2. se_spc' # "more" => Len(se_buf') = Parts
      BY <2>1, <2>8
    <3>3. se_spc' = "more" => \E r \in SE!Lanes : SE!Begun(c, r)'
      BY <2>3, <2>8, <2>10
    <3>4. Twice => se_stream' = (IF se_spc' = "send" THEN Dest(m.id[2] \div 2) ELSE m.id[2] \div 2)
      BY <1>2, <2>4, <2>8 DEF Dest, m
    <3>5. Portion(c, se_buf'[1].id, Len(se_buf')) = Portion(c, se_buf[1].id, Len(se_buf))'
      BY DEF Portion
    <3> QED
      BY <1>1, <2>4, <2>6, <3>1, <3>2, <3>3, <3>4, <3>5, SctpSameSetup DEF HandInv
  <2>13. \A x \in InHand(c)' : x \in Unread(c) /\ \A y \in Unread(c)' : Ahead(x, y)
    BY <2>6, <2>10 DEF InHand, Num
  <2>14. se_assoc'[c] = se_assoc[c] /\ se_down'[c] = se_down[c] /\ se_got'[c] = se_got[c]
         /\ \E r \in SE!Lanes : se_up[c][r] # <<>>
    BY <1>1, <1>3 DEF SE!Waiting
  <2> QED
    BY <1>i, <1>5, <1>7, <2>10, <2>11, <2>12, <2>13, <2>14, SctpHands
<1> QED
  BY <1>6, <1>7

\* The next pieces of a message make a longer first part of it.
Further(c, id, l, n) == [k \in 1 .. n |-> [from |-> c, id |-> id, part |-> l + k]]
LEMMA SctpJoin ==
  ASSUME NEW c, NEW id, NEW l \in Nat \ {0}, NEW n \in Nat \ {0}
  PROVE  LET J == Portion(c, id, l) \o Further(c, id, l, n)
         IN  J = Portion(c, id, l + n) /\ Len(J) = l + n /\ J[1] = Portion(c, id, l)[1]
<1> DEFINE S == [from : {c}, id : {id}, part : Nat]
           B == [k \in 1 .. l |-> [from |-> c, id |-> id, part |-> k]]
           F == [k \in 1 .. n |-> [from |-> c, id |-> id, part |-> l + k]]
           G == [k \in 1 .. l + n |-> [from |-> c, id |-> id, part |-> k]]
<1>1. B \in Seq(S) /\ Len(B) = l /\ F \in Seq(S) /\ Len(F) = n
  OBVIOUS
<1>2. G \in Seq(S) /\ Len(G) = l + n
  OBVIOUS
<1>3. \A k \in 1 .. l : B[k] = [from |-> c, id |-> id, part |-> k]
  OBVIOUS
<1>4. \A k \in 1 .. n : F[k] = [from |-> c, id |-> id, part |-> l + k]
  OBVIOUS
<1>5. \A k \in 1 .. l + n : G[k] = [from |-> c, id |-> id, part |-> k]
  OBVIOUS
<1>6. Portion(c, id, l) = B /\ Portion(c, id, l + n) = G
  BY DEF Portion
<1> HIDE DEF B, F, G, S
<1>7. /\ B \o F \in Seq(S) /\ Len(B \o F) = l + n
      /\ \A k \in 1 .. l + n : (B \o F)[k] = IF k <= l THEN B[k] ELSE F[k - l]
  BY <1>1, ConcatProperties
<1>8. ASSUME NEW k \in 1 .. l + n PROVE (B \o F)[k] = G[k]
  <2>1. CASE k <= l
    <3>1. k \in 1 .. l
      BY <2>1
    <3> QED
      BY <1>3, <1>5, <1>7, <2>1, <3>1
  <2>2. CASE ~(k <= l)
    <3>1. k - l \in 1 .. n /\ l + (k - l) = k
      BY <2>2
    <3> QED
      BY <1>4, <1>5, <1>7, <2>2, <3>1
  <2> QED
    BY <2>1, <2>2
<1>9. B \o F = G
  BY <1>2, <1>7, <1>8, SeqEqual
<1>10. (B \o F)[1] = B[1]
  <2>1. 1 \in 1 .. l + n /\ 1 <= l
    OBVIOUS
  <2> QED
    BY <1>7, <2>1
<1> QED
  BY <1>6, <1>7, <1>9, <1>10 DEF F, Further

\* pdapi_recvmsg: the next pieces of the message the server has begun.
LEMMA SctpRecvsMore ==
  ASSUME SctpInv, \A d \in Clients : ClientInv(d), SctpSetup', SctpTypes', SctpPlaces', SetupSame,
         SE!RecvMore, SE!Undisturbed'
  PROVE  \A d \in Clients : ClientInv(d)'
<1> SUFFICES ASSUME NEW d \in Clients PROVE ClientInv(d)'
  OBVIOUS
<1>i. SctpSetup /\ SctpTypes /\ SctpPlaces /\ ClientInv(d)
  BY DEF SctpInv
<1>1. /\ se_spc = "more" /\ SE!Reassembles /\ se_cliaddr \in Clients /\ se_buf # <<>>
      /\ UNCHANGED <<se_assoc, se_down, se_cpc, se_line, se_i, se_got, se_cliaddr, se_stream>>
  BY <1>i DEF SE!RecvMore, SE!cli, SctpPlaces, Holding
<1>2. PICK c \in Clients, s \in SE!Lanes, n \in Nat :
           /\ Takes(c, s, n)
           /\ se_buf' = se_buf \o SE!Piece(c, s, n)
           /\ se_glued' = (se_glued \/ c # se_buf[1].from
                                    \/ Head(se_up[c][s]).id # se_buf[1].id)
  BY <1>i, SctpReceivesMore, Zenon
<1>3. /\ SE!Waiting(c, s) /\ n \in 1 .. Head(se_up[c][s]).left
      /\ se_up' = SE!Taken(c, s, n) /\ se_spc' = SE!AfterRecv(n = Head(se_up[c][s]).left)
  BY <1>2 DEF Takes
<1>4. c = se_buf[1].from /\ Head(se_up[c][s]).id = se_buf[1].id
  <2>1. c # se_buf[1].from \/ Head(se_up[c][s]).id # se_buf[1].id => se_glued'
    BY ONLY <1>2
  <2> QED
    BY <2>1 DEF SE!Undisturbed
<1>5. se_cliaddr = c /\ Holds(c)
  <2>1. Holds(se_cliaddr) /\ ClientInv(se_cliaddr)
    BY <1>1 DEF Holds, Holding
  <2>2. se_buf = Portion(se_cliaddr, se_buf[1].id, Len(se_buf))
    BY <2>1 DEF ClientInv, HandInv
  <2>3. 1 \in 1 .. Len(se_buf)
    BY <1>i, <1>1 DEF SctpTypes
  <2>4. Portion(se_cliaddr, se_buf[1].id, Len(se_buf))[1].from = se_cliaddr
    BY <2>3 DEF Portion
  <2>5. se_buf[1].from = se_cliaddr
    BY <2>2, <2>4
  <2> QED
    BY <1>4, <2>1, <2>5
<1>6. CASE d # c
  <2>1. se_up'[d] = se_up[d]
    <3>1. /\ SctpTypes /\ SE!Waiting(c, s) /\ n \in 1 .. Head(se_up[c][s]).left
      BY <1>3, <1>i
    <3>2. \A x \in Clients \ {c} : SE!Taken(c, s, n)[x] = se_up[x]
      BY <3>1, SctpFirst
    <3> QED
      BY <1>3, <1>6, <3>2
  <2>2. QueuesSame(d) /\ HandSame(d) /\ PlaceSame(d)
    BY <1>1, <1>5, <1>6, <2>1 DEF QueuesSame, HandSame, Holds, PlaceSame
  <2>3. AssocInv(d)'
    BY <1>i, <1>1, <1>5, <1>6, <2>1, SctpSameSetup DEF ClientInv, AssocInv, SetupSame, Holds
  <2> QED
    BY <1>i, <2>2, <2>3, SctpFrame
<1>7. CASE d = c
  <2> DEFINE m == Head(se_up[c][s])  id == se_buf[1].id  l == Len(se_buf)
  <2>1. /\ m \in Messages /\ 1 \in DOMAIN se_up[c][s] /\ m = se_up[c][s][1] /\ m.id = id
        /\ SE!Piece(c, s, n) =
             [k \in 1 .. n |-> [from |-> c, id |-> m.id, part |-> Parts - m.left + k]]
    <3>1. /\ SctpTypes /\ SE!Waiting(c, s) /\ n \in 1 .. Head(se_up[c][s]).left
      BY <1>3, <1>i
    <3> QED
      BY <1>4, <3>1, SctpFirst
  <2>2. UpInv(c) /\ UpOrder(c) /\ HandInv(c)
    BY <1>i, <1>7 DEF ClientInv
  <2>3. /\ se_buf = Portion(c, id, l) /\ id[1] = se_line[c]
        /\ \E r \in SE!Lanes : SE!Begun(c, r)
        /\ (Twice => se_stream = id[2] \div 2)
    BY <1>1, <1>5, <2>2 DEF HandInv
  <2>4. \A r \in SE!Lanes : \A k \in DOMAIN se_up[c][r] :
          se_up[c][r][k].left # Parts => r = s /\ k = 1 /\ l = Parts - se_up[c][r][k].left
    <3> SUFFICES ASSUME NEW r \in SE!Lanes, NEW k \in DOMAIN se_up[c][r],
                        se_up[c][r][k].left # Parts
                 PROVE  r = s /\ k = 1 /\ l = Parts - se_up[c][r][k].left
      OBVIOUS
    <3>1. k = 1 /\ se_up[c][r][k].id = id /\ l = Parts - se_up[c][r][k].left
      BY <2>2 DEF UpInv
    <3>2. r # s => Ahead(se_up[c][r][k].id[2], se_up[c][s][1].id[2])
      BY <2>1, <2>2 DEF UpOrder
    <3> HIDE DEF m
    <3> QED
      BY <2>1, <3>1, <3>2 DEF Ahead
  <2>5. m.left # Parts
    <3>1. PICK r \in SE!Lanes : SE!Begun(c, r)
      BY <2>3
    <3>2. /\ se_up[c][r] \in Seq(Messages) /\ se_up[c][r] # <<>> /\ Head(se_up[c][r]).left < Parts
      BY <1>i, <3>1 DEF SctpTypes, SE!Begun, SE!Waiting
    <3>3. 1 \in DOMAIN se_up[c][r] /\ Head(se_up[c][r]) = se_up[c][r][1]
      BY <3>2
    <3>4. se_up[c][r][1].left # Parts
      BY <3>2, <3>3, SctpSizes
    <3> QED
      BY <2>4, <3>3, <3>4
  <2>6. l = Parts - m.left
    <3> HIDE DEF m
    <3> QED
      BY <2>1, <2>4, <2>5
  <2>7. /\ Parts \in Nat \ {0} /\ n \in 1 .. m.left /\ m.left \in 1 .. Parts /\ l \in Nat \ {0}
    <3>1. m.left \in 1 .. Parts
      BY <2>1 DEF Messages
    <3> QED
      <4>1. l \in Nat \ {0}
        BY <1>i, <1>1 DEF SctpTypes
      <4>2. n \in 1 .. m.left
        BY <1>3
      <4> HIDE DEF m, l
      <4> QED
        BY <3>1, <4>1, <4>2, SctpSizes
  <2>8. /\ se_buf' = Portion(c, id, l + n) /\ Len(se_buf') = l + n /\ se_buf'[1] = se_buf[1]
    <3>1. se_buf' = Portion(c, id, l) \o Further(c, id, l, n)
      <4>1. se_buf' = se_buf \o SE!Piece(c, s, n)
        BY <1>2
      <4> HIDE DEF m, l, id
      <4>2. SE!Piece(c, s, n) = Further(c, id, l, n)
        BY <2>1, <2>6 DEF Further
      <4> QED
        BY <4>1, <4>2, <2>3
    <3>2. l \in Nat \ {0} /\ n \in Nat \ {0}
      BY <2>7
    <3> HIDE DEF id, l
    <3> QED
      BY <2>3, <3>1, <3>2, SctpJoin
  <2>9. se_spc' = (IF n # m.left THEN "more" ELSE IF se_increment THEN "status" ELSE "send")
    <3> HIDE DEF m
    <3> QED
      BY <1>1, <1>3 DEF SE!AfterRecv, m
  <2>10. Holds(c)'
    BY <1>1, <1>5, <2>9 DEF Holds, Holding
  <2>11. /\ UpOrder(c)' /\ Unread(c)' \subseteq Unread(c)
         /\ \A r \in SE!Lanes : \A k \in DOMAIN se_up'[c][r] : LET x == se_up'[c][r][k] IN
              /\ x.id[1] = se_line[c] /\ (Twice => x.stream = r /\ r = x.id[2] \div 2)
              /\ x.left # Parts /\ ~(r = s /\ k = 1 /\ n # m.left) =>
                   \E j \in DOMAIN se_up[c][r] :
                      x.id = se_up[c][r][j].id /\ se_up[c][r][j].left # Parts
                      /\ (r = s => j > 1)
         /\ n # m.left => SE!Begun(c, s)' /\ Head(se_up'[c][s]).id = m.id
                          /\ \A k \in DOMAIN se_up'[c][s] : k = 1 =>
                               se_up'[c][s][k].id = m.id /\ se_up'[c][s][k].left = m.left - n
    <3>1. se_line'[c] = se_line[c]
      BY <1>1
    <3> QED
      BY <1>i, <1>3, <2>2, <3>1, SctpMoves
  <2> HIDE DEF m, id, l
  <2>12. UpInv(c)'
    <3> SUFFICES ASSUME NEW r \in SE!Lanes, NEW k \in DOMAIN se_up'[c][r]
                 PROVE  LET x == se_up'[c][r][k] IN
                        /\ x.id[1] = se_line'[c] /\ (Twice' => x.stream = r /\ r = x.id[2] \div 2)
                        /\ x.left # Parts =>
                             k = 1 /\ Holds(c)' /\ se_spc' = "more" /\ x.id = se_buf'[1].id
                             /\ Len(se_buf') = Parts - x.left
      BY SctpSameSetup DEF UpInv
    <3> DEFINE x == se_up'[c][r][k]
    <3>1. /\ x.id[1] = se_line[c] /\ (Twice => x.stream = r /\ r = x.id[2] \div 2)
          /\ x.left # Parts /\ ~(r = s /\ k = 1 /\ n # m.left) =>
                   \E j \in DOMAIN se_up[c][r] :
                      x.id = se_up[c][r][j].id /\ se_up[c][r][j].left # Parts
                      /\ (r = s => j > 1)
      BY <2>11
    <3>3. x.left # Parts => r = s /\ k = 1 /\ n # m.left
      BY <2>4, <3>1
    <3>4. x.left # Parts => x.id = m.id /\ x.left = m.left - n /\ n # m.left
      BY <3>3, <2>11
    <3>5. Twice' <=> Twice
      BY SctpSameSetup
    <3> HIDE DEF x
    <3>6. x.left # Parts => Parts - x.left = l + n
      BY <3>4, <2>6, <2>7
    <3> QED
      BY <1>1, <2>1, <2>8, <2>9, <2>10, <3>1, <3>3, <3>4, <3>5, <3>6 DEF x, id
  <2>13. HandInv(c)'
    <3>1. se_buf' = Portion(c, se_buf'[1].id, Len(se_buf'))
      BY <2>8 DEF id
    <3>2. se_spc' # "more" => Len(se_buf') = Parts
      BY <2>6, <2>7, <2>8, <2>9
    <3>3. se_spc' = "more" => \E r \in SE!Lanes : SE!Begun(c, r)'
      BY <2>9, <2>11
    <3>4. Twice => se_stream' = (IF se_spc' = "send" THEN Dest(id[2] \div 2) ELSE id[2] \div 2)
      BY <1>1, <2>3, <2>9 DEF Dest
    <3>5. Portion(c, se_buf'[1].id, Len(se_buf')) = Portion(c, se_buf[1].id, Len(se_buf))'
      BY DEF Portion
    <3>6. se_buf'[1].id[1] = se_line'[c]
      BY <1>1, <2>3, <2>8 DEF id
    <3> QED
      BY <2>8, <3>1, <3>2, <3>3, <3>4, <3>5, <3>6, SctpSameSetup DEF HandInv, id
  <2>14. \A x \in InHand(c)' : x \in InHand(c) /\ \A y \in Unread(c)' : Ahead(x, y)
    <3>1. Chain(c)
      BY <1>i, <1>7 DEF ClientInv
    <3>2. \A x \in InHand(c)' : x \in InHand(c)
      BY <1>5, <2>8 DEF InHand, Num
    <3> QED
      BY <2>11, <3>1, <3>2 DEF Chain
  <2>15. /\ se_assoc'[c] = se_assoc[c] /\ se_down'[c] = se_down[c] /\ se_got'[c] = se_got[c]
         /\ PlaceSame(c) /\ \E r \in SE!Lanes : se_up[c][r] # <<>>
    BY <1>1, <1>3 DEF SE!Waiting, PlaceSame
  <2> QED
    BY <1>i, <1>7, <2>11, <2>12, <2>13, <2>14, <2>15, SctpHands
<1> QED
  BY <1>6, <1>7

\* The child of sctpserv_fork reads a whole message and answers it on stream 0.
LEMMA SctpChildEchoes ==
  ASSUME SctpInv, \A d \in Clients : ClientInv(d), SctpSetup', SctpTypes', SctpPlaces', SetupSame,
         NEW c \in Clients, SE!ChildEcho(c), SE!Undisturbed'
  PROVE  \A d \in Clients : ClientInv(d)'
<1> SUFFICES ASSUME NEW d \in Clients PROVE ClientInv(d)'
  OBVIOUS
<1>i. SctpSetup /\ SctpTypes /\ SctpPlaces /\ ClientInv(d) /\ ClientInv(c)
  BY DEF SctpInv
<1>1. /\ se_version = "fork"
      /\ UNCHANGED <<se_spc, se_cliaddr, se_buf, se_stream, se_assoc, se_cpc, se_line, se_i, se_got>>
  BY <1>i DEF SE!ChildEcho, SE!cli, SctpSetup
<1>2. ~Twice /\ se_spc # "more"
  BY <1>i, <1>1 DEF Twice, SctpPlaces, SE!Reassembles
<1>3. PICK s \in {r \in SE!Lanes : SE!Waiting(c, r)} : \E n \in SE!Sizes(Head(se_up[c][s]), Parts) :
       /\ se_up' = SE!Taken(c, s, n) /\ se_split' = (se_split \/ n < Parts)
       /\ se_down' = [se_down EXCEPT ![c][0] = Append(@, SE!Piece(c, s, n))]
  BY Zenon DEF SE!ChildEcho
<1>4. PICK n \in SE!Sizes(Head(se_up[c][s]), Parts) :
       /\ se_up' = SE!Taken(c, s, n) /\ se_split' = (se_split \/ n < Parts)
       /\ se_down' = [se_down EXCEPT ![c][0] = Append(@, SE!Piece(c, s, n))]
  BY <1>3, Zenon
<1>5. s \in SE!Lanes /\ SE!Waiting(c, s) /\ SctpTypes
  BY <1>i
<1> DEFINE m == Head(se_up[c][s])  e == SE!Piece(c, s, n)
<1>6. n \in 1 .. m.left /\ m \in Messages
  <2>1. m \in Messages
    <3>1. se_up[c][s] \in Seq(Messages) /\ se_up[c][s] # <<>>
      BY <1>5 DEF SctpTypes, SE!Waiting
    <3> QED
      BY <3>1
  <2> HIDE DEF m
  <2> QED
    BY <1>4, <2>1, SctpSome, SctpSizes DEF m
<1>7. /\ 1 \in DOMAIN se_up[c][s] /\ m = se_up[c][s][1]
      /\ e = [k \in 1 .. n |-> [from |-> c, id |-> m.id, part |-> Parts - m.left + k]]
      /\ e \in Seq(Pieces) /\ Len(e) = n
      /\ \A x \in Clients \ {c} : se_up'[x] = se_up[x]
  BY <1>4, <1>5, <1>6, SctpFirst
<1>8. CASE d # c
  <2>1. se_down'[d] = se_down[d]
    BY <1>i, <1>4, <1>8 DEF SctpTypes
  <2>2. QueuesSame(d) /\ HandSame(d) /\ PlaceSame(d)
    BY <1>1, <1>7, <1>8, <2>1 DEF QueuesSame, HandSame, PlaceSame
  <2>3. AssocInv(d)'
    BY <1>i, <1>1, <2>2, SctpSameSetup DEF ClientInv, AssocInv, SetupSame, Holds, QueuesSame
  <2> QED
    BY <1>i, <2>2, <2>3, SctpFrame
<1>9. CASE d = c
  <2>1. UpInv(c) /\ UpOrder(c) /\ HandInv(c) /\ DownInv(c) /\ DownOrder(c) /\ Chain(c) /\ GotInv(c)
        /\ GotOrder(c) /\ AssocInv(c) /\ QuietInv(c)
    BY <1>i DEF ClientInv
  <2>2. \A r \in SE!Lanes : \A k \in DOMAIN se_up[c][r] : se_up[c][r][k].left = Parts
    BY <1>2, <2>1 DEF UpInv
  <2>3. m.left = Parts /\ Parts \in Nat \ {0} /\ n = Parts
    <3>1. m.left = Parts /\ Parts \in Nat \ {0}
      <4> HIDE DEF m
      <4> QED
        BY <1>5, <1>7, <2>2, SctpSizes
    <3>2. n < Parts => se_split'
      BY ONLY <1>4
    <3>3. ~(n < Parts)
      BY <3>2 DEF SE!Undisturbed
    <3> HIDE DEF m
    <3> QED
      BY <1>6, <3>1, <3>3
  <2>4. m.id[1] = se_line[c]
    <3> HIDE DEF m
    <3> QED
      BY <1>5, <1>7, <2>1 DEF UpInv
  <2>5. e = Portion(c, m.id, Parts) /\ e[1].id = m.id /\ e # <<>>
    <3>1. \A k \in 1 .. n : Parts - m.left + k = k
      BY <2>3
    <3>2. 1 \in 1 .. n /\ n # 0
      BY <2>3
    <3> HIDE DEF m, e
    <3> QED
      BY <1>7, <2>3, <3>1, <3>2 DEF Portion
  <2>6. /\ UpOrder(c)' /\ Unread(c)' \subseteq Unread(c)
        /\ m.id[2] \in Unread(c) /\ \A x \in Unread(c)' : Ahead(m.id[2], x)
        /\ \A r \in SE!Lanes : \A k \in DOMAIN se_up'[c][r] : LET x == se_up'[c][r][k] IN
              /\ x.id[1] = se_line[c]
              /\ x.left # Parts /\ ~(r = s /\ k = 1 /\ n # m.left) =>
                   \E j \in DOMAIN se_up[c][r] :
                      x.id = se_up[c][r][j].id /\ se_up[c][r][j].left # Parts
    <3>1. se_line'[c] = se_line[c] /\ se_up' = SE!Taken(c, s, n)
          /\ n \in 1 .. Head(se_up[c][s]).left
      BY <1>1, <1>4, <1>6
    <3> QED
      BY <1>5, <2>1, <2>3, <3>1, SctpMoves
  <2> HIDE DEF m
  <2>7. /\ se_down[c] \in [SE!Outs -> Seq(Seq(Pieces))]
        /\ se_down'[c][0] = Append(se_down[c][0], e)
        /\ \A r \in SE!Outs \ {0} : se_down'[c][r] = se_down[c][r]
    <3>1. se_down \in [Clients -> [SE!Outs -> Seq(Seq(Pieces))]]
      BY <1>i DEF SctpTypes
    <3> HIDE DEF e, SE!Outs
    <3> QED
      BY <1>4, <3>1, SctpSizes DEF e
  <2>8. IsReply(c, e) /\ Num(e) = m.id[2]
    BY <2>4, <2>5 DEF IsReply, Num
  <2>9. /\ DownInv(c)' /\ DownOrder(c)'
        /\ \A x \in Replied(c)' : x \in Replied(c) \/ x = Num(e)
    <3>1. \A x \in Replied(c) : Ahead(x, Num(e))
      BY <2>1, <2>6, <2>8 DEF Chain
    <3>2. 0 \in SE!Outs /\ se_line'[c] = se_line[c] /\ e \in Seq(Pieces)
      BY <1>1, <1>7, SctpSizes
    <3> HIDE DEF e
    <3> QED
      BY <1>2, <2>1, <2>5, <2>7, <2>8, <3>1, <3>2, SctpReplies
  <2> HIDE DEF e
  <2>10. UpInv(c)'
    <3>1. n = m.left
      BY <2>3
    <3>2. \A r \in SE!Lanes : \A k \in DOMAIN se_up'[c][r] :
             se_up'[c][r][k].id[1] = se_line[c] /\ se_up'[c][r][k].left = Parts
      BY <2>2, <2>6, <3>1
    <3> QED
      BY <1>1, <1>2, <3>2, SctpSameSetup DEF UpInv
  <2>11. HandInv(c)'
    <3>1. Holds(c)' <=> Holds(c)
      BY <1>1 DEF Holds
    <3> QED
      BY <1>1, <1>2, <2>1, <3>1, SctpSameSetup DEF HandInv, Portion
  <2>12. GotInv(c)' /\ GotOrder(c)'
    <3>1. \A x : (IsReply(c, x)' <=> IsReply(c, x)) /\ Num(x)' = Num(x)
      BY <1>1 DEF IsReply, Portion, Num
    <3> QED
      BY <1>1, <2>1, <3>1, SctpSameSetup DEF GotInv, GotOrder
  <2>13. Chain(c)'
    <3>1. InHand(c)' = InHand(c) /\ Got(c)' = Got(c) /\ Bound(c)' = Bound(c)
      BY <1>1, SctpSameSetup DEF InHand, Got, Bound, Num, Holds
    <3>2. \A x, y : Ahead(x, y) => Ahead(y, x)
      BY <1>2 DEF Ahead
    <3>3. \A x, y : Ahead(x, y)' <=> Ahead(x, y)
      BY SctpSameSetup
    <3> QED
      BY <2>1, <2>6, <2>8, <2>9, <3>1, <3>2, <3>3 DEF Chain
  <2>14. QuietInv(c)' /\ AssocInv(c)'
    <3>1. se_up[c][s] # <<>>
      BY <1>5 DEF SE!Waiting
    <3> QED
      BY <1>1, <1>5, <2>1, <3>1 DEF QuietInv, AssocInv, SetupSame
  <2> QED
    BY <1>9, <2>6, <2>9, <2>10, <2>11, <2>12, <2>13, <2>14 DEF ClientInv
<1> QED
  BY <1>8, <1>9

\* As many different numbers as there are below a bound are all of them.
LEMMA SctpPigeons ==
  ASSUME NEW N \in Nat \ {0}, NEW f \in [1 .. N -> 0 .. N - 1],
         \A i, j \in 1 .. N : i < j => f[i] # f[j], NEW x \in 0 .. N - 1
  PROVE  \E i \in 1 .. N : f[i] = x
<1>1. /\ IsFiniteSet(1 .. N) /\ Cardinality(1 .. N) = N
      /\ IsFiniteSet(0 .. N - 1) /\ Cardinality(0 .. N - 1) = N
  <2>1. /\ IsFiniteSet(1 .. N) /\ Cardinality(1 .. N) = IF 1 > N THEN 0 ELSE N - 1 + 1
    BY FS_Interval
  <2>2. /\ IsFiniteSet(0 .. N - 1)
        /\ Cardinality(0 .. N - 1) = IF 0 > N - 1 THEN 0 ELSE (N - 1) - 0 + 1
    BY FS_Interval
  <2> QED
    BY <2>1, <2>2
<1> SUFFICES ASSUME \A i \in 1 .. N : f[i] # x PROVE FALSE
  OBVIOUS
<1> DEFINE T == (0 .. N - 1) \ {x}
<1>2. IsFiniteSet(T) /\ Cardinality(T) < Cardinality(1 .. N)
  <2>1. T \in SUBSET (0 .. N - 1) /\ T # 0 .. N - 1
    OBVIOUS
  <2>2. IsFiniteSet(T) /\ Cardinality(T) <= N /\ Cardinality(T) # N
    <3> DEFINE S == 0 .. N - 1
    <3>1. IsFiniteSet(S) /\ Cardinality(S) = N /\ T \in SUBSET S /\ T # S
      BY <1>1, <2>1
    <3> HIDE DEF S, T
    <3>2. IsFiniteSet(T) /\ Cardinality(T) <= Cardinality(S)
      BY <3>1, FS_Subset
    <3>3. Cardinality(S) = Cardinality(T) => S = T
      BY <3>1, FS_Subset
    <3> QED
      BY <3>1, <3>2, <3>3
  <2>3. Cardinality(T) \in Nat
    BY <2>2, FS_CardinalityType
  <2> HIDE DEF T
  <2> QED
    BY <1>1, <2>2, <2>3
<1>3. f \in [1 .. N -> T]
  OBVIOUS
<1>4. \E i, j \in 1 .. N : i # j /\ f[i] = f[j]
  <2> HIDE DEF T
  <2> QED
    BY <1>1, <1>2, <1>3, FS_PigeonHole
<1> QED
  BY <1>4

\* A reply that is read, and those that are not.
LEMMA SctpTakesReply ==
  ASSUME NEW c \in Clients, DownInv(c), DownOrder(c), SetupSame, se_line'[c] = se_line[c],
         se_down[c] \in [SE!Outs -> Seq(Seq(Pieces))],
         NEW t \in SE!Outs, se_down[c][t] # <<>>, se_down'[c][t] = Tail(se_down[c][t]),
         \A r \in SE!Outs \ {t} : se_down'[c][r] = se_down[c][r]
  PROVE  LET e == Head(se_down[c][t]) IN
         /\ DownInv(c)' /\ DownOrder(c)' /\ Replied(c)' \subseteq Replied(c)
         /\ e \in Seq(Pieces) /\ IsReply(c, e) /\ Num(e) \in Replied(c)
         /\ \A n \in Replied(c)' : Ahead(Num(e), n)
<1> DEFINE Q == se_down[c][t]  e == Head(Q)
           J(r, k) == IF r = t THEN k + 1 ELSE k
<1>s. /\ SE!Outs' = SE!Outs /\ (Twice' <=> Twice)
      /\ \A a, b : Ahead(a, b)' <=> Ahead(a, b)
      /\ \A s : Dest(s)' = Dest(s)
  BY SctpSameSetup
<1>1. /\ Len(Q) \in Nat /\ 1 \in DOMAIN Q /\ e = Q[1] /\ DOMAIN Q = 1 .. Len(Q)
      /\ DOMAIN Tail(Q) = 1 .. Len(Q) - 1 /\ \A k \in 1 .. Len(Q) - 1 : Tail(Q)[k] = Q[k + 1]
  <2> DEFINE R == Seq(Pieces)
  <2>1. Q \in Seq(R) /\ Q # <<>>
    OBVIOUS
  <2> HIDE DEF R, Q
  <2> QED
    BY <2>1
<1>2. ASSUME NEW r \in SE!Outs, NEW k \in DOMAIN se_down'[c][r]
      PROVE  /\ k \in Nat \ {0} /\ J(r, k) \in DOMAIN se_down[c][r]
             /\ se_down'[c][r][k] = se_down[c][r][J(r, k)]
  <2>1. CASE r = t
    <3>1. k \in 1 .. Len(Q) - 1
      BY <1>1, <2>1
    <3> QED
      <4>1. k + 1 \in DOMAIN Q /\ k \in Nat \ {0}
        BY <1>1, <3>1
      <4>2. se_down'[c][r][k] = Q[k + 1]
        BY <1>1, <2>1, <3>1
      <4> QED
        BY <2>1, <4>1, <4>2
  <2>2. CASE r # t
    <3>1. se_down[c][r] \in Seq(Seq(Pieces))
      OBVIOUS
    <3>2. DOMAIN se_down[c][r] \subseteq Nat \ {0}
      <4> DEFINE R == Seq(Pieces)
      <4> HIDE DEF R
      <4> QED
        BY <3>1 DEF R
    <3> QED
      BY <2>2, <3>2
  <2> QED
    BY <2>1, <2>2
<1>3. /\ e \in Seq(Pieces) /\ IsReply(c, e) /\ Num(e) \in Replied(c)
  BY <1>1, SctpDown
<1>4. \A n : Num(n)' = Num(n) /\ (IsReply(c, n)' <=> IsReply(c, n))
  BY DEF Num, IsReply, Portion
<1> HIDE DEF J
<1>5. DownInv(c)'
  <2> SUFFICES ASSUME NEW r \in SE!Outs, NEW k \in DOMAIN se_down'[c][r]
               PROVE  /\ IsReply(c, se_down'[c][r][k])
                      /\ Twice => r = Dest(Num(se_down'[c][r][k]) \div 2)
    BY <1>s, <1>4 DEF DownInv, IsReply, Portion, Num
  <2> QED
    BY <1>2 DEF DownInv
<1>6. DownOrder(c)'
  <2> SUFFICES ASSUME NEW r \in SE!Outs, NEW s \in SE!Outs,
                      NEW k \in DOMAIN se_down'[c][r], NEW j \in DOMAIN se_down'[c][s],
                      s # r \/ k < j
               PROVE  Ahead(Num(se_down'[c][r][k]), Num(se_down'[c][s][j]))
    <3>1. \A x, y : Ahead(x, y)' <=> Ahead(x, y)
      BY SctpSameSetup
    <3> QED
      BY <1>s, <3>1 DEF DownOrder, Num
  <2>1. s # r \/ J(r, k) < J(s, j)
    <3>1. k \in Nat /\ j \in Nat
      BY <1>2
    <3> QED
      BY <3>1 DEF J
  <2> QED
    BY <1>2, <2>1 DEF DownOrder
<1>7. ASSUME NEW n \in Replied(c)' PROVE n \in Replied(c) /\ Ahead(Num(e), n)
  <2>1. PICK r \in SE!Outs : \E k \in DOMAIN se_down'[c][r] : n = Num(se_down'[c][r][k])
    BY <1>s DEF Replied, Num
  <2>2. PICK k \in DOMAIN se_down'[c][r] : n = Num(se_down'[c][r][k])
    BY <2>1
  <2>3. /\ k \in Nat \ {0} /\ J(r, k) \in DOMAIN se_down[c][r]
        /\ n = Num(se_down[c][r][J(r, k)])
    BY <1>2, <2>2
  <2>4. t # r \/ 1 < J(r, k)
    BY <2>3 DEF J
  <2>5. Ahead(Num(e), n)
    BY <1>1, <2>3, <2>4 DEF DownOrder
  <2>6. n \in Replied(c)
    BY <2>3, SctpDown
  <2> QED
    BY <2>5, <2>6
<1> QED
  BY <1>3, <1>5, <1>6, <1>7

\* Who has read as many replies as it has sent messages has nothing on its way.
LEMMA SctpAll ==
  ASSUME NEW c \in Clients, SctpTypes', GotInv(c)', GotOrder(c)', Chain(c)',
         Len(se_got'[c]) = SE!Awaited', Bound(c)' = SE!Awaited', SE!Awaited' \in Nat \ {0}
  PROVE  (Unread(c) \cup InHand(c) \cup Replied(c))' = {}
<1> DEFINE N == SE!Awaited'  G == se_got'[c]  f == [k \in 1 .. N |-> Num(G[k])]
<1>1. G \in Seq(Seq(Pieces)) /\ DOMAIN G = 1 .. N
  <2> DEFINE R == Seq(Pieces)
  <2>1. G \in Seq(R)
    BY DEF SctpTypes
  <2> HIDE DEF R, G
  <2>2. DOMAIN G = 1 .. Len(G)
    BY <2>1
  <2> QED
    BY <2>1, <2>2 DEF R, G
<1>2. ASSUME NEW k \in 1 .. N PROVE Num(G[k]) \in Got(c)' /\ Num(G[k]) \in 0 .. N - 1
  <2>1. G[k] \in Seq(Pieces)
    <3> DEFINE R == Seq(Pieces)
    <3>1. k \in DOMAIN G /\ G \in Seq(R)
      BY <1>1
    <3> HIDE DEF R, G
    <3>2. G[k] \in R
      BY <3>1
    <3> QED
      BY <3>2 DEF R
  <2>2. G[k] = Portion(c, G[k][1].id, Parts)
    BY <1>1 DEF GotInv, IsReply, Portion
  <2>3. 1 \in DOMAIN G[k]
    BY <2>2, SctpSizes DEF Portion
  <2>4. G[k][1] \in Pieces
    BY <2>1, <2>3
  <2>5. Num(G[k]) \in Nat
    BY <2>4 DEF Num, Pieces, Ids
  <2>6. Num(G[k]) \in Got(c)'
    BY <1>1, <2>5 DEF Got, Num
  <2>7. Num(G[k]) < N
    BY <2>6 DEF Chain
  <2> HIDE DEF N, G
  <2> QED
    BY <2>5, <2>6, <2>7 DEF N
<1>3. \A i, j \in 1 .. N : i < j => f[i] # f[j]
  BY <1>1 DEF GotOrder, Ahead, Num
<1>4. f \in [1 .. N -> 0 .. N - 1]
  BY <1>2
<1> SUFFICES ASSUME NEW x \in (Unread(c) \cup InHand(c) \cup Replied(c))' PROVE FALSE
  OBVIOUS
<1>5. x \in Nat
  BY DEF Unread, InHand, Replied
<1>6. x < N /\ \A y \in Got(c)' : y # x
  BY DEF Chain, Ahead
<1>7. x \in 0 .. N - 1
  <2>1. N \in Nat
    OBVIOUS
  <2> HIDE DEF N
  <2> QED
    BY <1>5, <1>6, <2>1
<1>8. \E k \in 1 .. N : f[k] = x
  <2>1. N \in Nat \ {0}
    OBVIOUS
  <2> HIDE DEF N, f
  <2> QED
    BY <1>3, <1>4, <1>7, <2>1, SctpPigeons
<1> QED
  BY <1>2, <1>6, <1>8

\* recvmsg at the client.
LEMMA SctpReadsReply ==
  ASSUME SctpInv, \A d \in Clients : ClientInv(d), SctpSetup', SctpTypes', SctpPlaces', SetupSame,
         NEW c \in Clients, SE!ReadReply(c)
  PROVE  \A d \in Clients : ClientInv(d)'
<1> SUFFICES ASSUME NEW d \in Clients PROVE ClientInv(d)'
  OBVIOUS
<1>i. SctpSetup /\ SctpTypes /\ SctpPlaces /\ ClientInv(d) /\ ClientInv(c)
  BY DEF SctpInv
<1>1. /\ se_cpc[c] = "recv"
      /\ se_cpc' = [se_cpc EXCEPT ![c] = IF Len(se_got'[c]) = SE!Awaited THEN "fgets" ELSE @]
      /\ UNCHANGED <<se_spc, se_cliaddr, se_buf, se_stream, se_assoc, se_up, se_line, se_i>>
  BY DEF SE!ReadReply
<1>2. PICK t \in SE!Outs :
       /\ se_down[c][t] # <<>> /\ se_down' = [se_down EXCEPT ![c][t] = Tail(@)]
       /\ se_got' = [se_got EXCEPT ![c] = Append(@, Head(se_down[c][t]))]
  BY Zenon DEF SE!ReadReply
<1>t. /\ se_down \in [Clients -> [SE!Outs -> Seq(Seq(Pieces))]]
      /\ se_got \in [Clients -> Seq(Seq(Pieces))]
      /\ se_cpc \in [Clients -> {"fgets", "sendall", "recv", "exit"}]
  BY <1>i DEF SctpTypes
<1>3. CASE d # c
  <2>1. se_down'[d] = se_down[d] /\ se_got'[d] = se_got[d] /\ se_cpc'[d] = se_cpc[d]
    BY <1>1, <1>2, <1>3, <1>t
  <2>2. QueuesSame(d) /\ HandSame(d) /\ PlaceSame(d)
    BY <1>1, <2>1 DEF QueuesSame, HandSame, PlaceSame
  <2>3. AssocInv(d)'
    BY <1>i, <1>1, SctpSameSetup DEF ClientInv, AssocInv, SetupSame, Holds
  <2> QED
    BY <1>i, <2>2, <2>3, SctpFrame
<1>4. CASE d = c
  <2> DEFINE Q == se_down[c][t]  e == Head(Q)  G == se_got[c]
  <2>1. /\ se_down'[c][t] = Tail(Q)
        /\ \A r \in SE!Outs \ {t} : se_down'[c][r] = se_down[c][r]
        /\ se_got'[c] = Append(G, e)
        /\ se_down[c] \in [SE!Outs -> Seq(Seq(Pieces))] /\ G \in Seq(Seq(Pieces))
    <3> HIDE DEF SE!Outs
    <3> QED
      BY <1>2, <1>t
  <2>2. UpInv(c) /\ UpOrder(c) /\ HandInv(c) /\ DownInv(c) /\ DownOrder(c) /\ Chain(c) /\ GotInv(c)
        /\ GotOrder(c) /\ AssocInv(c) /\ QuietInv(c)
    BY <1>i DEF ClientInv
  <2>3. /\ DownInv(c)' /\ DownOrder(c)' /\ Replied(c)' \subseteq Replied(c)
        /\ e \in Seq(Pieces) /\ IsReply(c, e) /\ Num(e) \in Replied(c)
        /\ \A n \in Replied(c)' : Ahead(Num(e), n)
    <3>1. se_line'[c] = se_line[c]
      BY <1>1
    <3> QED
      BY <1>2, <2>1, <2>2, <3>1, SctpTakesReply
  <2> HIDE DEF Q, e
  <2>4. /\ Len(G) \in Nat /\ DOMAIN G = 1 .. Len(G) /\ DOMAIN se_got'[c] = 1 .. Len(G) + 1
        /\ se_got'[c][Len(G) + 1] = e /\ \A k \in DOMAIN G : se_got'[c][k] = G[k]
    <3> DEFINE R == Seq(Pieces)
    <3>1. G \in Seq(R) /\ e \in R
      BY <2>1, <2>3
    <3> HIDE DEF R, G
    <3> QED
      BY <2>1, <3>1
  <2>5. \A k \in DOMAIN se_got'[c] : \/ k \in DOMAIN G /\ se_got'[c][k] = G[k]
                                     \/ k = Len(G) + 1 /\ se_got'[c][k] = e
    BY <2>4
  <2> HIDE DEF G
  <2>6. \A x : (IsReply(c, x)' <=> IsReply(c, x)) /\ Num(x)' = Num(x)
    BY <1>1 DEF IsReply, Portion, Num
  <2>7. GotInv(c)'
    <3> SUFFICES ASSUME NEW k \in DOMAIN se_got'[c] PROVE IsReply(c, se_got'[c][k])
      BY <1>1 DEF GotInv, IsReply, Portion
    <3> QED
      BY <2>2, <2>3, <2>5 DEF GotInv, G
  <2>8. \A k \in DOMAIN G : Num(G[k]) \in Got(c)
    <3> SUFFICES ASSUME NEW k \in DOMAIN G PROVE Num(G[k]) \in Got(c)
      OBVIOUS
    <3>1. G[k] \in Seq(Pieces) /\ IsReply(c, G[k])
      <4>1. IsReply(c, G[k])
        BY <2>2 DEF GotInv, G
      <4> DEFINE R == Seq(Pieces)
      <4> HIDE DEF R
      <4> QED
        BY <2>1, <4>1 DEF R
    <3>2. 1 \in DOMAIN G[k]
      BY <3>1, SctpSizes DEF IsReply, Portion
    <3>3. G[k][1] \in Pieces
      BY <3>1, <3>2
    <3>4. Num(G[k]) \in Nat
      BY <3>3 DEF Num, Pieces, Ids
    <3> QED
      BY <3>4 DEF Got, G
  <2>9. GotOrder(c)'
    <3> SUFFICES ASSUME NEW k \in DOMAIN se_got'[c], NEW j \in DOMAIN se_got'[c], k < j
                 PROVE  Ahead(Num(se_got'[c][k]), Num(se_got'[c][j]))
      BY SctpSameSetup DEF GotOrder, Num, Ahead
    <3>1. k \in DOMAIN G /\ se_got'[c][k] = G[k]
      BY <2>4
    <3>2. CASE j \in DOMAIN G
      BY <2>2, <2>4, <3>1, <3>2 DEF GotOrder, G
    <3>3. CASE j = Len(G) + 1
      BY <2>2, <2>3, <2>4, <2>8, <3>1, <3>3 DEF Chain
    <3> QED
      BY <2>5, <3>2, <3>3
  <2>10. \A n \in Got(c)' : n \in Got(c) \/ n = Num(e)
    <3> SUFFICES ASSUME NEW n \in Got(c)' PROVE n \in Got(c) \/ n = Num(e)
      OBVIOUS
    <3>1. n \in Nat
      BY DEF Got
    <3>2. PICK k \in DOMAIN se_got'[c] : n = Num(se_got'[c][k])
      BY DEF Got, Num
    <3> QED
      BY <2>5, <2>8, <3>2
  <2>11. Bound(c)' = SE!Awaited /\ Bound(c) = SE!Awaited /\ SE!Awaited' = SE!Awaited
    BY <1>1, <1>t, SctpSameSetup DEF Bound
  <2>12. Unread(c)' = Unread(c) /\ InHand(c)' = InHand(c)
    BY <1>1, SctpSameSetup DEF Unread, InHand, Num, Holds
  <2>13. Chain(c)'
    <3>1. \A x, y : Ahead(x, y)' <=> Ahead(x, y)
      BY SctpSameSetup
    <3> QED
      BY <2>2, <2>3, <2>10, <2>11, <2>12, <3>1 DEF Chain
  <2>14. UpInv(c)' /\ UpOrder(c)'
    <3>1. Holds(c)' <=> Holds(c)
      BY <1>1 DEF Holds
    <3>2. UpInv(c)'
      BY <1>1, <2>2, <3>1, SctpSameSetup DEF UpInv
    <3>3. UpOrder(c)'
      BY <1>1, <2>2, SctpSameSetup DEF UpOrder
    <3> QED
      BY <3>2, <3>3
  <2>15. HandInv(c)'
    <3>1. (Holds(c)' <=> Holds(c)) /\ \A s : SE!Begun(c, s)' <=> SE!Begun(c, s)
      BY <1>1 DEF Holds, SE!Begun, SE!Waiting
    <3> QED
      BY <1>1, <2>2, <3>1, SctpSameSetup DEF HandInv, Portion
  <2>16. AssocInv(c)'
    BY <1>1, <2>2, SctpSameSetup DEF AssocInv, SetupSame, Holds
  <2>17. QuietInv(c)'
    <3> SUFFICES ASSUME se_cpc'[c] = "fgets"
                 PROVE  /\ \A s \in SE!Lanes : se_up'[c][s] = <<>>
                        /\ \A s \in SE!Outs : se_down'[c][s] = <<>>
                        /\ ~Holds(c)'
      BY SctpSameSetup DEF QuietInv
    <3>1. Len(se_got'[c]) = SE!Awaited'
      BY <1>1, <1>t, <2>11
    <3>2. (Unread(c) \cup InHand(c) \cup Replied(c))' = {}
      BY <2>7, <2>9, <2>11, <2>13, <3>1, SctpAll, SctpSizes
    <3>3. ~Holds(c)'
      <4> SUFFICES ASSUME Holds(c)' PROVE FALSE
        OBVIOUS
      <4>1. se_buf \in Seq(Pieces) /\ se_buf # <<>>
        BY <1>i, <1>1 DEF Holds, SctpTypes, SctpPlaces
      <4>2. Num(se_buf) \in Nat
        <5>1. se_buf[1] \in Pieces
          BY <4>1
        <5> QED
          BY <5>1 DEF Num, Pieces, Ids
      <4>3. Num(se_buf) \in InHand(c)
        BY <1>1, <4>2 DEF InHand, Holds
      <4> QED
        BY <2>12, <3>2, <4>3
    <3>4. ASSUME NEW s \in SE!Lanes, se_up'[c][s] # <<>> PROVE FALSE
      <4>1. se_up[c][s] \in Seq(Messages) /\ se_up[c][s] # <<>>
        BY <1>i, <1>1, <3>4 DEF SctpTypes
      <4>2. 1 \in DOMAIN se_up[c][s] /\ se_up[c][s][1] \in Messages
        BY <4>1
      <4>3. se_up[c][s][1].left = Parts
        BY <1>1, <2>2, <3>3, <4>2 DEF UpInv, Holds
      <4>4. se_up[c][s][1].id[2] \in Nat
        BY <4>2 DEF Messages, Ids
      <4>5. se_up[c][s][1].id[2] \in Unread(c)
        BY <4>2, <4>3, <4>4 DEF Unread
      <4> QED
        BY <2>12, <3>2, <4>5
    <3>5. ASSUME NEW s \in SE!Outs, se_down'[c][s] # <<>> PROVE FALSE
      <4> DEFINE R == Seq(Pieces)  P == se_down'[c][s]
      <4>1. P \in Seq(R) /\ P # <<>>
        BY <3>5, SctpSameSetup DEF SctpTypes
      <4>2. 1 \in DOMAIN P /\ P[1] \in R
        <5> HIDE DEF R, P
        <5> QED
          BY <4>1
      <4>4. P[1] = Portion(c, P[1][1].id, Parts)
        BY <2>3, <4>2, SctpSameSetup DEF DownInv, IsReply, Portion
      <4>5. 1 \in DOMAIN P[1]
        BY <4>4, SctpSizes DEF Portion
      <4>6. P[1][1] \in Pieces
        BY <4>2, <4>5
      <4>7. Num(P[1]) \in Nat
        BY <4>6 DEF Num, Pieces, Ids
      <4>8. Num(P[1]) \in Replied(c)'
        BY <4>2, <4>7, SctpSameSetup DEF Replied, Num
      <4> QED
        BY <3>2, <4>8
    <3> QED
      BY <3>3, <3>4, <3>5
  <2> QED
    BY <1>4, <2>3, <2>7, <2>9, <2>13, <2>14, <2>15, <2>16, <2>17 DEF ClientInv
<1> QED
  BY <1>3, <1>4

\* fgets: a line, of which one message goes on its stream, or, for
\* sctpstr_cli_echoall, one is to go on every stream.
LEMMA SctpLines ==
  ASSUME SctpInv, \A d \in Clients : ClientInv(d), SctpSetup', SctpTypes', SctpPlaces', SetupSame,
         NEW c \in Clients, SE!SendLine(c) \/ SE!NextLine(c)
  PROVE  \A d \in Clients : ClientInv(d)'
<1> SUFFICES ASSUME NEW d \in Clients PROVE ClientInv(d)'
  OBVIOUS
<1>i. SctpSetup /\ SctpTypes /\ SctpPlaces /\ ClientInv(d) /\ ClientInv(c)
  BY DEF SctpInv
<1>1. /\ se_cpc[c] = "fgets" /\ se_line' = [se_line EXCEPT ![c] = @ + 1]
      /\ se_got' = [se_got EXCEPT ![c] = <<>>]
      /\ UNCHANGED <<se_spc, se_cliaddr, se_buf, se_stream, se_down>>
  BY DEF SE!SendLine, SE!NextLine, SE!net
<1>2. /\ \A s \in SE!Lanes : se_up[c][s] = <<>>
      /\ \A t \in SE!Outs : se_down[c][t] = <<>>
      /\ ~Holds(c)
  BY <1>i, <1>1 DEF ClientInv, QuietInv
<1>3. se_line'[c] \in Nat /\ se_got'[c] = <<>> /\ ~Holds(c)'
      /\ se_line' \in [Clients -> Nat]
  BY <1>i, <1>1, <1>2 DEF SctpTypes, Holds
<1>4. GotInv(c)' /\ GotOrder(c)' /\ Got(c)' = {}
  <2>1. DOMAIN se_got'[c] = {}
    BY <1>3
  <2> QED
    BY <2>1 DEF GotInv, GotOrder, Got
<1>5. ASSUME d # c, se_up'[d] = se_up[d], se_assoc'[d] = se_assoc[d], se_cpc'[d] = se_cpc[d],
             se_i'[d] = se_i[d]
      PROVE  ClientInv(d)'
  <2>1. QueuesSame(d) /\ HandSame(d) /\ PlaceSame(d)
    BY <1>i, <1>1, <1>5 DEF QueuesSame, HandSame, PlaceSame, SctpTypes
  <2>2. AssocInv(d)'
    BY <1>i, <1>1, <1>5, SctpSameSetup DEF ClientInv, AssocInv, SetupSame, Holds
  <2> QED
    BY <1>i, <2>1, <2>2, SctpFrame
<1>6. ASSUME \A s \in SE!Lanes : se_up'[c][s] = <<>> PROVE ClientInv(c)'
  BY <1>1, <1>2, <1>3, <1>4, <1>6, SctpSameSetup, SctpEmpty
<1>7. CASE SE!NextLine(c)
  <2>1. /\ UNCHANGED <<se_up, se_assoc>> /\ se_cpc' = [se_cpc EXCEPT ![c] = "sendall"]
        /\ se_i' = [se_i EXCEPT ![c] = 0]
    BY <1>7 DEF SE!NextLine, SE!net
  <2>2. CASE d # c
    <3>1. se_cpc'[d] = se_cpc[d] /\ se_i'[d] = se_i[d]
      BY <1>i, <2>1, <2>2 DEF SctpTypes
    <3> QED
      BY <1>5, <2>1, <2>2, <3>1
  <2>3. CASE d = c
    BY <1>2, <1>6, <2>1, <2>3
  <2> QED
    BY <2>2, <2>3
<1>8. CASE SE!SendLine(c)
  <2>1. PICK s \in 0 .. ClientStreams : SE!SendOn(c, s, "recv")
    BY <1>8 DEF SE!SendLine
  <2>2. s \in Nat /\ ~SE!Echoing /\ se_i' = se_i /\ se_i[c] = 0 /\ SE!Awaited = 1 /\ ~Twice
    BY <1>i, <1>8, SctpSizes DEF SE!SendLine, SctpPlaces, Twice, SE!Echoing
  <2>3. /\ \A x \in Clients \ {c} :
              se_up'[x] = se_up[x] /\ se_assoc'[x] = se_assoc[x] /\ se_cpc'[x] = se_cpc[x]
        /\ \/ se_cpc'[c] = "exit" /\ se_up'[c] = se_up[c] /\ se_assoc'[c] = se_assoc[c]
           \/ /\ se_cpc'[c] = "recv" /\ s < ClientStreams /\ se_assoc'[c] # "none"
              /\ \E l \in SE!Lanes :
                    /\ se_kind # "unordered" => l = s
                    /\ \A r \in SE!Lanes \ {l} : se_up'[c][r] = se_up[c][r]
                    /\ se_up'[c][l] = Append(se_up[c][l], Message(c, s))
                    /\ Message(c, s) \in Messages
    <3>1. SctpTypes /\ "recv" \in {"recv", "sendall"}
      BY <1>i
    <3> QED
      BY <1>3, <2>1, <2>2, <3>1, SctpSent
  <2>4. CASE d # c
    BY <1>5, <2>2, <2>3, <2>4
  <2>5. CASE d = c /\ se_up'[c] = se_up[c]
    BY <1>2, <1>6, <2>5
  <2>6. CASE d = c /\ se_up'[c] # se_up[c]
    <3>1. PICK l \in SE!Lanes :
            /\ \A r \in SE!Lanes \ {l} : se_up'[c][r] = se_up[c][r]
            /\ se_up'[c][l] = Append(se_up[c][l], Message(c, s))
      BY <2>3, <2>6
    <3>2. se_cpc'[c] = "recv" /\ se_assoc'[c] # "none"
      BY <2>3, <2>6
    <3> DEFINE m == Message(c, s)
    <3>3. m.id = <<se_line'[c], 0>> /\ m.left = Parts /\ m.id[1] = se_line'[c] /\ m.id[2] = 0
      BY <2>2 DEF Message
    <3>4. se_up'[c][l] = <<m>> /\ \A r \in SE!Lanes \ {l} : se_up'[c][r] = <<>>
      <4>1. se_up[c][l] = <<>> /\ se_up'[c][l] = Append(<<>>, m)
        BY <1>2, <3>1
      <4>2. \A x : Append(<<>>, x) = <<x>>
        <5> TAKE x
        <5>1. <<>> \in Seq({x}) /\ <<x>> \in Seq({x}) /\ Len(<<x>>) = 1 /\ <<x>>[1] = x
              /\ Len(<<>>) = 0
          OBVIOUS
        <5>2. /\ Append(<<>>, x) \in Seq({x}) /\ Len(Append(<<>>, x)) = 1
              /\ Append(<<>>, x)[1] = x
          BY ONLY <5>1, AppendProperties
        <5> QED
          BY ONLY <5>1, <5>2, SeqEqual
      <4> QED
        BY <1>2, <3>1, <4>1, <4>2
    <3> HIDE DEF m
    <3>5. \A r \in SE!Lanes : \A k \in DOMAIN se_up'[c][r] : r = l /\ k = 1 /\ se_up'[c][r][k] = m
      BY <3>4
    <3>6. SE!Lanes' = SE!Lanes /\ SE!Outs' = SE!Outs /\ SE!Awaited' = SE!Awaited
          /\ (Twice' <=> Twice)
      BY SctpSameSetup
    <3>7. UpInv(c)'
      BY <2>2, <3>3, <3>5, <3>6 DEF UpInv
    <3>8. UpOrder(c)'
      BY <3>5, <3>6 DEF UpOrder
    <3>9. DownInv(c)' /\ DownOrder(c)' /\ Replied(c)' = {}
      <4>1. \A t \in SE!Outs : DOMAIN se_down'[c][t] = {}
        BY <1>1, <1>2
      <4> QED
        BY <3>6, <4>1 DEF DownInv, DownOrder, Replied
    <3>10. HandInv(c)' /\ InHand(c)' = {}
      BY <1>3 DEF HandInv, InHand
    <3>11. \A n \in Unread(c)' : n = 0
      BY <3>3, <3>5, <3>6 DEF Unread
    <3>12. Bound(c)' = 1
      BY <2>2, <3>2, <3>6 DEF Bound
    <3>13. Chain(c)'
      BY <1>4, <3>9, <3>10, <3>11, <3>12 DEF Chain
    <3>14. QuietInv(c)' /\ AssocInv(c)'
      BY <3>2 DEF QuietInv, AssocInv
    <3> QED
      BY <1>4, <2>6, <3>7, <3>8, <3>9, <3>10, <3>13, <3>14 DEF ClientInv
  <2> QED
    BY <2>4, <2>5, <2>6
<1> QED
  BY <1>7, <1>8

\* sctpstr_cli_echoall: the next message of the line joins those on its stream.
LEMMA SctpSendsAll ==
  ASSUME SctpInv, \A d \in Clients : ClientInv(d), SctpSetup', SctpTypes', SctpPlaces', SetupSame,
         NEW c \in Clients, SE!SendAll(c)
  PROVE  \A d \in Clients : ClientInv(d)'
<1> SUFFICES ASSUME NEW d \in Clients PROVE ClientInv(d)'
  OBVIOUS
<1>i. SctpSetup /\ SctpTypes /\ SctpPlaces /\ ClientInv(d) /\ ClientInv(c)
  BY DEF SctpInv
<1> DEFINE s == se_i[c] \div SE!Copies
           next == IF se_i[c] + 1 = SE!Awaited THEN "recv" ELSE "sendall"
<1>1. /\ se_cpc[c] = "sendall" /\ se_i' = [se_i EXCEPT ![c] = @ + 1] /\ se_line' = se_line
      /\ SE!SendOn(c, s, next)
      /\ UNCHANGED <<se_spc, se_cliaddr, se_buf, se_stream, se_down, se_got>>
  BY DEF SE!SendAll
<1>2. /\ se_i[c] \in Nat /\ SE!Awaited \in Nat \ {0} /\ se_i[c] < SE!Awaited /\ SE!Echoing
      /\ se_i'[c] = se_i[c] + 1 /\ s \in Nat /\ next \in {"recv", "sendall"}
      /\ se_line \in [Clients -> Nat]
  <2>1. SE!Copies \in {1, 2}
    BY DEF SE!Copies
  <2>2. /\ se_i \in [Clients -> Nat] /\ se_i[c] < SE!Awaited /\ SE!Echoing
        /\ se_line \in [Clients -> Nat]
    BY <1>i, <1>1 DEF SctpTypes, SctpPlaces
  <2>3. s \in Nat
    BY <2>1, <2>2
  <2> QED
    BY <1>1, <2>2, <2>3, SctpSizes
<1> HIDE DEF s, next
<1>3. /\ \A x \in Clients \ {c} :
              se_up'[x] = se_up[x] /\ se_assoc'[x] = se_assoc[x] /\ se_cpc'[x] = se_cpc[x]
      /\ \/ se_cpc'[c] = "exit" /\ se_up'[c] = se_up[c] /\ se_assoc'[c] = se_assoc[c]
         \/ /\ se_cpc'[c] = next /\ s < ClientStreams /\ se_assoc'[c] # "none"
            /\ \E l \in SE!Lanes :
                  /\ se_kind # "unordered" => l = s
                  /\ \A r \in SE!Lanes \ {l} : se_up'[c][r] = se_up[c][r]
                  /\ se_up'[c][l] = Append(se_up[c][l], Message(c, s))
                  /\ Message(c, s) \in Messages
  <2>1. SctpTypes /\ se_line' \in [Clients -> Nat]
    BY <1>i, <1>1, <1>2
  <2> QED
    BY <1>1, <1>2, <2>1, SctpSent
<1>4. CASE d # c
  <2>1. QueuesSame(d) /\ HandSame(d) /\ PlaceSame(d)
    BY <1>i, <1>1, <1>3, <1>4 DEF QueuesSame, HandSame, PlaceSame, SctpTypes
  <2>2. AssocInv(d)'
    BY <1>i, <1>1, <1>3, <1>4, SctpSameSetup DEF ClientInv, AssocInv, SetupSame, Holds
  <2> QED
    BY <1>i, <2>1, <2>2, SctpFrame
<1>5. CASE d = c
  <2>1. UpInv(c) /\ UpOrder(c) /\ HandInv(c) /\ DownInv(c) /\ DownOrder(c) /\ Chain(c) /\ GotInv(c)
        /\ GotOrder(c) /\ AssocInv(c) /\ QuietInv(c)
    BY <1>i DEF ClientInv
  <2>2. /\ \A x : (IsReply(c, x)' <=> IsReply(c, x)) /\ Num(x)' = Num(x)
        /\ \A x, y : Ahead(x, y)' <=> Ahead(x, y)
        /\ SE!Lanes' = SE!Lanes /\ SE!Outs' = SE!Outs /\ SE!Awaited' = SE!Awaited
        /\ (Twice' <=> Twice) /\ \A x : Dest(x)' = Dest(x)
        /\ (Holds(c)' <=> Holds(c))
    BY <1>1, SctpSameSetup DEF IsReply, Portion, Num, Holds
  <2>3. DownInv(c)' /\ DownOrder(c)'
    <3>1. DownInv(c)'
      BY <1>1, <2>1, <2>2 DEF DownInv, IsReply, Portion, Num
    <3>2. DownOrder(c)'
      BY <1>1, <2>1, <2>2 DEF DownOrder, Num
    <3> QED
      BY <3>1, <3>2
  <2>4. GotInv(c)' /\ GotOrder(c)'
    BY <1>1, <2>1, <2>2 DEF GotInv, GotOrder
  <2>5. /\ InHand(c)' = InHand(c) /\ Replied(c)' = Replied(c) /\ Got(c)' = Got(c)
    BY <1>1, <2>2 DEF InHand, Replied, Got, Num
  <2>6. Bound(c) = se_i[c] /\ Bound(c)' \in Nat /\ se_i[c] < Bound(c)'
    <3>1. se_cpc'[c] \in {"exit", next}
      BY <1>3
    <3> QED
      BY <1>1, <1>2, <2>2, <3>1 DEF Bound, next
  <2>7. QuietInv(c)'
    BY <1>3, <1>2 DEF QuietInv
  <2>8. \A n \in Unread(c) \cup InHand(c) \cup Replied(c) \cup Got(c) : n \in Nat /\ n < se_i[c]
    BY <2>1, <2>6 DEF Chain, Unread, InHand, Replied, Got
  <2>9. CASE se_up'[c] = se_up[c]
    <3>1. Unread(c)' = Unread(c)
      BY <2>2, <2>9 DEF Unread
    <3>2. Chain(c)'
      <4>1. \A n \in Unread(c) \cup InHand(c) \cup Replied(c) \cup Got(c) : n < Bound(c)'
        BY <1>2, <2>6, <2>8
      <4> QED
        BY <2>1, <2>2, <2>5, <3>1, <4>1 DEF Chain
    <3>3. UpInv(c)'
      BY <1>1, <2>1, <2>2, <2>9 DEF UpInv
    <3>4. UpOrder(c)'
      BY <2>1, <2>2, <2>9 DEF UpOrder
    <3>5. HandInv(c)'
      <4>1. \A r : SE!Begun(c, r)' <=> SE!Begun(c, r)
        BY <2>9 DEF SE!Begun, SE!Waiting
      <4> QED
        BY <1>1, <2>1, <2>2, <4>1 DEF HandInv, Portion
    <3>6. AssocInv(c)'
      BY <1>3, <2>1, <2>2, <2>9 DEF AssocInv, SetupSame
    <3> QED
      BY <1>5, <2>3, <2>4, <2>7, <3>2, <3>3, <3>4, <3>5, <3>6 DEF ClientInv
  <2>10. CASE se_up'[c] # se_up[c]
    <3>1. PICK l \in SE!Lanes :
                  /\ se_kind # "unordered" => l = s
                  /\ \A r \in SE!Lanes \ {l} : se_up'[c][r] = se_up[c][r]
                  /\ se_up'[c][l] = Append(se_up[c][l], Message(c, s))
                  /\ Message(c, s) \in Messages
      BY <1>3, <2>10
    <3> DEFINE m == Message(c, s)  Q == se_up[c][l]
    <3>2. /\ m.id[1] = se_line[c] /\ m.id[2] = se_i[c] /\ m.left = Parts /\ m.stream = s
          /\ se_assoc'[c] # "none" /\ l = s
          /\ Twice => s = se_i[c] \div 2
      BY <1>1, <1>2, <1>3, <2>10, <3>1 DEF Message, SE!Echoing, Twice, s, SE!Copies
    <3> HIDE DEF m
    <3>3. /\ Len(Q) \in Nat /\ DOMAIN Q = 1 .. Len(Q) /\ DOMAIN se_up'[c][l] = 1 .. Len(Q) + 1
          /\ se_up'[c][l][Len(Q) + 1] = m /\ \A k \in DOMAIN Q : se_up'[c][l][k] = Q[k]
      <4>1. Q \in Seq(Messages) /\ m \in Messages /\ se_up'[c][l] = Append(Q, m)
        BY <1>i, <3>1 DEF SctpTypes, m
      <4> HIDE DEF Q
      <4> QED
        BY <4>1
    <3> HIDE DEF Q
    <3>4. ASSUME NEW r \in SE!Lanes, NEW k \in DOMAIN se_up'[c][r]
          PROVE  \/ k \in DOMAIN se_up[c][r] /\ se_up'[c][r][k] = se_up[c][r][k]
                 \/ r = l /\ k = Len(Q) + 1 /\ se_up'[c][r][k] = m
      <4>1. CASE r = l
        <5>1. k \in 1 .. Len(Q) + 1
          BY <3>3, <4>1
        <5>2. k \in DOMAIN Q \/ k = Len(Q) + 1
          BY <3>3, <5>1
        <5>3. k \in DOMAIN Q => se_up'[c][l][k] = Q[k]
          BY <3>3
        <5> QED
          BY <3>3, <4>1, <5>2, <5>3 DEF Q
      <4>2. CASE r # l
        BY <3>1, <4>2
      <4> QED
        BY <4>1, <4>2
    <3>5. \A r \in SE!Lanes : \A k \in DOMAIN se_up[c][r] :
            k \in DOMAIN se_up'[c][r] /\ se_up'[c][r][k] = se_up[c][r][k]
            /\ (r = l => k <= Len(Q) /\ k \in Nat)
      <4> TAKE r \in SE!Lanes
      <4> TAKE k \in DOMAIN se_up[c][r]
      <4>1. CASE r = l
        <5>1. k \in DOMAIN Q
          BY <4>1 DEF Q
        <5>2. k \in DOMAIN se_up'[c][l] /\ se_up'[c][l][k] = Q[k] /\ k <= Len(Q) /\ k \in Nat
          BY <3>3, <5>1
        <5> QED
          BY <4>1, <5>2 DEF Q
      <4>2. CASE r # l
        BY <3>1, <4>2
      <4> QED
        BY <4>1, <4>2
    <3>6. UpInv(c)'
      <4> SUFFICES ASSUME NEW r \in SE!Lanes, NEW k \in DOMAIN se_up'[c][r]
                   PROVE  LET x == se_up'[c][r][k] IN
                        /\ x.id[1] = se_line'[c] /\ (Twice' => x.stream = r /\ r = x.id[2] \div 2)
                        /\ x.left # Parts =>
                             k = 1 /\ Holds(c)' /\ se_spc' = "more" /\ x.id = se_buf'[1].id
                             /\ Len(se_buf') = Parts - x.left
        BY <2>2 DEF UpInv
      <4> QED
        BY <1>1, <2>1, <2>2, <3>2, <3>4 DEF UpInv
    <3>7. \A r \in SE!Lanes : \A k \in DOMAIN se_up[c][r] :
             /\ Ahead(se_up[c][r][k].id[2], se_i[c])
             /\ r # l => Ahead(se_i[c], se_up[c][r][k].id[2])
      <4> SUFFICES ASSUME NEW r \in SE!Lanes, NEW k \in DOMAIN se_up[c][r]
                   PROVE  /\ Ahead(se_up[c][r][k].id[2], se_i[c])
                          /\ r # l => Ahead(se_i[c], se_up[c][r][k].id[2])
        OBVIOUS
      <4>1. se_up[c][r] \in Seq(Messages)
        BY <1>i DEF SctpTypes
      <4>2. se_up[c][r][k].id[2] \in Nat
        <5>1. se_up[c][r][k] \in Messages
          BY <4>1
        <5> QED
          BY <5>1 DEF Messages, Ids
      <4>3. se_up[c][r][k].id[2] < se_i[c]
        <5>1. CASE se_up[c][r][k].left = Parts
          <6>1. se_up[c][r][k].id[2] \in Unread(c)
            BY <4>2, <5>1 DEF Unread
          <6> QED
            BY <2>8, <6>1
        <5>2. CASE se_up[c][r][k].left # Parts
          <6>1. Holds(c) /\ se_up[c][r][k].id = se_buf[1].id
            BY <2>1, <5>2 DEF UpInv
          <6>2. se_up[c][r][k].id[2] \in InHand(c)
            BY <4>2, <6>1 DEF InHand, Num
          <6> QED
            BY <2>8, <6>2
        <5> QED
          BY <5>1, <5>2
      <4>4. Twice => r = se_up[c][r][k].id[2] \div 2 /\ l = se_i[c] \div 2
        BY <2>1, <3>2 DEF UpInv
      <4> QED
        BY <1>2, <4>2, <4>3, <4>4 DEF Ahead
    <3>8. UpOrder(c)'
      <4> SUFFICES ASSUME NEW r \in SE!Lanes, NEW t \in SE!Lanes, NEW k \in DOMAIN se_up'[c][r],
                          NEW j \in DOMAIN se_up'[c][t], t # r \/ k < j
                   PROVE  Ahead(se_up'[c][r][k].id[2], se_up'[c][t][j].id[2])
        BY <2>2 DEF UpOrder
      <4>1. CASE k \in DOMAIN se_up[c][r] /\ j \in DOMAIN se_up[c][t]
        BY <2>1, <3>5, <4>1 DEF UpOrder
      <4>2. CASE k \in DOMAIN se_up[c][r] /\ t = l /\ se_up'[c][t][j] = m
        BY <3>2, <3>5, <3>7, <4>2
      <4>3. CASE r = l /\ k = Len(Q) + 1 /\ se_up'[c][r][k] = m /\ j \in DOMAIN se_up[c][t]
        <5>1. t # l
          BY <3>3, <3>5, <4>3
        <5> QED
          BY <3>2, <3>5, <3>7, <4>3, <5>1
      <4>4. ~(r = l /\ k = Len(Q) + 1 /\ t = l /\ j = Len(Q) + 1)
        BY <3>3
      <4> QED
        BY <3>4, <4>1, <4>2, <4>3, <4>4
    <3>9. \A n \in Unread(c)' : n \in Unread(c) \/ n = se_i[c]
      <4> SUFFICES ASSUME NEW n \in Unread(c)' PROVE n \in Unread(c) \/ n = se_i[c]
        OBVIOUS
      <4>1. PICK r \in SE!Lanes : \E k \in DOMAIN se_up'[c][r] :
               se_up'[c][r][k].left = Parts /\ n = se_up'[c][r][k].id[2]
        BY <2>2 DEF Unread
      <4>2. PICK k \in DOMAIN se_up'[c][r] :
               se_up'[c][r][k].left = Parts /\ n = se_up'[c][r][k].id[2]
        BY <4>1
      <4>3. n \in Nat
        BY DEF Unread
      <4> QED
        BY <3>2, <3>4, <4>2, <4>3 DEF Unread
    <3>10. Chain(c)'
      <4>1. \A n \in Unread(c)' \cup InHand(c) \cup Replied(c) \cup Got(c) : n < Bound(c)'
        BY <1>2, <2>6, <2>8, <3>9
      <4>2. \A n \in InHand(c) \cup Replied(c) \cup Got(c) : Ahead(n, se_i[c])
        BY <1>2, <2>8 DEF Ahead
      <4> QED
        BY <2>1, <2>2, <2>5, <3>9, <4>1, <4>2 DEF Chain
    <3>11. HandInv(c)'
      <4>1. ASSUME NEW r \in SE!Lanes, SE!Begun(c, r) PROVE SE!Begun(c, r)'
        <5>1. se_up[c][r] \in Seq(Messages) /\ se_up'[c][r] \in Seq(Messages)
          BY <1>i, <2>2 DEF SctpTypes
        <5>2. 1 \in DOMAIN se_up[c][r] /\ Head(se_up[c][r]) = se_up[c][r][1]
          BY <4>1, <5>1 DEF SE!Begun, SE!Waiting
        <5>3. 1 \in DOMAIN se_up'[c][r] /\ se_up'[c][r][1] = se_up[c][r][1]
          BY <3>5, <5>2
        <5>4. se_up'[c][r] # <<>> /\ Head(se_up'[c][r]) = se_up'[c][r][1]
          BY <5>1, <5>3
        <5> QED
          BY <4>1, <5>2, <5>3, <5>4 DEF SE!Begun, SE!Waiting
      <4> QED
        BY <1>1, <2>1, <2>2, <4>1 DEF HandInv, Portion
    <3>12. AssocInv(c)'
      BY <3>2 DEF AssocInv
    <3> QED
      BY <1>5, <2>3, <2>4, <2>7, <3>6, <3>8, <3>10, <3>11, <3>12 DEF ClientInv
  <2> QED
    BY <2>9, <2>10
<1> QED
  BY <1>4, <1>5

\* A disturbance is not forgotten.
LEMMA SctpDisturbed ==
  ASSUME SctpInv, [SE!Next]_se_vars
  PROVE  /\ SetupSame /\ se_lost' \in Nat /\ (se_lost' = 0 => se_lost = 0)
         /\ (SE!Undisturbed' => SE!Undisturbed)
         /\ \A c \in Clients : SE!Break(c) => se_lost' # 0
<1>t. se_lost \in Nat
  BY DEF SctpInv, SctpTypes
<1>1. SetupSame
  BY SctpActions DEF OwnSteps, ServerSteps, SE!Bye, SE!ChildEcho, SE!Notification, SE!Recv,
     SE!Realloc, SE!RecvMore, SE!IncrementStream, SE!Send, SE!Peeloff, SE!ShutdownArrives,
     SE!ShutdownComplete, SE!Autoclose, SE!Break, SE!SendLine, SE!NextLine, SE!SendAll,
     SE!ReadReply, SE!CheckNotification, SE!setup, se_vars, SetupSame
<1>2. UNCHANGED se_lost \/ se_lost' = se_lost + 1
  BY SctpActions DEF OwnSteps, ServerSteps, SE!Bye, SE!ChildEcho, SE!Notification, SE!Recv,
     SE!Realloc, SE!RecvMore, SE!IncrementStream, SE!Send, SE!Peeloff, SE!ShutdownArrives,
     SE!ShutdownComplete, SE!Autoclose, SE!Break, SE!SendLine, SE!NextLine, SE!SendAll,
     SE!ReadReply, SE!CheckNotification, SE!hist, se_vars
<1>3. se_split => se_split'
  <2> SUFFICES ASSUME se_split PROVE se_split'
    OBVIOUS
  <2>1. CASE UNCHANGED se_split
    BY <2>1
  <2>2. CASE \E c \in Clients : SE!ChildEcho(c)
    <3>1. PICK c, s, n : se_split' = (se_split \/ n < Parts)
      BY <2>2, Zenon DEF SE!ChildEcho
    <3> QED
      BY ONLY <3>1, se_split, Zenon
  <2>3. CASE SE!Recv
    <3>1. se_split' = (se_split \/ (Len(se_buf') < Parts /\ ~SE!Reassembles))
      BY <2>3, SctpReceives, Zenon DEF SctpInv
    <3> QED
      BY ONLY <3>1, se_split, Zenon
  <2> QED
    BY <2>1, <2>2, <2>3, SctpActions DEF OwnSteps, ServerSteps, SE!Bye, SE!Notification,
     SE!Realloc, SE!RecvMore, SE!IncrementStream, SE!Send, SE!Peeloff, SE!ShutdownArrives,
     SE!ShutdownComplete, SE!Autoclose, SE!Break, SE!SendLine, SE!NextLine, SE!SendAll,
     SE!ReadReply, SE!CheckNotification, SE!hist, se_vars
<1>4. se_glued => se_glued'
  <2> SUFFICES ASSUME se_glued PROVE se_glued'
    OBVIOUS
  <2>1. CASE UNCHANGED se_glued
    BY <2>1
  <2>2. CASE SE!RecvMore
    <3>1. PICK c \in Clients, s \in SE!Lanes :
             se_glued' = (se_glued \/ c # se_buf[1].from
                                   \/ Head(se_up[c][s]).id # se_buf[1].id)
      BY <2>2, SctpReceivesMore, Zenon DEF SctpInv
    <3> QED
      BY ONLY <3>1, se_glued, Zenon
  <2>3. CASE SE!Recv
    <3>1. se_glued' = (se_glued \/ (SE!Reassembles /\ se_buf'[1].part > 1))
      BY <2>3, SctpReceives, Zenon DEF SctpInv
    <3> QED
      BY ONLY <3>1, se_glued, Zenon
  <2> QED
    BY <2>1, <2>2, <2>3, SctpActions DEF OwnSteps, ServerSteps, SE!Bye, SE!Notification,
     SE!Realloc, SE!ChildEcho, SE!IncrementStream, SE!Send, SE!Peeloff, SE!ShutdownArrives,
     SE!ShutdownComplete, SE!Autoclose, SE!Break, SE!SendLine, SE!NextLine, SE!SendAll,
     SE!ReadReply, SE!CheckNotification, SE!hist, se_vars
<1>5. \A c \in Clients : SE!Break(c) => se_lost' # 0
  BY <1>t DEF SE!Break
<1>6. se_lost' \in Nat /\ (se_lost' = 0 => se_lost = 0)
  BY <1>t, <1>2
<1> QED
  BY <1>1, <1>3, <1>4, <1>5, <1>6 DEF SE!Undisturbed

\* Every step keeps what is known of the clients, undisturbed.
LEMMA SctpClients ==
  ASSUME SctpInv, [SE!Next]_se_vars, SE!Undisturbed'
  PROVE  \A d \in Clients : ClientInv(d)'
<1>1. /\ SctpSetup' /\ SctpTypes' /\ SctpPlaces' /\ SetupSame
      /\ \A d \in Clients : ClientInv(d)
      /\ \A c \in Clients : ~SE!Break(c)
  <2>1. SetupSame /\ SE!Undisturbed /\ (\A c \in Clients : SE!Break(c) => se_lost' # 0)
    BY SctpDisturbed
  <2>2. \A c \in Clients : ~SE!Break(c)
    BY <2>1 DEF SE!Undisturbed
  <2> QED
    BY <2>1, <2>2, SctpSetupStep, SctpTypesStep DEF SctpInv
<1>2. CASE \/ UNCHANGED se_vars \/ SE!Notification \/ SE!Realloc \/ SE!Peeloff
           \/ \E c \in Clients : \/ SE!CheckNotification(c) \/ SE!ShutdownArrives(c)
                                 \/ SE!ShutdownComplete(c) \/ SE!Autoclose(c)
  BY <1>1, <1>2, SctpStay
<1>3. CASE SE!Recv
  BY <1>1, <1>3, SctpRecvs
<1>4. CASE SE!RecvMore
  BY <1>1, <1>4, SctpRecvsMore
<1>5. CASE SE!IncrementStream
  BY <1>1, <1>5, SctpIncrements
<1>6. CASE SE!Send
  BY <1>1, <1>6, SctpSends
<1>7. CASE \E c \in Clients : SE!SendLine(c) \/ SE!NextLine(c)
  BY <1>1, <1>7, SctpLines
<1>8. CASE \E c \in Clients : SE!SendAll(c)
  BY <1>1, <1>8, SctpSendsAll
<1>9. CASE \E c \in Clients : SE!ReadReply(c)
  BY <1>1, <1>9, SctpReadsReply
<1>10. CASE \E c \in Clients : SE!Bye(c)
  BY <1>1, <1>10, SctpBye
<1>11. CASE \E c \in Clients : SE!ChildEcho(c)
  BY <1>1, <1>11, SctpChildEchoes
<1> QED
  BY <1>1, <1>2, <1>3, <1>4, <1>5, <1>6, <1>7, <1>8, <1>9, <1>10, <1>11, SctpActions
     DEF OwnSteps, ServerSteps

\* A server that reassembles takes no piece for a message, and while nothing breaks
\* and the host does not mix, none of another message.
LEMMA SctpClean == SctpInv /\ [SE!Next]_se_vars => Clean'
<1> SUFFICES ASSUME SctpInv, [SE!Next]_se_vars PROVE Clean'
  OBVIOUS
<1>i. SctpSetup /\ SctpTypes /\ SctpPlaces /\ Clean
  BY DEF SctpInv
<1>s. SetupSame /\ (se_lost' = 0 => se_lost = 0) /\ (SE!Reassembles' <=> SE!Reassembles)
  BY SctpDisturbed, SctpSameSetup
<1> SUFFICES ASSUME SE!Reassembles
             PROVE  ~se_split' /\ (se_lost' = 0 /\ se_host # "mixed" => ~se_glued')
  BY <1>s DEF Clean, SetupSame
<1>0. ~se_split /\ (se_lost = 0 /\ se_host # "mixed" =>
                      ~se_glued /\ \A d \in Clients : ClientInv(d))
  BY <1>i DEF Clean, SctpInv, SE!Undisturbed
<1>1. CASE SE!Recv
  <2>1. PICK c \in Clients, s \in SE!Lanes, n \in Nat :
           /\ Takes(c, s, n)
           /\ se_buf' = SE!Piece(c, s, n)
           /\ se_split' = (se_split \/ (Len(se_buf') < Parts /\ ~SE!Reassembles))
           /\ se_glued' = (se_glued \/ (SE!Reassembles /\ se_buf'[1].part > 1))
    BY <1>i, <1>1, SctpReceives, Zenon
  <2>2. ~se_split'
    BY ONLY <1>0, <2>1, SE!Reassembles
  <2>3. ASSUME se_lost' = 0, se_host # "mixed" PROVE ~se_glued'
    <3>1. UpInv(c) /\ ~se_glued /\ se_spc = "recv"
      BY <1>0, <1>1, <1>s, <2>3 DEF ClientInv, SE!Recv
    <3>2. /\ SctpTypes /\ SE!Waiting(c, s) /\ n \in 1 .. Head(se_up[c][s]).left
      BY <1>i, <2>1 DEF Takes
    <3> DEFINE m == Head(se_up[c][s])
    <3>3. /\ m \in Messages /\ 1 \in DOMAIN se_up[c][s] /\ m = se_up[c][s][1]
          /\ se_buf' = [k \in 1 .. n |-> [from |-> c, id |-> m.id, part |-> Parts - m.left + k]]
      BY <2>1, <3>2, SctpFirst
    <3>4. m.left = Parts /\ Parts \in Nat /\ 1 \in 1 .. n
      <4>1. m.left = Parts
        <5> HIDE DEF m
        <5> QED
          BY <3>1, <3>3 DEF UpInv
      <4> HIDE DEF m
      <4> QED
        BY <3>2, <4>1, SctpSizes DEF m
    <3>5. se_buf'[1].part = 1
      <4> HIDE DEF m
      <4> QED
        BY <3>3, <3>4
    <3>6. ~(se_buf'[1].part > 1)
      BY <3>5
    <3> QED
      BY ONLY <2>1, <3>1, <3>6
  <2> QED
    BY <2>2, <2>3
<1>2. CASE SE!RecvMore
  <2>1. PICK c \in Clients, s \in SE!Lanes, n \in Nat :
           /\ Takes(c, s, n)
           /\ se_glued' = (se_glued \/ c # se_buf[1].from
                                    \/ Head(se_up[c][s]).id # se_buf[1].id)
    BY <1>i, <1>2, SctpReceivesMore, Zenon
  <2>2. ~se_split' /\ se_spc = "more" /\ se_cliaddr \in Clients /\ se_buf # <<>>
    BY <1>0, <1>2, <1>i DEF SE!RecvMore, SctpPlaces, Holding
  <2>3. ASSUME se_lost' = 0, se_host # "mixed" PROVE ~se_glued'
    <3>1. ~se_glued /\ ClientInv(c) /\ ClientInv(se_cliaddr) /\ Holds(se_cliaddr)
      BY <1>0, <1>s, <2>2, <2>3 DEF Holds, Holding
    <3>2. SE!Begun(c, s)
      <4>1. \E r \in SE!Lanes : SE!Begun(se_cliaddr, r)
        BY <2>2, <3>1 DEF ClientInv, HandInv
      <4>2. PICK r \in SE!Lanes : SE!Begun(se_cliaddr, r)
        BY <4>1
      <4>3. SE!Begun(c, s) \/ \A y \in Clients \X SE!Lanes : ~SE!Begun(y[1], y[2])
        BY <2>1, <2>3 DEF Takes
      <4>4. <<se_cliaddr, r>> \in Clients \X SE!Lanes
        BY <2>2
      <4>5. <<se_cliaddr, r>>[1] = se_cliaddr /\ <<se_cliaddr, r>>[2] = r
        OBVIOUS
      <4> QED
        BY <4>2, <4>3, <4>4, <4>5
    <3>3. /\ 1 \in DOMAIN se_up[c][s] /\ Head(se_up[c][s]) = se_up[c][s][1]
          /\ Head(se_up[c][s]).left # Parts
      <4>1. se_up[c][s] \in Seq(Messages) /\ se_up[c][s] # <<>>
        BY <1>i, <3>2 DEF SctpTypes, SE!Begun, SE!Waiting
      <4>2. Head(se_up[c][s]).left < Parts
        BY <3>2 DEF SE!Begun
      <4> QED
        BY <4>1, <4>2, SctpSizes
    <3>4. Holds(c) /\ Head(se_up[c][s]).id = se_buf[1].id
      BY <3>1, <3>3 DEF ClientInv, UpInv
    <3>5. c = se_buf[1].from
      <4>1. se_buf = Portion(c, se_buf[1].id, Len(se_buf))
        BY <3>1, <3>4 DEF ClientInv, HandInv
      <4>2. 1 \in 1 .. Len(se_buf)
        BY <1>i, <2>2 DEF SctpTypes
      <4>3. Portion(c, se_buf[1].id, Len(se_buf))[1].from = c
        BY <4>2 DEF Portion
      <4> QED
        BY <4>1, <4>3
    <3> QED
      BY ONLY <2>1, <3>1, <3>4, <3>5
  <2> QED
    BY <2>2, <2>3
<1>3. CASE UNCHANGED <<se_split, se_glued>>
  BY <1>0, <1>3, <1>s
<1>4. \A c \in Clients : ~SE!ChildEcho(c)
  BY <1>i DEF SctpSetup, SE!ChildEcho, SE!Reassembles
<1> QED
  BY <1>1, <1>2, <1>3, <1>4, SctpActions DEF OwnSteps, ServerSteps, SE!Bye, SE!Notification,
     SE!Realloc, SE!IncrementStream, SE!Send, SE!Peeloff, SE!ShutdownArrives,
     SE!ShutdownComplete, SE!Autoclose, SE!Break, SE!SendLine, SE!NextLine, SE!SendAll,
     SE!ReadReply, SE!CheckNotification, SE!hist, se_vars

\* The buffer has what it is said to have, and room for what is read into it.
LEMMA SctpBuffer ==
  SctpInv /\ [SE!Next]_se_vars => SE!BufferIsAllocated' /\ SE!FitsBuffer'
<1> SUFFICES ASSUME SctpInv, [SE!Next]_se_vars
             PROVE  SE!BufferIsAllocated' /\ SE!FitsBuffer'
  OBVIOUS
<1>i. SctpSetup /\ SctpTypes /\ SctpPlaces /\ SE!BufferIsAllocated /\ SE!FitsBuffer
  BY DEF SctpInv
<1>s. se_version' = se_version /\ (SE!Reassembles' <=> SE!Reassembles)
  BY SctpDisturbed, SctpSameSetup DEF SetupSame
<1>t. se_size \in Nat \ {0} /\ Len(se_buf) \in Nat /\ se_buf \in Seq(Pieces) /\ IncrSize \in Nat
  BY <1>i, SctpSizes DEF SctpTypes
<1>1. CASE UNCHANGED <<se_buf, se_size, se_alloc>>
  BY <1>1, <1>i, <1>s DEF SE!BufferIsAllocated, SE!FitsBuffer
<1>2. CASE SE!Recv
  <2>1. PICK c \in Clients, s \in SE!Lanes, n \in Nat :
           Takes(c, s, n) /\ (SE!Reassembles => n <= se_size) /\ se_buf' = SE!Piece(c, s, n)
    BY <1>2, <1>i, SctpReceives, Zenon
  <2>2. Len(se_buf') = n
    <3>1. /\ SctpTypes /\ SE!Waiting(c, s) /\ n \in 1 .. Head(se_up[c][s]).left
      BY <1>i, <2>1 DEF Takes
    <3> QED
      BY <2>1, <3>1, SctpFirst
  <2>3. se_size' = se_size /\ se_alloc' = se_alloc
    BY <1>2 DEF SE!Recv, SE!pdapi
  <2> QED
    BY <1>i, <1>s, <2>1, <2>2, <2>3 DEF SE!BufferIsAllocated, SE!FitsBuffer
<1>3. CASE SE!RecvMore
  <2>1. PICK c \in Clients, s \in SE!Lanes, n \in Nat :
           Takes(c, s, n) /\ n <= se_size - Len(se_buf) /\ se_buf' = se_buf \o SE!Piece(c, s, n)
    BY <1>3, <1>i, SctpReceivesMore, Zenon
  <2>2. SE!Piece(c, s, n) \in Seq(Pieces) /\ Len(SE!Piece(c, s, n)) = n
    <3>1. /\ SctpTypes /\ SE!Waiting(c, s) /\ n \in 1 .. Head(se_up[c][s]).left
      BY <1>i, <2>1 DEF Takes
    <3> QED
      BY <3>1, SctpFirst
  <2>3. se_size' = se_size /\ se_alloc' = se_alloc
    BY <1>3 DEF SE!RecvMore, SE!pdapi
  <2>4. Len(se_buf') = Len(se_buf) + n
    BY <1>t, <2>1, <2>2, ConcatProperties
  <2> QED
    BY <1>i, <1>s, <1>t, <2>1, <2>3, <2>4 DEF SE!BufferIsAllocated, SE!FitsBuffer
<1>4. CASE SE!Reassembles /\ SE!Realloc
  <2>1. /\ se_size' = se_size + IncrSize /\ se_buf' = se_buf
        /\ se_alloc' = SE!Reallocated
    BY <1>4 DEF SE!Realloc
  <2>2. se_version = "serv05" => se_alloc' = se_size'
    BY <2>1 DEF SE!Reallocated
  <2>3. se_version \in {"serv05", "pdapi23"}
    BY <1>4 DEF SE!Reassembles
  <2> QED
    BY <1>i, <1>s, <1>t, <2>1, <2>2, <2>3 DEF SE!BufferIsAllocated, SE!FitsBuffer
<1> QED
  BY <1>1, <1>2, <1>3, <1>4, SctpActions DEF OwnSteps, ServerSteps, SE!Bye, SE!Notification,
     SE!ChildEcho, SE!IncrementStream, SE!Send, SE!Peeloff, SE!ShutdownArrives,
     SE!ShutdownComplete, SE!Autoclose, SE!Break, SE!SendLine, SE!NextLine, SE!SendAll,
     SE!ReadReply, SE!CheckNotification, SE!pdapi, se_vars

\* Why the server may end.
LEMMA SctpEnds == SctpInv /\ [SE!Next]_se_vars => SE!ServerEndsOnlyFor'
<1> SUFFICES ASSUME SctpInv, [SE!Next]_se_vars PROVE SE!ServerEndsOnlyFor'
  OBVIOUS
<1>i. SctpSetup /\ SctpTypes /\ SctpPlaces /\ SE!ServerEndsOnlyFor
  BY DEF SctpInv
<1>s. /\ se_version' = se_version /\ se_increment' = se_increment /\ SE!Outstrms' = SE!Outstrms
      /\ (SE!Undisturbed' => SE!Undisturbed)
  BY SctpDisturbed, SctpSameSetup DEF SetupSame
<1>1. CASE UNCHANGED se_cause
  BY <1>1, <1>i, <1>s DEF SE!ServerEndsOnlyFor
<1>2. CASE SE!IncrementStream /\ se_cause' = "status"
  <2>1. se_spc = "status" /\ se_increment /\ se_cliaddr \in Clients
    BY <1>i, <1>2 DEF SE!IncrementStream, SctpPlaces, Holding
  <2>2. CASE SE!Associated(se_cliaddr) \/ se_version = "srv09"
    <3>1. UNCHANGED se_cause
      BY <1>2, <2>2 DEF SE!IncrementStream
    <3> QED
      BY <1>1, <3>1
  <2>3. CASE ~(SE!Associated(se_cliaddr) \/ se_version = "srv09")
    <3>1. SE!Undisturbed => se_version = "serv03"
      <4> SUFFICES ASSUME SE!Undisturbed, se_version # "serv03" PROVE FALSE
        OBVIOUS
      <4>1. ClientInv(se_cliaddr) /\ Holds(se_cliaddr)
        BY <2>1 DEF SctpInv, Holds, Holding
      <4> QED
        BY <2>3, <4>1 DEF ClientInv, AssocInv, SE!Associated
    <3> QED
      BY <1>2, <1>s, <2>1, <2>3, <3>1 DEF SE!ServerEndsOnlyFor
  <2> QED
    BY <2>2, <2>3
<1>3. CASE SE!Send /\ se_cause' = "stream" /\ se_cause # "stream"
  <2>1. se_spc = "send"
    BY <1>3 DEF SE!Send
  <2>2. se_stream >= SE!Outstrms
    BY <1>3 DEF SE!Send, SE!ServerQuits
  <2>3. se_stream \in Nat /\ SE!Outstrms \in Nat /\ ClientStreams \in Nat
    BY <1>i, SctpSizes DEF SctpTypes
  <2>4. ~se_increment /\ SE!Outstrms < ClientStreams
    BY <1>i, <2>1, <2>2, <2>3 DEF SctpPlaces
  <2> QED
    BY <1>3, <1>s, <2>4 DEF SE!ServerEndsOnlyFor
<1>4. CASE SE!Send /\ se_cause' = "shutdown" /\ se_cause # "shutdown"
  <2>1. se_cliaddr \in Clients
    BY <1>i, <1>4 DEF SE!Send, SctpPlaces, Holding
  <2>2. se_assoc[se_cliaddr] \in {"eof", "closing"}
    BY <1>4 DEF SE!Send, SE!ServerQuits
  <2>3. se_version = "serv03"
    BY <1>i, <2>1, <2>2 DEF SctpSetup
  <2> QED
    BY <1>4, <1>s, <2>3 DEF SE!ServerEndsOnlyFor
<1>5. CASE SE!Send
  <2>1. UNCHANGED se_cause \/ se_cause' = "stream" \/ se_cause' = "shutdown"
    BY <1>5 DEF SE!Send, SE!ServerQuits
  <2> QED
    BY <1>1, <1>3, <1>4, <1>5, <2>1
<1>6. CASE SE!IncrementStream
  <2>1. UNCHANGED se_cause \/ se_cause' = "status"
    BY <1>6 DEF SE!IncrementStream, SE!ServerQuits
  <2> QED
    BY <1>1, <1>2, <1>6, <2>1
<1> QED
  BY <1>1, <1>5, <1>6, SctpActions DEF OwnSteps, ServerSteps, SE!Bye, SE!Notification,
     SE!ChildEcho, SE!Recv, SE!RecvMore, SE!Realloc, SE!Peeloff, SE!ShutdownArrives,
     SE!ShutdownComplete, SE!Autoclose, SE!Break, SE!SendLine, SE!NextLine, SE!SendAll,
     SE!ReadReply, SE!CheckNotification, se_vars

\* The invariant says what the runs check.
LEMMA SctpMeans == SctpInv => SE!SctpEchoes
<1> SUFFICES ASSUME SctpInv PROVE SE!SctpEchoes
  OBVIOUS
<1>i. SctpSetup /\ SctpTypes /\ SctpPlaces /\ Clean
  BY DEF SctpInv
<1>1. SE!RepliesMatch
  <2> SUFFICES ASSUME SE!Undisturbed, NEW c \in Clients
               PROVE  /\ \A k \in DOMAIN se_got[c] :
                            \E n \in 0 .. SE!Awaited : SE!Whole(c, se_got[c][k], <<se_line[c], n>>)
                      /\ \A j, k \in DOMAIN se_got[c] :
                            j < k => Ahead(Num(se_got[c][j]), Num(se_got[c][k]))
    BY Zenon DEF SE!RepliesMatch, Ahead, Num, Twice
  <2>1. GotInv(c) /\ GotOrder(c) /\ Chain(c)
    BY DEF SctpInv, ClientInv
  <2>2. ASSUME NEW k \in DOMAIN se_got[c]
        PROVE  \E n \in 0 .. SE!Awaited : SE!Whole(c, se_got[c][k], <<se_line[c], n>>)
    <3> DEFINE e == se_got[c][k]
    <3>1. e \in Seq(Pieces)
      <4> DEFINE R == Seq(Pieces)
      <4>1. se_got[c] \in Seq(R)
        BY <1>i DEF SctpTypes
      <4> HIDE DEF R
      <4> QED
        BY <4>1 DEF R
    <3>2. e = Portion(c, e[1].id, Parts) /\ e[1].id[1] = se_line[c]
      BY <2>1 DEF GotInv, IsReply
    <3>3. 1 \in DOMAIN e
      BY <3>2, SctpSizes DEF Portion
    <3>4. e[1] \in Pieces
      BY <3>1, <3>3
    <3>5. e[1].id \in Nat \X Nat
      BY <3>4 DEF Pieces, Ids
    <3>6. e[1].id = <<se_line[c], Num(e)>> /\ Num(e) \in Nat
      <4> HIDE DEF e
      <4> QED
        BY <3>2, <3>5 DEF Num
    <3>7. Num(e) < Bound(c)
      <4>1. Num(e) \in Got(c)
        BY <3>6 DEF Got
      <4> QED
        BY <2>1, <4>1 DEF Chain
    <3>8. Num(e) \in 0 .. SE!Awaited
      <4>1. SE!Awaited \in Nat /\ se_i[c] \in Nat /\ (se_cpc[c] = "sendall" => se_i[c] < SE!Awaited)
        BY <1>i, SctpSizes DEF SctpTypes, SctpPlaces
      <4> HIDE DEF e
      <4> QED
        BY <3>6, <3>7, <4>1 DEF Bound
    <3>9. SE!Whole(c, e, <<se_line[c], Num(e)>>)
      <4> HIDE DEF e
      <4> QED
        BY <3>2, <3>6 DEF SE!Whole, Portion
    <3> HIDE DEF e
    <3> QED
      BY <3>8, <3>9 DEF e
  <2> QED
    BY <2>1, <2>2 DEF GotOrder
<1>2. SE!OneMessage
  <2> SUFFICES ASSUME SE!Reassembles, se_spc \in {"status", "send"}, se_lost = 0, se_host # "mixed"
               PROVE  SE!Whole(se_cliaddr, se_buf, se_buf[1].id)
    BY DEF SE!OneMessage
  <2>1. SE!Undisturbed
    BY <1>i DEF Clean, SE!Undisturbed
  <2>2. ClientInv(se_cliaddr) /\ Holds(se_cliaddr)
    BY <1>i, <2>1 DEF SctpInv, SctpPlaces, Holds, Holding
  <2> QED
    BY <2>2 DEF ClientInv, HandInv, SE!Whole, Portion
<1> QED
  BY <1>1, <1>2 DEF SctpInv, SE!SctpEchoes

\* Whatever the numbers of streams, the sizes of buffers and messages, and how the
\* host delivers these: a client of the one-to-many servers (sctpserv*.c) reads its own
\* messages, whole, each once, and in the order it sent those of one stream;
\* pdapi_recvmsg makes one message of its pieces, within its buffer; and the
\* server ends for a known cause alone.
THEOREM SctpAnswersWhole == SumSpec => []RepliesMatch
<1>1. SumInit => SctpInv
  BY SctpInit DEF SumInit
<1>2. SctpInv /\ [SumNext]_all => SctpInv'
  <2> SUFFICES ASSUME SctpInv, [SumNext]_all PROVE SctpInv'
    OBVIOUS
  <2>1. [SE!Next]_se_vars
    BY DEF SumNext, Copying, Sctp, Datagrams, Both, all
  <2>2. SE!Undisturbed' => \A c \in Clients : ClientInv(c)'
    BY <2>1, SctpClients
  <2> QED
    BY <2>1, <2>2, SctpSetupStep, SctpTypesStep, SctpClean, SctpBuffer, SctpEnds DEF SctpInv
<1>3. SctpInv => RepliesMatch
  BY SctpMeans DEF RepliesMatch
<1> QED
  BY <1>1, <1>2, <1>3, PTL DEF SumSpec

===============================================================================
