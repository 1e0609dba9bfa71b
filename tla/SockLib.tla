------------------------------ MODULE SockLib --------------------------------
(* sock: the command line (main.c), newline conversion (crlf.c) and writing in *)
(* chunks (write.c), for the loops that copy.                                  *)
EXTENDS Naturals, Sequences, SequencesExt

CONSTANTS WriteLen,  \* writelen: the size of wbuf
          MaxIov     \* UIO_MAXIOV

-----------------------------------------------------------------------------
(* Options: a set of letters                                                 *)

\* Those that say how data are copied, and those that main refuses to combine.
LowerCase == {"c", "f", "h", "i", "k", "o", "s", "u"}
UpperCase == {"D", "L", "N", "U", "V", "W", "Z"}
Letters   == LowerCase \cup UpperCase

\* -V "implies this option too".
Implied(S) == S \cup (IF "V" \in S THEN {"k"} ELSE {})

MakesSenseMutant(S) == IF "u" \in S THEN S \cap {"D", "L", "N"} = {} ELSE "f" \notin S

MakesSense(S) == IF "u" \in S THEN S \cap {"h", "D", "L", "N"} = {} ELSE "f" \notin S

\* How main ends.
Routine(S) ==
  IF "i" \notin S THEN IF "u" \in S THEN "loop_udp" ELSE "loop_tcp"
  ELSE IF "s" \in S THEN IF "u" \in S THEN "sink_udp" ELSE "sink_tcp"
  ELSE IF "u" \in S THEN "source_udp" ELSE "source_tcp"

-----------------------------------------------------------------------------
(* crlf.c: a byte is a newline "n", a return "r" or another one, "x"         *)

Refused == <<"destination not big enough">>

\* One byte of the loops: r.lenout is what is needed so far.
AddByte(r, c) ==
  IF r.dst = Refused THEN r
  ELSE IF c # "n" THEN [r EXCEPT !.dst = Append(@, c)]
  ELSE IF r.lenout + 1 >= WriteLen THEN [r EXCEPT !.dst = Refused]
  ELSE [dst |-> r.dst \o <<"r", "n">>, lenout |-> r.lenout + 1]
CrlfAdd(src) ==
  IF Len(src) > WriteLen THEN Refused
  ELSE FoldLeft(AddByte, [dst |-> <<>>, lenout |-> Len(src)], src).dst

StripByteMutant(dst, c) ==
  IF dst = Refused \/ c = "n" THEN dst
  ELSE IF Len(dst) + 1 >= WriteLen THEN Refused ELSE Append(dst, c)

StripByte(dst, c) ==
  IF dst = Refused \/ c = "r" THEN dst
  ELSE IF Len(dst) + 1 >= WriteLen THEN Refused ELSE Append(dst, c)
CrlfStrip(src) == FoldLeft(StripByte, <<>>, src)

\* What the two convert whole streams to.
Added(s)    == FlattenSeq([k \in DOMAIN s |-> IF s[k] = "n" THEN <<"r", "n">> ELSE <<s[k]>>])
Without(s, c) == FlattenSeq([k \in DOMAIN s |-> IF s[k] = c THEN <<>> ELSE <<s[k]>>])
Stripped(s) == Without(s, "r")

-----------------------------------------------------------------------------
(* dowrite                                                                   *)

ChunkSizeMutant(n) == IF n \div MaxIov = 0 THEN 1 ELSE n \div MaxIov

ChunkSize(n) ==
  IF n \div MaxIov = 0 THEN 1
  ELSE IF n % MaxIov # 0 THEN n \div MaxIov + 1 ELSE n \div MaxIov

\* The parts of iov[]; without a break main quits.
AddPart(r, k) ==
  IF r.done THEN r
  ELSE LET n == IF r.left >= r.size THEN r.size ELSE r.left
       IN  [r EXCEPT !.ptr = @ + n, !.left = @ - n, !.done = r.left = n,
                     !.iov = Append(@, [base |-> r.ptr, len |-> n])]
Parts(n) ==
  FoldLeft(AddPart, [ptr |-> 0, left |-> n, size |-> ChunkSize(n), iov |-> <<>>,
                     done |-> FALSE], [k \in 1 .. MaxIov |-> k])

\* The pieces that dowrite hands to write one by one: all at once without -k
\* and with -V, which is one writev.
Pieces(S, data) ==
  IF "k" \notin S \/ "V" \in S THEN <<data>>
  ELSE LET iov == Parts(Len(data)).iov
       IN  [k \in DOMAIN iov |->
              SubSeq(data, iov[k].base + 1, iov[k].base + iov[k].len)]
==============================================================================
