----------------------------- MODULE AddressText -----------------------------
(* libfree: IPv6 and IPv4 addresses from text (inet_pton.c) and to text        *)
(* (inet_ntop.c), and the Internet checksum (in_cksum.c).  An IPv6 text is a   *)
(* sequence of colons, hexadecimal words and dotted quads; an IPv4 text is one *)
(* of digits and dots.  A task and its input are chosen, then it is computed.  *)
EXTENDS Integers, Sequences, SequencesExt

CONSTANTS Words,     \* words of the addresses that are written and read back
          MaxDigits, \* bound: length of an IPv4 text
          Bytes,     \* bytes of the messages that are summed
          MaxBytes   \* bound: length of a message

VARIABLES task,   \* "ntop6", "pton6", "pton4", "cksum"
          input, output

vars == <<task, input, output>>

\* What a function returns that refuses its argument.
Refused == <<"refused">>

-----------------------------------------------------------------------------
(* inet_ntop6                                                                *)

None == [base |-> -1, len |-> 0]

\* The scan for the longest run of zeros: words is indexed from 0.
Longer(best, cur) == IF cur # None /\ cur.len > best.len THEN cur ELSE best
ScanStep(s, words, k) ==
  IF words[k] = 0
  THEN [s EXCEPT !.cur = IF @ = None THEN [base |-> k, len |-> 1]
                         ELSE [@ EXCEPT !.len = @ + 1]]
  ELSE [best |-> Longer(s.best, s.cur), cur |-> None]
Best(words) ==
  LET s == FoldLeft(LAMBDA r, k : ScanStep(r, words, k - 1),
                    [best |-> None, cur |-> None], [k \in 1 .. 8 |-> k])
      b == Longer(s.best, s.cur)
  IN  IF b.len < 2 THEN None ELSE b

Colon      == [colon |-> ":"]
Hex(w)     == [hex |-> w]
Quad(v, w) == [quad |-> <<v, w>>]

\* An encapsulated IPv4 address.
Encapsulated(words, best) ==
  best.base = 0 /\ (best.len = 6 \/ (best.len = 5 /\ words[5] = 65535))

Ntop6Mutant(words) ==
  LET best == Best(words)
      Part(k) == IF k >= best.base /\ k < best.base + best.len
                 THEN IF k = best.base THEN <<Colon>> ELSE <<>>
                 ELSE (IF k = 0 THEN <<>> ELSE <<Colon>>) \o <<Hex(words[k])>>
  IN  FlattenSeq([k \in 1 .. 8 |-> Part(k - 1)])
Ntop6(words) ==
  LET best == Best(words)
      ipv4 == Encapsulated(words, best)
      Part(k) ==
        IF k >= best.base /\ k < best.base + best.len
        THEN IF k = best.base THEN <<Colon>> ELSE <<>>
        ELSE IF ipv4 /\ k = 7 THEN <<>>
        ELSE (IF k = 0 THEN <<>> ELSE <<Colon>>)
               \o <<IF ipv4 /\ k = 6 THEN Quad(words[6], words[7]) ELSE Hex(words[k])>>
      trailing == best # None /\ best.base + best.len = 8
  IN  FlattenSeq([k \in 1 .. 8 |-> Part(k - 1)]) \o (IF trailing THEN <<Colon>> ELSE <<>>)

-----------------------------------------------------------------------------
(* inet_pton6                                                                *)

Begin == [words |-> <<>>, colonp |-> -1, val |-> 0, saw |-> FALSE, ok |-> TRUE]
Bad(s) == [s EXCEPT !.ok = FALSE]
Put(s, ws) == [s EXCEPT !.words = @ \o ws, !.saw = FALSE, !.val = 0]

TokenMutant(s, t, last) ==
  IF t = Colon
  THEN IF ~s.saw THEN [s EXCEPT !.colonp = Len(s.words)]
       ELSE IF Len(s.words) + 1 > 8 THEN Bad(s) ELSE Put(s, <<s.val>>)
  ELSE IF "hex" \in DOMAIN t THEN [s EXCEPT !.val = t.hex, !.saw = TRUE]
  ELSE IF last /\ Len(s.words) + 2 <= 8 THEN Put(s, t.quad) ELSE Bad(s)
\* The loop over the text; inet_pton4 must take all that is left.
Token(s, t, last) ==
  IF ~s.ok THEN s
  ELSE IF t = Colon
  THEN IF ~s.saw
       THEN IF s.colonp # -1 THEN Bad(s) ELSE [s EXCEPT !.colonp = Len(s.words)]
       ELSE IF Len(s.words) + 1 > 8 THEN Bad(s) ELSE Put(s, <<s.val>>)
  ELSE IF "hex" \in DOMAIN t
  THEN IF t.hex > 65535 THEN Bad(s) ELSE [s EXCEPT !.val = t.hex, !.saw = TRUE]
  ELSE IF last /\ Len(s.words) + 2 <= 8 THEN Put(s, t.quad) ELSE Bad(s)

\* The shift by hand: endp[-i] = colonp[n - i]; colonp[n - i] = 0.
Shift(words, colonp) ==
  LET t == Len(words)
      n == t - colonp
      a == [k \in 0 .. 7 |-> IF k < t THEN words[k + 1] ELSE 0]
  IN  FoldLeft(LAMBDA b, i : [[b EXCEPT ![8 - i] = b[colonp + n - i]]
                                EXCEPT ![colonp + n - i] = 0],
               a, [i \in 1 .. n |-> i])

Pton6(text) ==
  LET leading == text # <<>> /\ text[1] = Colon
      rest    == IF leading THEN Tail(text) ELSE text
      read    == FoldLeft(LAMBDA s, k : Token(s, rest[k], k = Len(rest)),
                          Begin, [k \in 1 .. Len(rest) |-> k])
      end     == IF ~read.saw THEN read
                 ELSE IF Len(read.words) + 1 > 8 THEN Bad(read) ELSE Put(read, <<read.val>>)
  IN
  IF leading /\ (rest = <<>> \/ Head(rest) # Colon) THEN Refused
  ELSE IF ~end.ok THEN Refused
  ELSE IF end.colonp # -1 THEN Shift(end.words, end.colonp)
  ELSE IF Len(end.words) # 8 THEN Refused
  ELSE [k \in 0 .. 7 |-> end.words[k + 1]]

-----------------------------------------------------------------------------
(* inet_pton4, over digits and "." coded as -1                               *)

Dot == -1
Octets0 == [tmp |-> <<0>>, saw |-> FALSE, octets |-> 0, ok |-> TRUE]
OctetStepMutant(s, ch) ==
  IF ~s.ok THEN s
  ELSE IF ch # Dot
  THEN [s EXCEPT !.tmp[Len(s.tmp)] = @ * 10 + ch, !.saw = TRUE,
                 !.octets = IF s.saw THEN @ ELSE @ + 1,
                 !.ok = s.tmp[Len(s.tmp)] * 10 + ch <= 255]
  ELSE [s EXCEPT !.tmp = Append(@, 0), !.saw = FALSE, !.ok = s.octets < 4]
OctetStep(s, ch) ==
  IF ~s.ok THEN s
  ELSE IF ch # Dot
  THEN [s EXCEPT !.tmp[Len(s.tmp)] = @ * 10 + ch, !.saw = TRUE,
                 !.octets = IF s.saw THEN @ ELSE @ + 1,
                 !.ok = /\ s.tmp[Len(s.tmp)] * 10 + ch <= 255
                        /\ s.saw \/ s.octets < 4]
  ELSE [s EXCEPT !.tmp = Append(@, 0), !.saw = FALSE, !.ok = s.saw /\ s.octets < 4]
Pton4(text) ==
  LET s == FoldLeft(OctetStep, Octets0, text)
  IN  IF s.ok /\ s.octets = 4 THEN s.tmp ELSE Refused

-----------------------------------------------------------------------------
(* in_cksum on a machine with the low byte first                             *)

WordAt(bytes, k) ==
  bytes[2 * k - 1] + (IF 2 * k <= Len(bytes) THEN 256 * bytes[2 * k] ELSE 0)
Sum(bytes) ==
  FoldLeft(LAMBDA n, k : n + WordAt(bytes, k), 0, [k \in 1 .. (Len(bytes) + 1) \div 2 |-> k])
\* Carries folded back twice, then the complement of the low 16 bits.
InCksumMutant(bytes) ==
  LET once == (Sum(bytes) \div 65536) + (Sum(bytes) % 65536)
  IN  65535 - (once % 65536)
InCksum(bytes) ==
  LET once  == (Sum(bytes) \div 65536) + (Sum(bytes) % 65536)
      twice == once + (once \div 65536)
  IN  65535 - (twice % 65536)

-----------------------------------------------------------------------------
(* The tasks                                                                 *)

\* A text of two groups of words, the k-th word being k, with :: between them or
\* not, the second perhaps ending in a dotted quad, and perhaps one colon or
\* another :: behind.
Shapes == [left : 0 .. 9, double : BOOLEAN, right : 0 .. 9, quad : BOOLEAN,
           colons : 0 .. 2]
Joined(ws) == FlattenSeq([k \in 1 .. Len(ws) |-> IF k = 1 THEN <<ws[1]>> ELSE <<Colon, ws[k]>>])
Group(first, count, quad) ==
  Joined(IF quad THEN [k \in 1 .. count - 1 |->
                         IF k = count - 1 THEN Quad(first + k - 1, first + k)
                         ELSE Hex(first + k - 1)]
         ELSE [k \in 1 .. count |-> Hex(first + k - 1)])
Text(s) ==
  Group(1, s.left, FALSE) \o (IF s.double THEN <<Colon, Colon>> ELSE <<>>)
    \o Group(s.left + 1, s.right, s.quad) \o [k \in 1 .. s.colons |-> Colon]
Sensible(s) ==
  /\ s.left + s.right \in 1 .. 9
  /\ ~s.double => s.left = 0
  /\ s.quad => s.right >= 2
  /\ s.colons > 0 => s.right > 0
  /\ s.colons = 2 => s.double

Init ==
  /\ output = Refused
  /\ \/ task = "ntop6" /\ input \in [0 .. 7 -> Words]
     \/ task = "pton6" /\ input \in {s \in Shapes : Sensible(s)}
     \/ task = "pton4" /\ \E n \in 0 .. MaxDigits : input \in [1 .. n -> {2, 6, Dot}]
     \/ task = "cksum" /\ \E n \in 0 .. MaxBytes : input \in [1 .. n -> Bytes]

Compute(t, result) == task = t /\ task' = "done " \o t /\ output' = result /\ UNCHANGED input
Next ==
  \/ Compute("ntop6", Ntop6(input))
  \/ Compute("pton6", Pton6(Text(input)))
  \/ Compute("pton4", Pton4(input))
  \/ Compute("cksum", <<InCksum(input)>>)

-----------------------------------------------------------------------------
(* Properties                                                                *)

\* What inet_ntop writes, inet_pton reads back as the same address, with ::
\* leading, inside or trailing and with an encapsulated IPv4 address.
WrittenIsRead == task = "done ntop6" => Pton6(output) = input

\* inet_pton returns 1 "if src is a valid [RFC1884 2.2] address, else 0"
\* (inet_pton.c:131), and then its words.  It also takes a colon behind the last
\* word; and :: in a full address is not "silently ignored" (line 134): the shift
\* (lines 213-216) then moves the words after it onto themselves and clears them.
Meaning(s) ==
  IF s.left + s.right > 8 \/ (~s.double /\ s.right # 8) THEN Refused
  ELSE [k \in 0 .. 7 |-> IF k < s.left THEN k + 1
                         ELSE IF k >= 8 - s.right THEN s.left + s.right - (7 - k) ELSE 0]
Cleared(s) == [k \in 0 .. 7 |-> IF k < s.left THEN k + 1 ELSE 0]
ReadAsMeant ==
  task = "done pton6" =>
    IF input.colons = 2 \/ (input.colons = 1 /\ input.quad) THEN output = Refused
    ELSE IF input.double /\ input.left + input.right = 8 THEN output = Cleared(input)
    ELSE output = Meaning(input)

\* A dotted quad is four numbers of at least one digit, none above 255
\* (inet_pton.c:76-84): the only way to write the octets it returns.
Number(ds) == FoldLeft(LAMBDA n, d : 10 * n + d, 0, ds)
QuadIsFourOctets ==
  task = "done pton4" =>
    LET dots == SelectSeq([k \in 1 .. Len(input) |-> k], LAMBDA k : input[k] = Dot)
        cuts == <<0>> \o dots \o <<Len(input) + 1>>
        parts == [k \in 1 .. Len(cuts) - 1 |-> SubSeq(input, cuts[k] + 1, cuts[k + 1] - 1)]
        good == Len(parts) = 4 /\ \A k \in 1 .. 4 : parts[k] # <<>> /\ Number(parts[k]) <= 255
    IN  output = IF good THEN [k \in 1 .. 4 |-> Number(parts[k])] ELSE Refused

\* A message of whole words that carries its checksum sums to zero, whatever
\* carries the sum makes (in_cksum.c:27-30).
ChecksumVerifies ==
  task = "done cksum" /\ Len(input) % 2 = 0 =>
    InCksum(input \o <<output[1] % 256, output[1] \div 256>>) = 0
==============================================================================
