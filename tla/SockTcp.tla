------------------------------ MODULE SockTcp --------------------------------
(* sock over TCP: two processes, each in the loop between its terminal and the *)
(* socket (looptcp.c) or, with -i, one in source_tcp and the other in          *)
(* sink_tcp.  The kernel and the network carry bytes; a socket that is closed  *)
(* too early answers with a reset.                                             *)
EXTENDS SockLib, FiniteSets

CONSTANTS ReadLen,     \* readlen
          Nbuf,        \* nbuf
          MaxOptions,  \* bound: options on the two command lines
          MaxInput     \* bound: bytes typed at the client

VARIABLES
  opts,    \* letters of each command line
  pc,      \* "select", "stdin", "write", "recv", "again", "source", "close", "exit"
  ready,   \* rset after select
  input,   \* bytes to be typed
  towrite, \* pieces that dowrite has still to write
  i,       \* of source_tcp
  net,     \* bytes (and "oob") sent by a process and not yet read
  fin,     \* has its side been shut down
  reset,   \* "no", or the connection is reset: "pending" until it was told once
  out,     \* what a process read and showed, chunk by chunk
  typed, wrote,  \* all that it read from its terminal and that write took
  cause    \* of the exit: "eof", "stdin", "done", "crlf", "error"

vars == <<opts, pc, ready, input, towrite, i, net, fin, reset, out, typed, wrote, cause>>
history == <<typed, wrote>>

Sides == {"client", "server"}
Peer(p) == IF p = "client" THEN "server" ELSE "client"
Has(p, o) == o \in opts[p]
Bytes == {"n", "r", "x"}

Init ==
  /\ opts \in [Sides -> SUBSET (Letters \ {"f", "o", "u", "D", "L", "N"})]
  /\ \A p \in Sides : /\ (p = "server") <=> Has(p, "s")
                      /\ opts[p] = Implied(opts[p]) /\ MakesSense(opts[p])
                      /\ Has(p, "i") => opts[p] \cap {"c", "h", "k"} = {}
                      /\ opts[p] \cap {"U", "W"} # {} => Routine(opts[p]) = "source_tcp"
  /\ Cardinality(opts["client"] \ {"i"}) + Cardinality(opts["server"] \ {"i", "s"})
       <= MaxOptions
  /\ pc = [p \in Sides |-> IF Routine(opts[p]) = "loop_tcp" THEN "select"
                           ELSE IF Has(p, "s") THEN "recv" ELSE "source"]
  /\ input \in [Sides -> UNION {[1 .. n -> Bytes] : n \in 0 .. MaxInput}]
  /\ \A p \in Sides : Has(p, "i") => input[p] = <<>>
  /\ input["server"] \in {<<>>, <<"x">>}
  /\ (\A p \in Sides : ~Has(p, "c")) => Range(input["client"]) \subseteq {"x"}
  /\ ready = [p \in Sides |-> {}] /\ towrite = [p \in Sides |-> <<>>] /\ i = 1
  /\ net = [p \in Sides |-> <<>>] /\ fin = [p \in Sides |-> FALSE]
  /\ reset = [p \in Sides |-> "no"]
  /\ out = [p \in Sides |-> <<>>]
  /\ typed = [p \in Sides |-> <<>>] /\ wrote = [p \in Sides |-> <<>>]
  /\ cause = [p \in Sides |-> "none"]

Go(p, place) == pc' = [pc EXCEPT ![p] = place]
Gone(p)      == pc[p] = "exit"
Data(s)      == Without(s, "oob")

-----------------------------------------------------------------------------
(* The end of a process                                                      *)

\* Bytes that the other side has looked at have arrived.
Arrived(p) ==
  IF pc[Peer(p)] = "again" THEN Len(out[Peer(p)][Len(out[Peer(p)])].chunk) ELSE 0

\* close, by the program or by exit: bytes that nobody will read make it a reset
\* and may take along what is still on its way.
Exit(p, why) ==
  LET q == Peer(p)  unread == Data(net[q]) # <<>>
  IN  /\ Go(p, "exit") /\ cause' = [cause EXCEPT ![p] = why]
      /\ fin' = [fin EXCEPT ![p] = TRUE]
      /\ reset' = [reset EXCEPT ![q] = IF unread /\ @ = "no" THEN "pending" ELSE @]
      /\ \E n \in (IF unread THEN Arrived(p) .. Len(net[p]) ELSE {Len(net[p])}) :
           net' = [net EXCEPT ![p] = SubSeq(@, 1, n), ![q] = <<>>]

Close(p) ==
  /\ pc[p] = "close" /\ Exit(p, cause[p])
  /\ UNCHANGED <<opts, ready, input, towrite, i, out, history>>

-----------------------------------------------------------------------------
(* loop_tcp                                                                  *)

Readable(p) == Data(net[Peer(p)]) # <<>> \/ fin[Peer(p)] \/ reset[p] = "pending"

\* The terminal has something, a byte or its end, whenever the user likes;
\* after shutdown it is not watched.
Select(p) ==
  /\ pc[p] = "select"
  /\ \E R \in SUBSET {"stdin", "sock"} :
       /\ R # {} /\ ("sock" \in R <=> Readable(p)) /\ ("stdin" \in R => ~fin[p])
       /\ ready' = [ready EXCEPT ![p] = R]
       /\ Go(p, IF "stdin" \in R THEN "stdin" ELSE "recv")
  /\ UNCHANGED <<opts, input, towrite, i, net, fin, reset, out, history, cause>>

\* End of file: shutdown and continue, or break.
StdinEof(p) ==
  /\ pc[p] = "stdin" /\ input[p] = <<>>
  /\ IF Has(p, "h")
     THEN Go(p, "select") /\ fin' = [fin EXCEPT ![p] = TRUE] /\ UNCHANGED cause
     ELSE Go(p, "close") /\ cause' = [cause EXCEPT ![p] = "stdin"] /\ UNCHANGED fin
  /\ UNCHANGED <<opts, ready, input, towrite, i, net, reset, out, history>>

ReadStdin(p) ==
  /\ pc[p] = "stdin" /\ input[p] # <<>>
  /\ \E n \in 1 .. ReadLen :
       LET chunk == SubSeq(input[p], 1, n)
           data  == IF Has(p, "c") THEN CrlfAdd(chunk) ELSE chunk
       IN  /\ n <= Len(input[p])
           /\ input' = [input EXCEPT ![p] = SubSeq(@, n + 1, Len(@))]
           /\ typed' = [typed EXCEPT ![p] = @ \o chunk]
           /\ IF data = Refused
              THEN Exit(p, "crlf") /\ UNCHANGED towrite
              ELSE /\ Go(p, "write") /\ UNCHANGED <<net, fin, reset, cause>>
                   /\ towrite' = [towrite EXCEPT ![p] = Pieces(opts[p], data)]
  /\ UNCHANGED <<opts, ready, i, out, wrote>>

\* One write: taken and delivered; taken, with a reset as the answer; refused.
Takes(p, piece, next) ==
  /\ reset[p] = "no"
  /\ IF Gone(Peer(p))
     THEN reset' = [reset EXCEPT ![p] = "pending"] /\ UNCHANGED net
     ELSE net' = [net EXCEPT ![p] = @ \o piece] /\ UNCHANGED reset
  /\ wrote' = [wrote EXCEPT ![p] = @ \o Data(piece)]
  /\ Go(p, next) /\ UNCHANGED <<fin, cause>>

Write(p) ==
  /\ pc[p] = "write"
  /\ \/ /\ Takes(p, Head(towrite[p]), IF Len(towrite[p]) > 1 THEN "write"
                                      ELSE IF "sock" \in ready[p] THEN "recv" ELSE "select")
        /\ towrite' = [towrite EXCEPT ![p] = Tail(@)]
     \/ reset[p] # "no" /\ Exit(p, "error") /\ UNCHANGED <<towrite, wrote>>
  /\ UNCHANGED <<opts, ready, input, i, out, typed>>

-----------------------------------------------------------------------------
(* The socket: loop_tcp and sink_tcp                                         *)

\* recv takes what there is, up to the urgent mark, and skips a mark in front.
Unmarked(s) == IF s # <<>> /\ Head(s) = "oob" THEN Tail(s) ELSE s
Upto(s) ==
  LET marks == {k \in DOMAIN s : s[k] = "oob"}
      last  == IF marks = {} THEN Len(s) ELSE (CHOOSE k \in marks : \A l \in marks : k <= l) - 1
  IN  SubSeq(s, 1, IF last < ReadLen THEN last ELSE ReadLen)

\* With -Z each chunk is first looked at (MSG_PEEK) and shown, then read.
Peeks(p) == Has(p, "Z") /\ pc[p] = "recv"
Shown(p, chunk) == IF Has(p, "c") /\ ~Has(p, "i") THEN CrlfStrip(chunk) ELSE chunk
AfterRecv(p) == IF Peeks(p) THEN "again" ELSE IF Has(p, "i") THEN "recv" ELSE "select"

RecvMutant(p) ==
  LET q == Peer(p)  s == Unmarked(net[q])  chunk == Upto(s)
  IN  /\ pc[p] \in {"recv", "again"} /\ chunk # <<>>
      /\ IF Shown(p, chunk) = Refused
         THEN Exit(p, "crlf") /\ UNCHANGED out
         ELSE /\ out' = [out EXCEPT ![p] = Append(@, [peek |-> Peeks(p), chunk |-> chunk,
                                                      shown |-> Shown(p, chunk)])]
              /\ net' = [net EXCEPT ![q] = SubSeq(s, Len(chunk) + 1, Len(s))]
              /\ Go(p, AfterRecv(p)) /\ UNCHANGED <<fin, reset, cause>>
      /\ UNCHANGED <<opts, ready, input, towrite, i, history>>

Recv(p) ==
  LET q == Peer(p)  s == Unmarked(net[q])  chunk == Upto(s)
  IN  /\ pc[p] \in {"recv", "again"} /\ chunk # <<>>
      /\ IF Shown(p, chunk) = Refused
         THEN Exit(p, "crlf") /\ UNCHANGED out
         ELSE /\ out' = [out EXCEPT ![p] = Append(@, [peek |-> Peeks(p), chunk |-> chunk,
                                                      shown |-> Shown(p, chunk)])]
              /\ net' = [net EXCEPT ![q] = IF Peeks(p) THEN s
                                           ELSE SubSeq(s, Len(chunk) + 1, Len(s))]
              /\ Go(p, AfterRecv(p)) /\ UNCHANGED <<fin, reset, cause>>
      /\ UNCHANGED <<opts, ready, input, towrite, i, history>>

RecvEof(p) ==
  /\ pc[p] \in {"recv", "again"} /\ Upto(Unmarked(net[Peer(p)])) = <<>>
  /\ \/ reset[p] = "pending" /\ Exit(p, "error")
     \/ /\ reset[p] = "no" /\ fin[Peer(p)]
        /\ Go(p, "close") /\ cause' = [cause EXCEPT ![p] = "eof"]
        /\ UNCHANGED <<net, fin, reset>>
  /\ UNCHANGED <<opts, ready, input, towrite, i, out, history>>

-----------------------------------------------------------------------------
(* source_tcp                                                                *)

Pattern == [k \in 1 .. WriteLen |-> "x"]

\* With -U one urgent byte goes before the second buffer.
Source(p) ==
  /\ pc[p] = "source" /\ i <= Nbuf /\ i' = i + 1
  /\ LET piece == IF Has(p, "U") /\ i = 2 THEN <<"oob">> \o Pattern ELSE Pattern
     IN  \/ Takes(p, piece, "source")
         \/ reset[p] = "pending" /\ ~Has(p, "W") /\ Exit(p, "error") /\ UNCHANGED wrote
         \/ \* ignorewerr: reported once, the next one is SIGPIPE
            /\ reset[p] = "pending" /\ Has(p, "W")
            /\ reset' = [reset EXCEPT ![p] = "told"]
            /\ UNCHANGED <<pc, net, fin, cause, wrote>>
         \/ reset[p] = "told" /\ Exit(p, "error") /\ UNCHANGED wrote
  /\ UNCHANGED <<opts, ready, input, towrite, out, typed>>

SourceEnds(p) ==
  /\ pc[p] = "source" /\ i > Nbuf
  /\ Go(p, "close") /\ cause' = [cause EXCEPT ![p] = "done"]
  /\ UNCHANGED <<opts, ready, input, towrite, i, net, fin, reset, out, history>>

-----------------------------------------------------------------------------
Step(p) ==
  \/ Close(p) \/ Select(p) \/ StdinEof(p) \/ ReadStdin(p) \/ Write(p)
  \/ Recv(p) \/ RecvEof(p) \/ Source(p) \/ SourceEnds(p)
Next == \E p \in Sides : Step(p)
Spec == Init /\ [][Next]_vars

-----------------------------------------------------------------------------
(* Properties                                                                *)

Chunks(p, f)  == FlattenSeq([k \in DOMAIN out[p] |-> IF out[p][k].peek THEN <<>>
                                                     ELSE out[p][k][f]])
\* What the other side's terminal stands for here, as far as it was written.
Sent(p) == IF Has(p, "c") THEN Added(typed[p]) ELSE typed[p]

\* looptcp.c, sinktcp.c: what was read is what the other side wrote, in order,
\* through any chunks, conversions and peeks; and wrote is what was typed.
ReadIsWritten(p) ==
  /\ IsPrefix(Chunks(p, "chunk"), wrote[Peer(p)])
  /\ pc[Peer(p)] # "exit" /\ ~Has(Peer(p), "i") =>
       wrote[Peer(p)] \o FlattenSeq(towrite[Peer(p)]) = Sent(Peer(p))
  /\ Chunks(p, "shown") = (IF Has(p, "c") THEN Stripped(Chunks(p, "chunk"))
                           ELSE Chunks(p, "chunk"))

\* A chunk that was peeked at is read next; more may have come after it.
PeekedIsRead(p) ==
  \A k \in DOMAIN out[p] :
    out[p][k].peek /\ k < Len(out[p]) =>
      /\ ~out[p][k + 1].peek
      /\ IsPrefix(out[p][k].chunk, out[p][k + 1].chunk)

\* Who saw end of file has read all the other wrote: who leaves at the end of its
\* own input, without -h, has not.
EofIsComplete(p) == cause[p] = "eof" => Chunks(p, "chunk") = wrote[Peer(p)]

\* "destination not big enough": crlf_add and crlf_strip also refuse what fits
\* exactly, as 1024 bytes read with the default sizes do.
NeedsWholeBuffer(s) == Len(s) >= WriteLen
RefusesOnlyFull(s) ==
  /\ CrlfAdd(s) = Refused => NeedsWholeBuffer(Added(s))
  /\ CrlfAdd(s) # Refused => CrlfAdd(s) = Added(s) /\ Len(Added(s)) <= WriteLen
  /\ CrlfStrip(s) = Refused => NeedsWholeBuffer(Stripped(s))

\* write.c: UIO_MAXIOV parts are enough for any length.
PartsSuffice ==
  \A n \in 0 .. MaxIov * MaxIov :
    Parts(n).done /\ Parts(n).ptr = n /\ Parts(n).left = 0

CopiesFaithfully ==
  /\ \A p \in Sides : /\ ReadIsWritten(p) /\ PeekedIsRead(p) /\ EofIsComplete(p)
                      /\ RefusesOnlyFull(input[p])
  /\ PartsSuffice
==============================================================================
