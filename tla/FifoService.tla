----------------------------- MODULE FifoService -----------------------------
(* What the servers with a queue between a producer and its consumers        *)
(* promise: the items offered to the server (datagrams, connections) are     *)
(* served once each, in the order they were accepted, until the server ends. *)
(* Items are numbered in the order of acceptance.                            *)
EXTENDS Naturals

VARIABLES accepted,   \* how many items the server's kernel has accepted
          served,     \* the item served last, 0 before the first
          server      \* "running" or "ended"

ServiceInit == accepted = 0 /\ served = 0 /\ server = "running"

Accept == accepted' = accepted + 1 /\ UNCHANGED <<served, server>>

Serve == /\ server = "running"
         /\ served < accepted
         /\ served' = served + 1
         /\ UNCHANGED <<accepted, server>>

End == server = "running" /\ server' = "ended" /\ UNCHANGED <<accepted, served>>

ServiceNext == Accept \/ Serve \/ End

ServiceSpec ==
  ServiceInit /\ [][ServiceNext]_<<accepted, served, server>>
==============================================================================
