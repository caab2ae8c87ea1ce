----------------------------- MODULE AbstractFifo -----------------------------
(***************************************************************************)
(* What devices/intq.h promises: a bounded queue of bytes, delivered in    *)
(* the order they were added, none lost and none invented.                 *)
(***************************************************************************)
EXTENDS Naturals, Sequences

CONSTANTS Byte, Capacity
VARIABLES
  queue,  \* the bytes added and not yet removed
  got     \* the byte intq_getc last returned

Init == queue = <<>> /\ got \in Byte

Put(b) == Len(queue) < Capacity /\ queue' = Append(queue, b) /\ UNCHANGED got

Get == queue # <<>> /\ got' = Head(queue) /\ queue' = Tail(queue)

Next == Get \/ \E b \in Byte : Put(b)

Spec == Init /\ [][Next]_<<queue, got>>
=============================================================================
