----------------------------- MODULE ByteQueue ------------------------------
(***************************************************************************)
(* What the receive side of a UART promises the firmware: a bounded queue.  *)
(* Bytes come out in the order they went in, none is lost, none is made     *)
(* up, and only a reset of the receiver discards what is inside.            *)
(***************************************************************************)
EXTENDS Naturals, Sequences

CONSTANTS Capacity, Byte

VARIABLE queue

Chunks == UNION {[1 .. n -> Byte] : n \in 1 .. Capacity}

QueueInit == queue = <<>>

Arrive(c) == Len(queue) + Len(c) <= Capacity /\ queue' = queue \o c
Take == queue # <<>> /\ queue' = Tail(queue)
Discard == queue' = <<>>

QueueNext == Take \/ Discard \/ \E c \in Chunks : Arrive(c)

QueueSpec == QueueInit /\ [][QueueNext]_queue
=============================================================================
