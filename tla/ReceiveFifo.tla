------------------------------ MODULE ReceiveFifo -----------------------------
(***************************************************************************)
(* What a receive buffer is to the session that owns it: a FIFO of bytes   *)
(* that takes any bytes that fit under maximum_capacity_, however they are *)
(* laid out in its storage.  Bytes are numbered in the order they arrive.  *)
(***************************************************************************)
EXTENDS Naturals, Sequences

CONSTANTS
    MaximumCapacity,   \* maximum_capacity_
    MaxWritten         \* bound: bytes written in one behaviour

VARIABLES
    fifo,      \* the readable bytes, oldest first
    written,   \* number of bytes that have arrived
    reply      \* what the last operation returned

vars == <<fifo, written, reply>>

NewBytes(from, n) == [i \in 1..n |-> from + i]

Init == fifo = <<>> /\ written = 0 /\ reply = "none"

\* EnsureWritable(minimum), and bytes written into the space and committed:
\* as many as were asked for, or fewer when less was received.
Receive(minimum, n) ==
    /\ n <= minimum /\ written + n <= MaxWritten
    /\ IF Len(fifo) + minimum <= MaximumCapacity
       THEN /\ fifo' = fifo \o NewBytes(written, n)
            /\ written' = written + n /\ reply' = "Ready"
       ELSE /\ reply' = "LimitExceeded"
            /\ UNCHANGED <<fifo, written>>

Consume(n) ==
    /\ IF n <= Len(fifo)
       THEN fifo' = SubSeq(fifo, n + 1, Len(fifo)) /\ reply' = "none"
       ELSE reply' = "thrown" /\ UNCHANGED fifo
    /\ UNCHANGED written

Clear == fifo' = <<>> /\ reply' = "none" /\ UNCHANGED written

Next ==
    \/ \E minimum \in 0..MaximumCapacity + 1 :
        Consume(minimum) \/ \E n \in 0..minimum : Receive(minimum, n)
    \/ Clear

Spec == Init /\ [][Next]_vars
==============================================================================
