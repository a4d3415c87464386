------------------------------ MODULE ByteQueue ------------------------------
(***************************************************************************)
(* What a send queue is to the connection that owns it: a bounded FIFO of  *)
(* bytes.  A byte is a record [seg, pos]: the segment (buffer) it belongs  *)
(* to and its position in it.  Batches, per-segment offsets and shared     *)
(* buffers are the business of module SendQueue, which is checked against  *)
(* these operators; module TcpConnection is built on them.                 *)
(***************************************************************************)
EXTENDS Naturals, Sequences, FiniteSets

CONSTANTS
    MaximumItems,   \* maximum_items_: unsent segments the queue may hold
    MaximumBytes    \* maximum_bytes_: unsent bytes the queue may hold

ASSUME LimitsArePositive ==
    /\ MaximumItems \in Nat \ {0}
    /\ MaximumBytes \in Nat \ {0}

\* The distinct segments with at least one byte in q.
SegmentsOf(q) == {q[i].seg : i \in DOMAIN q}

ItemCount(q) == Cardinality(SegmentsOf(q))

\* Admission of a whole batch: all of it fits under both limits, or none.
Admits(q, batch) ==
    /\ ItemCount(q) + ItemCount(batch) <= MaximumItems
    /\ Len(q) + Len(batch) <= MaximumBytes

\* The first n bytes of q may be submitted by one gather.
FitsGather(q, n, segments, bytes) ==
    /\ n <= bytes
    /\ ItemCount(SubSeq(q, 1, n)) <= segments

\* The lengths Gather may return: the longest prefix of q under both gather
\* limits, so exactly one length.
GatherLengths(q, segments, bytes) ==
    {n \in 0..Len(q) :
        /\ FitsGather(q, n, segments, bytes)
        /\ n = Len(q) \/ ~FitsGather(q, n + 1, segments, bytes)}

\* What is left after the first n bytes were sent.
Consume(q, n) == SubSeq(q, n + 1, Len(q))
==============================================================================
