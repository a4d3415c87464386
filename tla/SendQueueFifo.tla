---------------------------- MODULE SendQueueFifo ----------------------------
(***************************************************************************)
(* The abstract specification of the send queue: a bounded FIFO of bytes   *)
(* that takes a batch whole or not at all and gives bytes back in the      *)
(* order they came.  verdict is what the last operation reported.          *)
(***************************************************************************)
EXTENDS ByteQueue, SequencesExt

CONSTANTS
    Batches,      \* the batches offered: sequences of segment sizes or Null
    MaxPushes,    \* bound: batches offered in one behaviour
    Null          \* a null segment pointer

VARIABLES
    fifo,         \* the unsent bytes, oldest first
    offered,      \* number of batches offered so far; names new segments
    verdict       \* the last operation: [outcome, batch offered, bytes to take]

vars == <<fifo, offered, verdict>>

Verdict(outcome, batch, bytes) ==
    [outcome |-> outcome, batch |-> batch, bytes |-> bytes]

\* The bytes of a batch of the given segment sizes, oldest first.
BytesOf(id, sizes) ==
    FlattenSeq([s \in DOMAIN sizes |->
        [i \in 1..sizes[s] |-> [seg |-> <<id, s>>, pos |-> i]]])

HasNull(batch) == \E s \in DOMAIN batch : batch[s] = Null

Init == fifo = <<>> /\ offered = 0 /\ verdict = Verdict("none", <<>>, 0)

Offer(batch) ==
    LET accepted == ~HasNull(batch) /\ Admits(fifo, BytesOf(offered, batch))
    IN  /\ offered < MaxPushes
        /\ offered' = offered + 1
        /\ verdict' = Verdict(IF accepted THEN "accepted" ELSE "rejected", batch, 0)
        /\ fifo' = IF accepted THEN fifo \o BytesOf(offered, batch) ELSE fifo

\* n sent bytes leave the front; the verdict says whether what remains starts
\* at the beginning of a segment.
Take(n) ==
    /\ n \in 1..Len(fifo)
    /\ fifo' = Consume(fifo, n)
    /\ verdict' = Verdict(IF fifo' = <<>> \/ Head(fifo').pos = 1
                          THEN "item_completed" ELSE "progress", <<>>, n)
    /\ UNCHANGED offered

\* A count that is zero or more than the queue holds changes nothing.
Refuse(n) ==
    /\ n \notin 1..Len(fifo)
    /\ verdict' = Verdict("invalid", <<>>, n)
    /\ UNCHANGED <<fifo, offered>>

Drop == fifo' = <<>> /\ verdict' = Verdict("cleared", <<>>, 0) /\ UNCHANGED offered

Next ==
    \/ \E batch \in Batches : Offer(batch)
    \/ \E n \in 0..MaximumBytes + 1 : Take(n) \/ Refuse(n)
    \/ Drop

Spec == Init /\ [][Next]_vars
==============================================================================
