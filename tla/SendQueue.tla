------------------------------ MODULE SendQueue ------------------------------
(***************************************************************************)
(* transport/send_queue: the deque of batches, each with its segments, the *)
(* index of the first unfinished segment and the send offset inside every  *)
(* segment, with the two counters kept beside it.  The operations are      *)
(* functions of the queue record, as in the code they are methods that run *)
(* under the owning connection's mutex.                                    *)
(***************************************************************************)
EXTENDS ByteQueue, Integers, SequencesExt

CONSTANTS
    Batches,      \* the batches offered: sequences of segment sizes or Null
    MaxPushes,    \* bound: batches offered in one behaviour
    Null          \* a null segment pointer

VARIABLES
    q,            \* [batches, item_count, queued_bytes]
    offered,      \* number of batches offered so far; names new segments
    verdict       \* the last operation: [outcome, batch offered, bytes to take]

vars == <<q, offered, verdict>>

Verdict(outcome, batch, bytes) ==
    [outcome |-> outcome, batch |-> batch, bytes |-> bytes]

EmptyQueue == [batches |-> <<>>, item_count |-> 0, queued_bytes |-> 0]

------------------------------------------------------------------------------
(* Admission *)

\* MUTANT: the byte check rejects a segment that exactly fills the queue.
ExceedsWhenExactlyFull(queue, acc, size) ==
    \/ acc.items = MaximumItems - queue.item_count
    \/ size >= MaximumBytes - queue.queued_bytes - acc.bytes

\* One more segment of this size would exceed a limit.
Exceeds(queue, acc, size) ==
    \/ acc.items = MaximumItems - queue.item_count
    \/ size > MaximumBytes - queue.queued_bytes - acc.bytes

\* The admission loop: a null segment, or one that would exceed a limit,
\* rejects the whole batch; an empty segment is skipped.
Admission(queue, sizes) ==
    LET step(acc, size) ==
            IF ~acc.ok \/ size = 0 THEN acc
            ELSE IF size = Null \/ Exceeds(queue, acc, size)
                 THEN [acc EXCEPT !.ok = FALSE]
                 ELSE [acc EXCEPT !.items = @ + 1, !.bytes = @ + size]
    IN  FoldLeft(step, [ok |-> TRUE, items |-> 0, bytes |-> 0], sizes)

\* The segments that enter the queue: the non-empty ones, at offset 0.
NewSegments(id, sizes) ==
    SelectSeq([s \in DOMAIN sizes |->
                  [seg |-> <<id, s>>, size |-> sizes[s], offset |-> 0]],
              LAMBDA segment : segment.size # 0)

TryPushBatch(queue, id, sizes) ==
    LET admitted == Admission(queue, sizes)
    IN  IF ~admitted.ok \/ admitted.items = 0 THEN queue
        ELSE [batches      |-> Append(queue.batches,
                                      [segments     |-> NewSegments(id, sizes),
                                       next_segment |-> 1]),
              item_count   |-> queue.item_count + admitted.items,
              queued_bytes |-> queue.queued_bytes + admitted.bytes]

------------------------------------------------------------------------------
(* Gathering and consuming *)

\* The unfinished segments of all batches, in queue order: what the two
\* nested loops of Gather run over.
Unfinished(queue) ==
    FlattenSeq([b \in DOMAIN queue.batches |->
        SubSeq(queue.batches[b].segments,
               queue.batches[b].next_segment,
               Len(queue.batches[b].segments))])

\* The bytes of a slice: from the segment's send offset on.
Slice(segment, bytes) ==
    [i \in 1..bytes |-> [seg |-> segment.seg, pos |-> segment.offset + i]]

\* MUTANT: the last slice is not cut at the byte limit.
GatherUncut(queue, segments, bytes) ==
    LET step(acc, segment) ==
            IF acc.slices = segments \/ Len(acc.bytes) >= bytes THEN acc
            ELSE [slices |-> acc.slices + 1,
                  bytes  |-> acc.bytes \o
                      Slice(segment, segment.size - segment.offset)]
    IN  FoldLeft(step, [slices |-> 0, bytes |-> <<>>], Unfinished(queue))

\* Slices from the front up to the segment and the byte limit; the last one
\* is cut at the byte limit.
Gather(queue, segments, bytes) ==
    LET step(acc, segment) ==
            IF acc.slices = segments \/ Len(acc.bytes) = bytes THEN acc
            ELSE [slices |-> acc.slices + 1,
                  bytes  |-> acc.bytes \o
                      Slice(segment, Min({segment.size - segment.offset,
                                          bytes - Len(acc.bytes)}))]
    IN  FoldLeft(step, [slices |-> 0, bytes |-> <<>>], Unfinished(queue))

\* MUTANT: the item counter follows batches instead of segments.
FinishFrontCountsBatches(queue) ==
    LET front == Head(queue.batches)
    IN  IF front.next_segment = Len(front.segments)
        THEN [queue EXCEPT !.batches = Tail(@), !.item_count = @ - 1]
        ELSE [queue EXCEPT !.batches[1].next_segment = @ + 1]

\* The front segment is fully sent: step over it, and drop its batch when it
\* was the last one.
FinishFront(queue) ==
    LET front == Head(queue.batches)
    IN  IF front.next_segment = Len(front.segments)
        THEN [queue EXCEPT !.batches = Tail(@), !.item_count = @ - 1]
        ELSE [queue EXCEPT !.batches[1].next_segment = @ + 1,
                           !.item_count = @ - 1]

\* The loop of Consume: advance the front segment until n bytes are gone.
RECURSIVE Advance(_, _, _)
Advance(queue, n, completed) ==
    IF n = 0 THEN [queue |-> queue, completed |-> completed]
    ELSE LET at       == queue.batches[1].next_segment
             segment  == queue.batches[1].segments[at]
             consumed == Min({n, segment.size - segment.offset})
             moved    == [queue EXCEPT
                             !.batches[1].segments[at].offset = @ + consumed,
                             !.queued_bytes = @ - consumed]
         IN  IF segment.offset + consumed = segment.size
             THEN Advance(FinishFront(moved), n - consumed, TRUE)
             ELSE Advance(moved, n - consumed, completed)

AtSegmentStart(queue) ==
    \/ queue.batches = <<>>
    \/ LET front == Head(queue.batches)
       IN  front.segments[front.next_segment].offset = 0

ConsumeBytes(queue, n) ==
    IF queue.batches = <<>> \/ n = 0 \/ n > queue.queued_bytes
    THEN [queue |-> queue, result |-> "invalid"]
    ELSE LET after == Advance(queue, n, FALSE)
         IN  [queue  |-> after.queue,
              result |-> IF after.completed /\ AtSegmentStart(after.queue)
                         THEN "item_completed" ELSE "progress"]

------------------------------------------------------------------------------
(* The queue as a state machine *)

Init == q = EmptyQueue /\ offered = 0 /\ verdict = Verdict("none", <<>>, 0)

PushBatch(sizes) ==
    /\ offered < MaxPushes
    /\ q' = TryPushBatch(q, offered, sizes)
    /\ verdict' = Verdict(IF Admission(q, sizes).ok THEN "accepted" ELSE "rejected",
                        sizes, 0)
    /\ offered' = offered + 1

ConsumeFront(n) ==
    /\ q' = ConsumeBytes(q, n).queue
    /\ verdict' = Verdict(ConsumeBytes(q, n).result, <<>>, n)
    /\ UNCHANGED offered

Clear ==
    /\ q' = EmptyQueue /\ verdict' = Verdict("cleared", <<>>, 0)
    /\ UNCHANGED offered

Next ==
    \/ \E sizes \in Batches : PushBatch(sizes)
    \/ \E n \in 0..MaximumBytes + 1 : ConsumeFront(n)
    \/ Clear

Spec == Init /\ [][Next]_vars

------------------------------------------------------------------------------
(* Properties *)

\* All unsent bytes in order, what the queue means to its owner.
Content == Gather(q, MaximumItems + 1, MaximumBytes + 1).bytes

\* Type invariant: every batch in the queue has an unfinished front segment
\* and every offset lies inside its segment, so Front and Consume never index
\* past a batch and never compute a negative remainder.
TypeOK ==
    /\ offered \in 0..MaxPushes
    /\ verdict.outcome \in {"none", "accepted", "rejected", "invalid",
                            "progress", "item_completed", "cleared"}
    /\ verdict.batch \in Batches \cup {<<>>}
    /\ verdict.bytes \in 0..MaximumBytes + 1
    /\ q.item_count \in Nat /\ q.queued_bytes \in Nat
    /\ \A b \in DOMAIN q.batches :
        /\ q.batches[b].next_segment \in 1..Len(q.batches[b].segments)
        /\ \A s \in DOMAIN q.batches[b].segments :
            LET segment == q.batches[b].segments[s]
            IN  /\ segment.offset \in 0..segment.size
                /\ s >= q.batches[b].next_segment
                      => segment.offset < segment.size

\* The counters Consume and TryPushBatch keep by hand are the number of
\* unfinished segments and of unsent bytes, and stay within the limits, so
\* the unsigned subtractions of the admission check never wrap.
CountersAreExact ==
    /\ TypeOK
    /\ q.item_count = ItemCount(Content) /\ q.item_count <= MaximumItems
    /\ q.queued_bytes = Len(Content) /\ q.queued_bytes <= MaximumBytes

\* Gather returns exactly the longest prefix of the unsent bytes under its
\* two limits, whatever they are and wherever partial sends left the offsets.
GatherIsLongestPrefix ==
    \A segments \in 0..MaximumItems + 1, bytes \in 0..MaximumBytes + 1 :
        \A n \in GatherLengths(Content, segments, bytes) :
            Gather(q, segments, bytes).bytes = SubSeq(Content, 1, n)

\* The deque of batches behaves as the bounded byte FIFO of SendQueueFifo:
\* TryPushBatch is all-or-nothing and rejects only what does not fit, Consume
\* removes exactly the bytes sent, in order, and says rightly whether it
\* stopped at a segment boundary.
Fifo == INSTANCE SendQueueFifo WITH fifo <- Content
ImplementsFifo == Fifo!Spec
==============================================================================
