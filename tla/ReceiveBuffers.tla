---------------------------- MODULE ReceiveBuffers ----------------------------
(***************************************************************************)
(* buffer/ring_receive_buffer and buffer/receive_buffer, side by side on   *)
(* the same calls: the ring wraps around its storage and copies only when  *)
(* it grows, the linear buffer moves its bytes to the front of the storage *)
(* before it grows.  Storage is a function from offset to byte.            *)
(***************************************************************************)
EXTENDS Naturals, Sequences, FiniteSetsExt

CONSTANTS
    InitialCapacity,   \* initial_capacity
    MaximumCapacity,   \* maximum_capacity_
    MaxWritten         \* bound: bytes written in one behaviour

\* The constructors throw unless these hold.
BufferOptionsAreValid ==
    InitialCapacity \in 1..MaximumCapacity

VARIABLES
    ring,      \* [storage, read_offset, readable_bytes]
    linear,    \* [storage, read_offset, write_offset]
    written,   \* number of bytes that have arrived
    replies    \* what the last operation returned: [ring, linear]

vars == <<ring, linear, written, replies>>

\* A storage of this capacity; a byte never written is 0.
Storage(capacity) == [offset \in 0..capacity - 1 |-> 0]

Capacity(b) == Cardinality(DOMAIN b.storage)

\* The doubling loop of EnsureWritable: the capacity is doubled until it is
\* enough, and set to the maximum rather than doubled past half of it.
Doubled[capacity \in Nat \ {0}] ==
    {capacity} \cup (IF capacity > MaximumCapacity \div 2
                     THEN {MaximumCapacity} ELSE Doubled[capacity * 2])

NextCapacity(capacity, required) ==
    Max({Min({c \in Doubled[capacity] : c >= required}), required})

------------------------------------------------------------------------------
(* The ring *)

RingWritable(b) == Capacity(b) - b.readable_bytes

\* ReadableSequence: up to the end of the storage, and the rest from its start.
RingReadable(b) ==
    LET first == Min({b.readable_bytes, Capacity(b) - b.read_offset})
    IN  [i \in 1..first |-> b.storage[b.read_offset + i - 1]]
        \o [i \in 1..b.readable_bytes - first |-> b.storage[i - 1]]

\* WritableSequence: the offsets that may be written, in order.
RingWritableOffsets(b) ==
    LET at    == (b.read_offset + b.readable_bytes) % Capacity(b)
        first == Min({RingWritable(b), Capacity(b) - at})
    IN  [i \in 1..first |-> at + i - 1]
        \o [i \in 1..RingWritable(b) - first |-> i - 1]

\* MUTANT: the storage grows in place, with the bytes where they were.
RingGrownInPlace(b, capacity) ==
    [b EXCEPT !.storage = [offset \in 0..capacity - 1 |->
                              IF offset < Capacity(b) THEN b.storage[offset] ELSE 0]]

\* Grow: the readable bytes move to the front of a larger storage.
RingGrown(b, capacity) ==
    [b EXCEPT !.storage = [offset \in 0..capacity - 1 |->
                              IF offset < b.readable_bytes
                              THEN RingReadable(b)[offset + 1] ELSE 0],
              !.read_offset = 0]

RingExceeds(b, minimum) ==
    minimum > RingWritable(b) /\ minimum > MaximumCapacity - b.readable_bytes

RingEnsureWritable(b, minimum) ==
    IF minimum <= RingWritable(b) \/ RingExceeds(b, minimum) THEN b
    ELSE RingGrown(b, NextCapacity(Capacity(b), b.readable_bytes + minimum))

\* The bytes are copied into the writable space, and committed.
RingCommitted(b, bytes) ==
    LET at == RingWritableOffsets(b)
    IN  [b EXCEPT !.storage = [offset \in DOMAIN b.storage |->
                     IF \E i \in DOMAIN bytes : at[i] = offset
                     THEN bytes[CHOOSE i \in DOMAIN bytes : at[i] = offset]
                     ELSE b.storage[offset]],
                  !.readable_bytes = @ + Len(bytes)]

RingConsumed(b, n) ==
    IF n = b.readable_bytes THEN [b EXCEPT !.read_offset = 0, !.readable_bytes = 0]
    ELSE [b EXCEPT !.read_offset = (@ + n) % Capacity(b),
                   !.readable_bytes = @ - n]

RingCleared(b) == [b EXCEPT !.read_offset = 0, !.readable_bytes = 0]

------------------------------------------------------------------------------
(* The linear buffer *)

LinearReadableBytes(b) == b.write_offset - b.read_offset

LinearWritable(b) == Capacity(b) - b.write_offset

LinearReadable(b) ==
    [i \in 1..LinearReadableBytes(b) |-> b.storage[b.read_offset + i - 1]]

\* Compact: the readable bytes move to the front.
Compacted(b) ==
    [storage |-> [offset \in DOMAIN b.storage |->
                     IF offset < LinearReadableBytes(b)
                     THEN b.storage[b.read_offset + offset] ELSE b.storage[offset]],
     read_offset |-> 0, write_offset |-> LinearReadableBytes(b)]

Resized(b, capacity) ==
    [b EXCEPT !.storage = [offset \in 0..capacity - 1 |->
                  IF offset < Capacity(b) THEN b.storage[offset] ELSE 0]]

LinearExceeds(b, minimum) ==
    /\ minimum > LinearWritable(b)
    /\ minimum > MaximumCapacity - LinearReadableBytes(b)

LinearEnsureWritable(b, minimum) ==
    LET compact  == IF b.read_offset # 0 THEN Compacted(b) ELSE b
        required == LinearReadableBytes(b) + minimum
    IN  IF minimum <= LinearWritable(b) \/ LinearExceeds(b, minimum) THEN b
        ELSE IF minimum <= LinearWritable(compact) THEN compact
        ELSE Resized(compact, NextCapacity(Capacity(b), required))

LinearCommitted(b, bytes) ==
    [b EXCEPT !.storage = [offset \in DOMAIN b.storage |->
                  IF offset - b.write_offset \in 0..Len(bytes) - 1
                  THEN bytes[offset - b.write_offset + 1] ELSE b.storage[offset]],
              !.write_offset = @ + Len(bytes)]

LinearConsumed(b, n) ==
    IF b.read_offset + n = b.write_offset
    THEN [b EXCEPT !.read_offset = 0, !.write_offset = 0]
    ELSE [b EXCEPT !.read_offset = @ + n]

LinearCleared(b) == [b EXCEPT !.read_offset = 0, !.write_offset = 0]

------------------------------------------------------------------------------
(* Both on the same calls *)

NewBytes(from, n) == [i \in 1..n |-> from + i]

Init ==
    /\ ring = [storage |-> Storage(InitialCapacity), read_offset |-> 0,
               readable_bytes |-> 0]
    /\ linear = [storage |-> Storage(InitialCapacity), read_offset |-> 0,
                 write_offset |-> 0]
    /\ written = 0 /\ replies = [ring |-> "none", linear |-> "none"]

\* EnsureWritable(minimum); if it returns Ready, n bytes are written and
\* committed.  Append is the case n = minimum.
Receive(minimum, n) ==
    LET refused == [ring |-> RingExceeds(ring, minimum),
                    linear |-> LinearExceeds(linear, minimum)]
        bytes   == NewBytes(written, n)
        reserved == [ring |-> RingEnsureWritable(ring, minimum),
                     linear |-> LinearEnsureWritable(linear, minimum)]
    IN  /\ n <= minimum /\ written + n <= MaxWritten
        /\ ring' = IF refused.ring THEN ring
                   ELSE RingCommitted(reserved.ring, bytes)
        /\ linear' = IF refused.linear THEN linear
                     ELSE LinearCommitted(reserved.linear, bytes)
        /\ replies' = [b \in {"ring", "linear"} |->
                          IF refused[b] THEN "LimitExceeded" ELSE "Ready"]
        /\ written' = IF refused.ring THEN written ELSE written + n

\* Consume throws when it is asked for more than there is.
Consume(n) ==
    LET refused == [ring |-> n > ring.readable_bytes,
                    linear |-> n > LinearReadableBytes(linear)]
    IN  /\ ring' = IF refused.ring THEN ring ELSE RingConsumed(ring, n)
        /\ linear' = IF refused.linear THEN linear ELSE LinearConsumed(linear, n)
        /\ replies' = [b \in {"ring", "linear"} |->
                          IF refused[b] THEN "thrown" ELSE "none"]
        /\ UNCHANGED written

Clear ==
    /\ ring' = RingCleared(ring) /\ linear' = LinearCleared(linear)
    /\ replies' = [ring |-> "none", linear |-> "none"]
    /\ UNCHANGED written

Next ==
    \/ \E minimum \in 0..MaximumCapacity + 1 :
        Consume(minimum) \/ \E n \in 0..minimum : Receive(minimum, n)
    \/ Clear

Spec == Init /\ [][Next]_vars

------------------------------------------------------------------------------
(* Properties *)

RingFifo == INSTANCE ReceiveFifo WITH
    fifo <- RingReadable(ring), reply <- replies.ring

LinearFifo == INSTANCE ReceiveFifo WITH
    fifo <- LinearReadable(linear), reply <- replies.linear

CapacityIsBounded ==
    Capacity(ring) <= MaximumCapacity /\ Capacity(linear) <= MaximumCapacity

\* Both buffers are the same bounded FIFO of bytes to their session: wrapping,
\* growing and compacting never lose, repeat or reorder a byte, a partial
\* commit exposes only what was written, a refusal changes nothing, bytes are
\* refused only when they do not fit under the maximum, and no storage
\* outgrows it.
BuffersAreFifos == RingFifo!Spec /\ LinearFifo!Spec /\ []CapacityIsBounded
==============================================================================
