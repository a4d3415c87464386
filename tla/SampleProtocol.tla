---------------------------- MODULE SampleProtocol ----------------------------
(***************************************************************************)
(* protocol/sample: the length-prefixed codec, the session that finds the  *)
(* messages in what it is fed, and the dispatcher that posts each to an    *)
(* executor.  A frame is four bytes of body length, two of message id, and *)
(* the payload.                                                            *)
(***************************************************************************)
EXTENDS Integers, SequencesExt

CONSTANTS
    Messages,          \* what the peer sends: records [id, payload]
    BadLengths,        \* body lengths it sends without a message
    Registered,        \* message ids with a handler
    MaximumPayload,    \* maximum_payload_bytes
    MaximumBuffer,     \* maximum_buffer_bytes
    MaximumTasks,      \* pending tasks the executor takes
    MaxSent            \* bound: frames sent

kLengthPrefixBytes == 4
kMessageIdBytes == 2
kFrameOverheadBytes == kLengthPrefixBytes + kMessageIdBytes

\* The session's constructor throws unless this holds.
SampleOptionsAreValid ==
    /\ MaximumBuffer >= kFrameOverheadBytes
    /\ MaximumPayload <= MaximumBuffer - kFrameOverheadBytes

VARIABLES
    peer,         \* [sent, unread]: the frames, and their bytes still to come
    session,      \* [buffer, stopped, feeding, status]
    tasks,        \* [queue, stopped]: the executor
    handled       \* messages whose handler has run

sampleVars == <<peer, session, tasks, handled>>

------------------------------------------------------------------------------
(* The codec *)

WriteBigEndian(value, bytes) ==
    [i \in 1..bytes |-> (value \div 256 ^ (bytes - i)) % 256]

ReadBigEndian(input, at, bytes) ==
    FoldLeft(LAMBDA value, byte : value * 256 + byte, 0,
             SubSeq(input, at + 1, at + bytes))

Encode(message) ==
    WriteBigEndian(kMessageIdBytes + Len(message.payload), kLengthPrefixBytes)
        \o WriteBigEndian(message.id, kMessageIdBytes) \o message.payload

Decoded(status, error, consumed, message) ==
    [status |-> status, error |-> error, consumed |-> consumed,
     message |-> message]

NoMessage == [id |-> -1, payload |-> <<>>]

\* MUTANT: the message id is consumed twice.
DecodeConsumesMore(input) ==
    LET body  == ReadBigEndian(input, 0, kLengthPrefixBytes)
        total == kLengthPrefixBytes + body
    IN  IF Len(input) < kLengthPrefixBytes
        THEN Decoded("Incomplete", "None", 0, NoMessage)
        ELSE IF body < kMessageIdBytes \/ body - kMessageIdBytes > MaximumPayload
        THEN Decoded("Error", "PayloadTooLarge", 0, NoMessage)
        ELSE IF Len(input) < total
        THEN Decoded("Incomplete", "None", 0, NoMessage)
        ELSE Decoded("Complete", "None", total + kMessageIdBytes,
                     [id |-> ReadBigEndian(input, kLengthPrefixBytes, kMessageIdBytes),
                      payload |-> SubSeq(input, kFrameOverheadBytes + 1, total)])

Decode(input) ==
    LET body  == ReadBigEndian(input, 0, kLengthPrefixBytes)
        total == kLengthPrefixBytes + body
    IN  IF Len(input) < kLengthPrefixBytes
        THEN Decoded("Incomplete", "None", 0, NoMessage)
        ELSE IF body < kMessageIdBytes
        THEN Decoded("Error", "BodyTooSmall", 0, NoMessage)
        ELSE IF body - kMessageIdBytes > MaximumPayload
        THEN Decoded("Error", "PayloadTooLarge", 0, NoMessage)
        ELSE IF Len(input) < total
        THEN Decoded("Incomplete", "None", 0, NoMessage)
        ELSE Decoded("Complete", "None", total,
                     [id |-> ReadBigEndian(input, kLengthPrefixBytes, kMessageIdBytes),
                      payload |-> SubSeq(input, kFrameOverheadBytes + 1, total)])

------------------------------------------------------------------------------
(* The session *)

Wire(frame) ==
    IF frame.id >= 0 THEN Encode(frame)
    ELSE WriteBigEndian(frame.payload[1], kLengthPrefixBytes) \o <<0, 0>>

SampleInit ==
    /\ \E n \in 1..MaxSent :
        \E sent \in [1..n -> Messages \cup {[NoMessage EXCEPT !.payload = <<length>>] :
                                                length \in BadLengths}] :
            peer = [sent |-> sent,
                    unread |-> FlattenSeq([i \in 1..n |-> Wire(sent[i])])]
    /\ session = [buffer |-> <<>>, stopped |-> FALSE, feeding |-> FALSE,
                  status |-> "Ready"]
    /\ tasks = [queue |-> <<>>, stopped |-> FALSE]
    /\ handled = <<>>

Fail(s, status) == [s EXCEPT !.stopped = TRUE, !.feeding = FALSE, !.status = status]

\* Feed up to its loop: a stopped session takes nothing.
Feed(n) ==
    /\ ~session.feeding
    /\ peer' = [peer EXCEPT !.unread = SubSeq(@, n + 1, Len(@))]
    /\ session' =
           IF session.stopped THEN [session EXCEPT !.status = "Stopped"]
           ELSE IF Len(session.buffer) + n > MaximumBuffer
           THEN Fail(session, "BufferLimitExceeded")
           ELSE [session EXCEPT !.buffer = @ \o SubSeq(peer.unread, 1, n),
                                !.feeding = TRUE]
    /\ UNCHANGED <<tasks, handled>>

\* Dispatch and what the executor's Post makes of it.
Dispatch(message) ==
    IF message.id \notin Registered THEN "HandlerNotFound"
    ELSE IF tasks.stopped THEN "ExecutorStopped"
    ELSE IF Len(tasks.queue) >= MaximumTasks THEN "ExecutorSaturated"
    ELSE "Accepted"

\* One turn of Feed's loop: the message is consumed after it was dispatched.
FeedTurn ==
    /\ session.feeding
    /\ \E decoded \in {Decode(session.buffer)} :
        \/ /\ decoded.status = "Incomplete"
           /\ session' = [session EXCEPT !.feeding = FALSE, !.status = "Ready"]
           /\ UNCHANGED tasks
        \/ /\ decoded.status = "Error"
           /\ session' = Fail(session, "ProtocolError")
           /\ UNCHANGED tasks
        \/ /\ decoded.status = "Complete"
           /\ LET status == Dispatch(decoded.message)
              IN  IF status # "Accepted"
                  THEN session' = Fail(session, status) /\ UNCHANGED tasks
                  ELSE /\ session' = [session EXCEPT
                              !.buffer = SubSeq(@, decoded.consumed + 1, Len(@))]
                       /\ tasks' = [tasks EXCEPT !.queue =
                              Append(@, decoded.message)]
    /\ UNCHANGED <<peer, handled>>

\* The executor runs the oldest task; it may be stopped, draining.
RunTask ==
    /\ tasks.queue # <<>>
    /\ handled' = Append(handled, Head(tasks.queue))
    /\ tasks' = [tasks EXCEPT !.queue = Tail(@)]
    /\ UNCHANGED <<peer, session>>

StopTasks ==
    /\ ~tasks.stopped /\ tasks' = [tasks EXCEPT !.stopped = TRUE]
    /\ UNCHANGED <<peer, session, handled>>

SampleNext ==
    \/ \E n \in 1..Len(peer.unread) : Feed(n)
    \/ FeedTurn \/ RunTask \/ StopTasks

------------------------------------------------------------------------------
(* Properties *)

Dispatched == handled \o tasks.queue

\* The next frame the session has not dispatched.
Pending == peer.sent[Len(Dispatched) + 1]

\* However the bytes are cut, messages are dispatched in order, each once and
\* with its payload; a session that goes on has missed none; and one that has
\* stopped names the true cause of the message it stopped at, which stays in
\* its buffer.
MessagesArriveOnce ==
    /\ IsPrefix(Dispatched, peer.sent)
    /\ peer.unread = <<>> /\ ~session.feeding /\ ~session.stopped =>
           Dispatched = peer.sent /\ session.buffer = <<>>
    /\ session.status = "HandlerNotFound" => Pending.id \notin Registered
    /\ session.status = "ProtocolError" => Pending.id = -1
    /\ session.status = "ExecutorStopped" => tasks.stopped
    /\ session.status \in {"HandlerNotFound", "ExecutorStopped", "ExecutorSaturated"}
           => Decode(session.buffer).message = Pending
==============================================================================
