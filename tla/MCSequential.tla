----------------------------- MODULE MCSequential -----------------------------
(***************************************************************************)
(* The components that run under somebody else's lock or on one thread:    *)
(* the send queue, the two receive buffers, the HPACK tables, the HTTP/2   *)
(* framing and the sample protocol.  A behaviour is one of these, chosen   *)
(* at the start.                                                           *)
(***************************************************************************)
EXTENDS SendQueue

CONSTANTS
    InitialCapacity, MaximumCapacity, MaxWritten,              \* receive buffers
    Headers, EntrySize, MaximumDynamicTableSize, MaximumHeaderListSize,
    TableSizes, MaxBlock,                                      \* HPACK
    StreamIds, Numbers, MaximumFrameSize, MaxFrames,           \* framing
    Messages, BadLengths, Registered, MaximumPayload, MaximumBuffer,
    MaximumTasks, MaxSent                                      \* sample protocol

VARIABLES
    part,                                     \* the component at work
    ring, linear, written, replies,           \* receive buffers
    encoder, decoder, block, last,            \* HPACK
    sent, unread, buffer, parsed, refused,    \* framing
    peer, session, tasks, handled             \* sample protocol

Buffers == INSTANCE ReceiveBuffers
Hpack == INSTANCE Hpack
Framing == INSTANCE H2Frames
Sample == INSTANCE SampleProtocol

ASSUME OptionsAreValid ==
    Buffers!BufferOptionsAreValid /\ Sample!SampleOptionsAreValid

queueVars == <<q, offered, verdict>>
bufferVars == <<ring, linear, written, replies>>
hpackVars == <<encoder, decoder, block, last>>
frameVars == <<sent, unread, buffer, parsed, refused>>
sampleVars == <<peer, session, tasks, handled>>
allVars == <<part, queueVars, bufferVars, hpackVars, frameVars, sampleVars>>

\* Nothing is sent in the behaviours of the other components.
FramingIdle ==
    sent = <<>> /\ unread = <<>> /\ buffer = <<>> /\ parsed = <<>> /\ refused = FALSE

SampleIdle ==
    /\ peer = [sent |-> <<>>, unread |-> <<>>]
    /\ session = [buffer |-> <<>>, stopped |-> FALSE, feeding |-> FALSE,
                  status |-> "Ready"]
    /\ tasks = [queue |-> <<>>, stopped |-> FALSE] /\ handled = <<>>

PartsInit ==
    /\ Init /\ Buffers!Init /\ Hpack!HpackInit
    /\ \/ part = "framing" /\ Framing!FramesInit /\ SampleIdle
       \/ part = "sample" /\ Sample!SampleInit /\ FramingIdle
       \/ part \in {"queue", "buffers", "hpack"} /\ FramingIdle /\ SampleIdle

PartsNext ==
    \/ /\ part = "queue" /\ Next
       /\ UNCHANGED <<part, bufferVars, hpackVars, frameVars, sampleVars>>
    \/ /\ part = "buffers" /\ Buffers!Next
       /\ UNCHANGED <<part, queueVars, hpackVars, frameVars, sampleVars>>
    \/ /\ part = "hpack" /\ Hpack!HpackNext
       /\ UNCHANGED <<part, queueVars, bufferVars, frameVars, sampleVars>>
    \/ /\ part = "framing" /\ Framing!FramesNext
       /\ UNCHANGED <<part, queueVars, bufferVars, hpackVars, sampleVars>>
    \/ /\ part = "sample" /\ Sample!SampleNext
       /\ UNCHANGED <<part, queueVars, bufferVars, hpackVars, frameVars>>

PartsSpec == PartsInit /\ [][PartsNext]_allVars

------------------------------------------------------------------------------
(* Values *)

\* One to three segments of 0 to 3 bytes, with empty and null segments at the
\* front, in the middle and at the end.
MCBatches ==
    {<<1>>, <<3>>, <<0, 2>>, <<2, 0>>, <<2, 1>>, <<1, 2>>, <<0>>,
     <<1, 1, 1>>, <<1, 0, 2>>, <<1, Null>>, <<Null, 2>>}

Header(name, value) == [name |-> name, value |-> value]

\* A header of the static table, one with a static name, two that share a name
\* of their own, and one that fills the table.
MCHeaders ==
    {Header(8, 8), Header(8, 99), Header(100, 1), Header(100, 2), Header(101, 3)}

MCEntrySize ==
    [header \in MCHeaders |-> CASE header.name = 8 -> 42
                                [] header.name = 100 -> 35
                                [] header.name = 101 -> 90]

\* No payload, one byte, and two bytes under an id without a handler.
MCMessages ==
    {[id |-> 1, payload |-> <<>>], [id |-> 258, payload |-> <<7>>],
     [id |-> 3, payload |-> <<7, 9>>]}

------------------------------------------------------------------------------
(* Properties of the instances *)

\* Both receive buffers are the same bounded FIFO of bytes to their session:
\* wrapping, growing and compacting never lose, repeat or reorder a byte, and
\* bytes are refused only when they do not fit under the maximum.
BuffersAreFifos == Buffers!BuffersAreFifos

\* Every header block decodes to the headers that were encoded, whatever was
\* sent, evicted and resized before, or is refused for its size alone.
BlocksDecode == Hpack!BlocksDecode

\* However the bytes are cut, the frames found are those that were encoded, on
\* streams below 65536.
FramesRoundTrip == Framing!FramesRoundTrip

\* However the bytes are cut, sample messages are dispatched in order, each
\* once, and a session that stops names the true cause.
MessagesArriveOnce == Sample!MessagesArriveOnce
==============================================================================
