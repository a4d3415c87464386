------------------------------- MODULE H2Frames -------------------------------
(***************************************************************************)
(* protocol/http2/http2_frames and the framing of H2Session: frames as     *)
(* bytes.  One end encodes frames, the other receives the bytes in pieces  *)
(* of any size, finds the frames in its buffer and reads their fields, as  *)
(* the handlers of http2_stream do.  What the frames then mean is the      *)
(* business of H2Session.                                                  *)
(***************************************************************************)
EXTENDS Integers, Bitwise, SequencesExt

CONSTANTS
    StreamIds,          \* the streams frames are sent on
    Numbers,            \* the 31-bit values put in payloads
    MaximumFrameSize,   \* config_.maximum_frame_size
    MaxFrames           \* bound: frames sent

kHeaderSize == 9

VARIABLES
    sent,       \* the frames sent, chosen at the start
    unread,     \* bytes of them not yet received
    buffer,     \* receive_buffer_
    parsed,     \* the frames found, in order
    refused     \* a frame was refused for its length

frameVars == <<sent, unread, buffer, parsed, refused>>

Octet(value, shift) == (value \div 2 ^ shift) & 255

BigEndian32(value) ==
    <<Octet(value, 24) & 127, Octet(value, 16), Octet(value, 8), Octet(value, 0)>>

Read32(bytes, at) ==
    (bytes[at] & 127) * 2 ^ 24 + bytes[at + 1] * 2 ^ 16 + bytes[at + 2] * 2 ^ 8
        + bytes[at + 3]

------------------------------------------------------------------------------
(* Headers *)

EncodeHeader(header) ==
    <<Octet(header.length, 16), Octet(header.length, 8), Octet(header.length, 0),
      header.type, header.flags>> \o BigEndian32(header.stream_id)

\* MUTANT: the reserved bit is cleared in the wrong byte.
DecodeHeaderClearsLowBit(bytes) ==
    [length |-> bytes[1] * 2 ^ 16 + bytes[2] * 2 ^ 8 + bytes[3],
     type |-> bytes[4], flags |-> bytes[5],
     stream_id |-> bytes[8] * 2 ^ 8 + (bytes[9] & 127)]

\* The stream id is put together as the code does it: the two upper bytes take
\* the places of the two lower ones.
DecodeHeader(bytes) ==
    [length |-> bytes[1] * 2 ^ 16 + bytes[2] * 2 ^ 8 + bytes[3],
     type |-> bytes[4], flags |-> bytes[5],
     stream_id |-> (((bytes[6] & 127) * 2 ^ 8 + bytes[7]) | (bytes[8] * 2 ^ 8))
                       | bytes[9]]

------------------------------------------------------------------------------
(* Payloads: RST_STREAM 3, SETTINGS 4, PING 6, GOAWAY 7, WINDOW_UPDATE 8.  The *)
(* 64 bits of a ping are two numbers.                                          *)

\* The number of 31-bit values a frame carries.
Fields(type) == IF type \in {3, 8} THEN 1 ELSE 2

Settings == {<<id, value>> : id \in {3, 5}, value \in Numbers}

Frames ==
    {[type |-> type, stream_id |-> id, values |-> values] :
        type \in {3, 8}, id \in StreamIds, values \in {<<n>> : n \in Numbers}}
    \cup {[type |-> type, stream_id |-> 0, values |-> <<n, n>>] :
             type \in {6, 7}, n \in Numbers}
    \cup {[type |-> 4, stream_id |-> 0, values |-> setting] : setting \in Settings}

\* EncodeSettings puts a 16-bit identifier before each value.
EncodePayload(frame) ==
    IF frame.type = 4
    THEN <<Octet(frame.values[1], 8), Octet(frame.values[1], 0)>>
             \o BigEndian32(frame.values[2])
    ELSE FlattenSeq([i \in DOMAIN frame.values |-> BigEndian32(frame.values[i])])

EncodeFrame(frame) ==
    EncodeHeader([length |-> Len(EncodePayload(frame)), type |-> frame.type,
                  flags |-> 0, stream_id |-> frame.stream_id])
        \o EncodePayload(frame)

\* What the handlers read from a payload.
ReadPayload(type, bytes) ==
    IF type = 4 THEN <<bytes[1] * 2 ^ 8 + bytes[2], Read32(bytes, 3)>>
    ELSE [i \in 1..Fields(type) |-> Read32(bytes, 4 * i - 3)]

------------------------------------------------------------------------------
(* The wire *)

FramesInit ==
    /\ sent \in UNION {[1..n -> Frames] : n \in 1..MaxFrames}
    /\ unread = FlattenSeq([i \in DOMAIN sent |-> EncodeFrame(sent[i])])
    /\ buffer = <<>> /\ parsed = <<>> /\ refused = FALSE

Readable == Len(buffer) >= kHeaderSize

FrameTotal == kHeaderSize + DecodeHeader(buffer).length

\* Feed takes bytes only when the loop over the frames has ended.
ReceiveBytes(n) ==
    /\ ~refused /\ (Readable => Len(buffer) < FrameTotal)
    /\ buffer' = buffer \o SubSeq(unread, 1, n)
    /\ unread' = SubSeq(unread, n + 1, Len(unread))
    /\ UNCHANGED <<sent, parsed, refused>>

\* One turn of ConsumeFrame.
ConsumeFrame ==
    /\ ~refused /\ Readable
    /\ \E header \in {DecodeHeader(buffer)} :
        \/ /\ header.length > MaximumFrameSize /\ refused' = TRUE
           /\ UNCHANGED <<buffer, parsed>>
        \/ /\ header.length <= MaximumFrameSize /\ Len(buffer) >= FrameTotal
           /\ parsed' = Append(parsed,
                  [type |-> header.type, stream_id |-> header.stream_id,
                   values |-> ReadPayload(header.type,
                                  SubSeq(buffer, kHeaderSize + 1, FrameTotal))])
           /\ buffer' = SubSeq(buffer, FrameTotal + 1, Len(buffer))
           /\ UNCHANGED refused
    /\ UNCHANGED <<sent, unread>>

FramesNext == ConsumeFrame \/ \E n \in 1..Len(unread) : ReceiveBytes(n)

FramesSpec == FramesInit /\ [][FramesNext]_frameVars

------------------------------------------------------------------------------
(* Properties *)

\* However the bytes are cut, the frames found are those that were encoded,
\* field by field and in order; only a frame longer than the configured size is
\* refused, and when all bytes have been read nothing is left of them.
FramesRoundTrip ==
    /\ IsPrefix(parsed, sent)
    /\ refused => Len(EncodePayload(sent[Len(parsed) + 1])) > MaximumFrameSize
    /\ unread = <<>> /\ ~refused /\ ~Readable => parsed = sent /\ buffer = <<>>
==============================================================================
