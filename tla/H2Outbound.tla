------------------------------ MODULE H2Outbound ------------------------------
(***************************************************************************)
(* protocol/http2/http2_outbound: the responses of one HTTP/2 connection   *)
(* under the peer's flow control.  The session's thread applies settings   *)
(* and window updates while application threads submit responses; each     *)
(* call builds frames under the mutex and hands them to the frame sender,  *)
(* one by one, after it has released the mutex.  A body is its length, a   *)
(* DATA frame the range of the body it carries, the state of the HPACK     *)
(* encoder the number of header blocks it has encoded.                     *)
(*                                                                         *)
(* The calls of the session are operators on the fields under the mutex;   *)
(* module H2Session makes them inside its frame handlers.                  *)
(***************************************************************************)
EXTENDS Integers, SequencesExt

CONSTANTS
    StreamIds,        \* client streams, one handler thread each
    MaximumWindow,    \* kMaximumWindow
    ConnectionWindow, \* initial connection_window_
    InitialWindows,   \* values of SETTINGS_INITIAL_WINDOW_SIZE, the first included
    FrameSizes        \* values of SETTINGS_MAX_FRAME_SIZE, the first included

ASSUME OutboundOptionsAreValid ==
    /\ StreamIds \subseteq Nat \ {0} /\ MaximumWindow \in Nat
    /\ ConnectionWindow \in 0..MaximumWindow
    /\ InitialWindows \subseteq Nat /\ FrameSizes \subseteq Nat \ {0}

Session == 0                   \* the thread that feeds the session
Threads == StreamIds \cup {Session}

VARIABLES
    ob,        \* fields under the mutex: [closed, connection_window,
               \*   initial_window, maximum_frame, encoded, streams]
    out,       \* per thread: frames built and not yet handed to the sender
    handler,   \* per stream: "none", "running", "sent" or "refused"
    wire,      \* frames handed to the sender, in order
    built,     \* history: per stream, body bytes put into DATA frames
    granted    \* history: increments per stream, and for the connection (0)

outboundVars == <<ob, out, handler, wire, built, granted>>

OutboundInit ==
    /\ ob \in [closed : {FALSE}, connection_window : {ConnectionWindow},
               initial_window : {w \in InitialWindows : w <= MaximumWindow},
               maximum_frame : FrameSizes, encoded : {0},
               streams : {<<>>}]
    /\ out = [t \in Threads |-> <<>>] /\ wire = <<>>
    /\ handler = [id \in StreamIds |-> "none"]
    /\ built = [id \in StreamIds |-> 0] /\ granted = [t \in Threads |-> 0]

------------------------------------------------------------------------------
(* Under the mutex *)

\* A frame without a payload that matters; n is its increment or block number.
Frame(type, id, n) ==
    [type |-> type, stream |-> id, n |-> n, from |-> 0, to |-> 0,
     end_headers |-> FALSE, end_stream |-> FALSE]

\* Frames of a header block: HEADERS, then CONTINUATION as often as needed;
\* the flags are on the last one.
HeaderFrames(o, id, block, end_stream) ==
    LET count == (block + o.maximum_frame - 1) \div o.maximum_frame
    IN  [i \in 1..count |->
            [Frame(IF i = 1 THEN "HEADERS" ELSE "CONTINUATION", id, o.encoded + 1)
                EXCEPT !.end_headers = (i = count),
                       !.end_stream = (i = count /\ end_stream)]]

\* The bytes FlushStreamLocked moves: its loop ends when the body, the window
\* of the stream or the window of the connection is used up.
Sendable(o, id) ==
    Max({0, Min({o.streams[id].body - o.streams[id].offset,
                 o.streams[id].window, o.connection_window})})

\* DATA frames for the next n bytes, split at the peer's frame size.
DataFrames(o, id, n) ==
    LET start == o.streams[id].offset
        count == (n + o.maximum_frame - 1) \div o.maximum_frame
    IN  [i \in 1..count |->
            LET to == start + Min({n, i * o.maximum_frame})
            IN  [Frame("DATA", id, 0) EXCEPT
                    !.from = start + (i - 1) * o.maximum_frame, !.to = to,
                    !.end_stream = (to = o.streams[id].body)]]

Erase(o, id) == [o EXCEPT !.streams = [s \in DOMAIN @ \ {id} |-> @[s]]]

\* FlushStreamLocked, with the caller's erase of a stream that is finished:
\* acc is [o, frames].
FlushStream(acc, id) ==
    LET n     == Sendable(acc.o, id)
        moved == [acc.o EXCEPT !.streams[id].offset = @ + n,
                               !.streams[id].window = @ - n,
                               !.connection_window = @ - n]
        done  == moved.streams[id].offset = moved.streams[id].body
    IN  [o |-> IF done THEN Erase(moved, id) ELSE moved,
         frames |-> acc.frames \o DataFrames(acc.o, id, n)]

Submitted(o) == {id \in DOMAIN o.streams : o.streams[id].response_submitted}

\* MUTANT: nothing is flushed.
FlushNone(o) == {[o |-> o, frames |-> <<>>]}

\* FlushAllLocked: one result for each order the hash map may have.
FlushAll(o) ==
    {FoldLeft(FlushStream, [o |-> o, frames |-> <<>>], order) :
        order \in SetToSeqs(Submitted(o))}

------------------------------------------------------------------------------
(* The calls of the session: the fields after the call, or every result
   [o, frames] the call may have *)

OpenStream(o, id) ==
    IF o.closed \/ id \in DOMAIN o.streams THEN o
    ELSE [o EXCEPT !.streams = (id :> [window |-> o.initial_window, body |-> 0,
                                       offset |-> 0, response_submitted |-> FALSE])
                                  @@ @]

CloseStream(o, id) == Erase(o, id)

Close(o) == [o EXCEPT !.closed = TRUE, !.streams = <<>>]

\* MUTANT: only streams opened later get the new initial window.
ShiftedLater(o, window) == [o EXCEPT !.initial_window = window]

\* All stream windows move by the difference to the old initial window.
Shifted(o, window) ==
    [o EXCEPT !.initial_window = window,
              !.streams = [id \in DOMAIN @ |->
                  [@[id] EXCEPT !.window = @ + window - o.initial_window]]]

TakesSettings(o, window) ==
    /\ ~o.closed /\ window <= MaximumWindow
    /\ \A id \in DOMAIN o.streams :
          o.streams[id].window + window - o.initial_window <= MaximumWindow

ApplyPeerSettings(o, window, frame) ==
    FlushAll([Shifted(o, window) EXCEPT !.maximum_frame = frame])

TakesConnectionUpdate(o, n) ==
    ~o.closed /\ n # 0 /\ o.connection_window + n <= MaximumWindow

UpdateConnectionWindow(o, n) == FlushAll([o EXCEPT !.connection_window = @ + n])

TakesStreamUpdate(o, id, n) ==
    /\ ~o.closed /\ n # 0 /\ id \in DOMAIN o.streams
    /\ o.streams[id].window + n <= MaximumWindow

\* The stream is flushed whether or not its response was submitted: without
\* one its empty body counts as finished and the stream is erased.
UpdateStreamWindow(o, id, n) ==
    {FlushStream([o |-> [o EXCEPT !.streams[id].window = @ + n],
                  frames |-> <<>>], id)}

------------------------------------------------------------------------------
(* Steps of the threads *)

\* The end of a critical section: new fields, and frames for the thread.
Unlock(t, result) ==
    /\ ob' = result.o
    /\ out' = [out EXCEPT ![t] = result.frames]
    /\ built' = [id \in StreamIds |-> built[id] +
           FoldLeft(LAMBDA n, f : IF f.stream = id THEN n + f.to - f.from ELSE n,
                    0, result.frames)]

\* MUTANT: a response is taken although the stream has had one.
SubmitResponseAgain(id, block, body) ==
    /\ handler[id] \in {"running", "sent"} /\ out[id] = <<>>
    /\ IF id \in DOMAIN ob.streams
       THEN LET taken == [ob EXCEPT !.streams[id].response_submitted = TRUE,
                                    !.streams[id].body = body, !.encoded = @ + 1]
                head  == HeaderFrames(ob, id, block, body = 0)
            IN  /\ Unlock(id, FlushStream([o |-> taken, frames |-> head], id))
                /\ handler' = [handler EXCEPT ![id] = "sent"]
       ELSE /\ handler' = [handler EXCEPT ![id] = "refused"]
            /\ UNCHANGED <<ob, out, built>>
    /\ UNCHANGED <<wire, granted>>

\* A handler finishes: the response is refused when the stream is gone, and
\* otherwise its header block and as much of its body as the windows allow
\* become frames.
SubmitResponse(id, block, body) ==
    /\ handler[id] = "running"
    /\ IF id \in DOMAIN ob.streams /\ ~ob.streams[id].response_submitted
       THEN LET taken == [ob EXCEPT !.streams[id].response_submitted = TRUE,
                                    !.streams[id].body = body, !.encoded = @ + 1]
                head  == HeaderFrames(ob, id, block, body = 0)
            IN  /\ Unlock(id, FlushStream([o |-> taken, frames |-> head], id))
                /\ handler' = [handler EXCEPT ![id] = "sent"]
       ELSE /\ handler' = [handler EXCEPT ![id] = "refused"]
            /\ UNCHANGED <<ob, out, built>>
    /\ UNCHANGED <<wire, granted>>

\* One turn of the loop of SendFrames, without the mutex; also how the session
\* hands over its own frames.
SendFrames(t) ==
    /\ out[t] # <<>>
    /\ wire' = Append(wire, Head(out[t]))
    /\ out' = [out EXCEPT ![t] = Tail(@)]
    /\ UNCHANGED <<ob, handler, built, granted>>

------------------------------------------------------------------------------
(* Properties *)

OutboundTypeOK ==
    /\ ob.closed \in BOOLEAN /\ DOMAIN ob.streams \subseteq StreamIds
    /\ \A id \in DOMAIN ob.streams :
        ob.streams[id] \in [window : Int, body : Nat, offset : Nat,
                           response_submitted : BOOLEAN]
    /\ handler \in [StreamIds -> {"none", "running", "sent", "refused"}]

\* The windows the scheduler keeps are the peer's: what the peer granted less
\* what was put into DATA frames, through settings changes that make windows
\* negative and flushes by any thread.  The connection never overdraws its
\* window and no window passes the protocol's maximum.
WindowsAreExact ==
    /\ OutboundTypeOK
    /\ ob.connection_window \in 0..MaximumWindow
    /\ ob.connection_window =
          ConnectionWindow + granted[Session] - SumFunction(built)
    /\ \A id \in DOMAIN ob.streams :
        /\ ob.streams[id].window = ob.initial_window + granted[id] - built[id]
        /\ ob.streams[id].window <= MaximumWindow

\* No response waits for a window update that will not come: whenever the
\* mutex is free, a stream with bytes left has no window of its own or the
\* connection has none.
NothingSendableWaits ==
    \A id \in Submitted(ob) :
        ob.streams[id].window <= 0 \/ ob.connection_window = 0

\* The response frames of a stream, handed over or still with the thread that
\* built them.
FramesOf(id) ==
    SelectSeq(wire \o out[Session] \o out[id], LAMBDA f :
        f.stream = id /\ f.type \in {"HEADERS", "CONTINUATION", "DATA"})

\* Whichever threads build them, the DATA frames of a stream carry every byte
\* of its body once up to where the flush got, a response has one header
\* block, and only a frame that reaches the end of the body ends the stream.
EveryByteOnce ==
    \A id \in StreamIds :
        LET frames == FramesOf(id)
            headers == {i \in DOMAIN frames : frames[i].type = "HEADERS"}
            ends == {i \in DOMAIN frames : frames[i].end_stream}
        IN  /\ \A p \in 0..built[id] - 1 :
                  Quantify(DOMAIN frames,
                      LAMBDA i : frames[i].from <= p /\ p < frames[i].to) = 1
            /\ Cardinality(headers) = (IF handler[id] = "sent" THEN 1 ELSE 0)
            /\ Cardinality(ends) <= 1
            /\ \A i \in ends : frames[i].to = built[id]
            /\ id \in Submitted(ob) => ends = {}

\* "connection HPACK/flow state is serialised in the session and the outbound
\* scheduler": header blocks reach the wire in the order in which the HPACK
\* encoder encoded them, each in one piece, and no frame of a stream follows
\* the one with END_STREAM.
WireFollowsEncoder ==
    \A i, j \in DOMAIN wire : i < j =>
        /\ wire[i].type \in {"HEADERS", "CONTINUATION"} =>
              /\ wire[j].type \in {"HEADERS", "CONTINUATION"} => wire[i].n <= wire[j].n
              /\ j = i + 1 /\ ~wire[i].end_headers =>
                    wire[j].type = "CONTINUATION" /\ wire[j].stream = wire[i].stream
        /\ wire[i].end_stream => wire[j].stream # wire[i].stream
==============================================================================
