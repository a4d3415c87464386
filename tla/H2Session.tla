------------------------------- MODULE H2Session -------------------------------
(***************************************************************************)
(* protocol/http2/http2_stream: the session of one HTTP/2 connection       *)
(* composed with its outbound scheduler.  The receive callback of the      *)
(* connection feeds bytes; under the session's mutex the loop of Feed      *)
(* takes one frame after the other, while handler threads submit responses *)
(* to the scheduler without that mutex.                                    *)
(*                                                                         *)
(* A frame is a record of what its handler looks at; it is drawn when the  *)
(* loop takes it from the receive buffer, so that the buffer is a number   *)
(* of complete frames.  What the handlers reject before they touch any     *)
(* state (lengths, stream 0, paddings, PUSH_PROMISE) is the frame type     *)
(* "MALFORMED"; the header block is one of its outcomes.                   *)
(***************************************************************************)
EXTENDS H2Outbound

CONSTANTS
    Peers,             \* kinds of peer: [frames, responses, limit], where limit
                       \*   bounds the frames fed in one behaviour
    InitialWindow,     \* config_.initial_window_size
    MaximumBody,       \* config_.maximum_request_body_size
    MaximumStreams,    \* config_.maximum_concurrent_streams
    MaximumBuffered,   \* frames the receive buffer has room for
    MaxFeed            \* bound: frames in one Feed

ASSUME SessionOptionsAreValid ==
    /\ InitialWindow \in Nat \ {0, 1} /\ MaximumBody \in Nat \ {0}
    /\ MaximumStreams \in Nat /\ MaximumBuffered \in Nat \ {0}
    /\ MaxFeed \in Nat \ {0}

VARIABLES
    ses,       \* the session: [state, last, settled, continuation, window,
               \*   streams, buffered, feeding, status, dispatch]
    link,      \* the TCP connection takes frames and delivers bytes
    peer,      \* the peer of this connection
    fed,       \* frames fed so far
    flowed,    \* history: flow-controlled bytes per stream and in all (0)
    body,      \* history: body bytes the peer has sent, per stream
    reset,     \* history: streams the session closed before their response
    oversized, \* history: a body was refused for its size
    requests   \* history: per stream, the bodies dispatched to the router

sessionVars == <<ses, link, fed, flowed, body, reset, oversized, requests>>
vars == <<outboundVars, sessionVars, peer>>

Init ==
    /\ OutboundInit
    /\ ses = [state |-> "ExpectPreface", last |-> 0, settled |-> FALSE,
              continuation |-> 0, window |-> InitialWindow, streams |-> <<>>,
              buffered |-> 0, feeding |-> FALSE, status |-> "Ready",
              dispatch |-> 0]
    /\ link = TRUE /\ peer \in Peers /\ fed = 0
    /\ flowed = [t \in Threads |-> 0] /\ body = [id \in StreamIds |-> 0]
    /\ reset = {} /\ oversized = FALSE
    /\ requests = [id \in StreamIds |-> <<>>]

------------------------------------------------------------------------------
(* Feed *)

\* The mutex is held and the thread has handed over the frames of its last
\* call; a request that waits for its dispatch comes first.
InLoop ==
    /\ ses.feeding /\ ses.status = "Ready" /\ ses.dispatch = 0
    /\ out[Session] = <<>>

\* The session's own frames, after what the scheduler built in the same call.
Queue(frames) == out' = [out EXCEPT ![Session] = frames]

\* FailConnection: GOAWAY, and nothing is left of the session.  The scheduler
\* stays open until the sender has the GOAWAY.
FailConnection(s) ==
    /\ ses' = [s EXCEPT !.state = "Closed", !.buffered = 0, !.streams = <<>>,
                        !.continuation = 0, !.status = "CloseRequired"]
    /\ Queue(IF s.state = "ExpectPreface" THEN <<>> ELSE <<Frame("GOAWAY", 0, 0)>>)
    /\ UNCHANGED <<ob, handler, built, granted, reset, oversized, requests>>

\* The end of FailConnection: responses that wait are dropped, later ones
\* refused.
FailConnectionCloses ==
    /\ ses.status = "CloseRequired" /\ out[Session] = <<>> /\ ~ob.closed
    /\ ob' = Close(ob)
    /\ UNCHANGED <<out, handler, wire, built, granted, sessionVars, peer>>

\* Bytes arrive: k more frames are complete in the receive buffer, or there is
\* no room for them.
Feed(k) ==
    /\ link /\ ~ses.feeding /\ out[Session] = <<>>
    /\ fed + k <= peer.limit /\ fed' = fed + k
    /\ LET s == [ses EXCEPT !.feeding = TRUE]
       IN  \/ /\ ses.state = "Closed"
              /\ ses' = [s EXCEPT !.status = "Stopped"]
              /\ UNCHANGED <<outboundVars, reset, oversized, requests>>
           \/ /\ ses.state # "Closed" /\ ses.buffered + k > MaximumBuffered
              /\ FailConnection(s) /\ UNCHANGED wire
           \/ /\ ses.state # "Closed" /\ ses.buffered + k <= MaximumBuffered
              /\ ses' = [s EXCEPT !.buffered = @ + k]
              /\ UNCHANGED <<outboundVars, reset, oversized, requests>>
    /\ UNCHANGED <<link, peer, flowed, body>>

\* Feed returns: the buffer is empty, the session no longer reads, or a call
\* failed.  The receive handler of the HTTP server closes the connection for
\* some of the results and not for BufferLimitExceeded.
FeedReturns ==
    /\ ses.feeding /\ out[Session] = <<>> /\ ses.dispatch = 0
    /\ ses.status # "Ready" \/ ses.buffered = 0 \/ ses.state = "Closing"
    /\ ses.status = "CloseRequired" => ob.closed
    /\ ses' = [ses EXCEPT !.feeding = FALSE, !.status = "Ready"]
    /\ link' = (ses.status \notin {"CloseRequired", "Stopped", "ExecutorSaturated",
                                   "ExecutorStopped"})
    /\ UNCHANGED <<outboundVars, peer, fed, flowed, body, reset, oversized, requests>>

\* The first bytes are the preface, answered with SETTINGS, or they are not.
ConsumePreface(match) ==
    /\ InLoop /\ ses.state = "ExpectPreface" /\ ses.buffered > 0
    /\ LET s == [ses EXCEPT !.buffered = @ - 1]
       IN  IF match
           THEN /\ ses' = [s EXCEPT !.state = "Connected"]
                /\ Queue(<<Frame("SETTINGS", 0, 0)>>)
                /\ UNCHANGED <<ob, handler, built, granted, reset, oversized,
                               requests>>
           ELSE FailConnection([s EXCEPT !.state = "Closing"])
    /\ UNCHANGED <<wire, link, peer, fed, flowed, body>>

------------------------------------------------------------------------------
(* Frame handlers: s is the session after the frame left the buffer *)

\* A call of the scheduler with one of its results, and the session's frames.
Calls(s, results, frames) ==
    /\ \E r \in results : Unlock(Session, [r EXCEPT !.frames = @ \o frames])
    /\ ses' = s
    /\ UNCHANGED <<handler, reset, oversized, requests>>

\* The handler only changes the session.
Keeps(s, frames) == Calls(s, {[o |-> ob, frames |-> <<>>]}, frames) /\ UNCHANGED granted

HandleSettings(s, f) ==
    CASE f.ack -> Keeps(s, <<>>)
      [] ~f.ack /\ TakesSettings(ob, f.window) ->
            /\ Calls([s EXCEPT !.settled = TRUE],
                     ApplyPeerSettings(ob, f.window, f.frame),
                     <<Frame("SETTINGS_ACK", 0, 0)>>)
            /\ UNCHANGED granted
      [] OTHER -> FailConnection(s)

WithoutStream(s, id) ==
    [s EXCEPT !.streams = [i \in DOMAIN @ \ {id} |-> @[i]]]

\* MUTANT: the scheduler is not told.
ForgetStream(s, id, frames) ==
    /\ ses' = WithoutStream(s, id) /\ Queue(frames)
    /\ reset' = (IF id \in DOMAIN ob.streams THEN reset \cup {id} ELSE reset)
    /\ UNCHANGED <<ob, handler, built, granted, requests>>

\* CloseStream: the session and the scheduler forget the stream.
DropStream(s, id, frames) ==
    /\ ses' = WithoutStream(s, id) /\ Queue(frames)
    /\ ob' = CloseStream(ob, id)
    /\ reset' = (IF id \in DOMAIN ob.streams THEN reset \cup {id} ELSE reset)
    /\ UNCHANGED <<handler, built, granted, requests>>

\* HEADERS opens a stream with a higher identifier, while there is room for
\* one.
Opens(s, f) ==
    /\ f.type = "HEADERS" /\ f.stream > s.last
    /\ Cardinality(DOMAIN s.streams) < MaximumStreams

\* HEADERS and CONTINUATION: the fragment is kept until END_HEADERS, then the
\* block is decoded.  f.block is "valid", "invalid" (a request the session
\* rejects) or "undecodable" (HPACK throws).  END_STREAM counts on HEADERS
\* only.
HandleHeaders(s, f) ==
    LET fresh  == [window |-> InitialWindow, body |-> 0, end_stream |-> f.end_stream]
        opened == IF f.type = "HEADERS"
                  THEN [s EXCEPT !.last = f.stream,
                                 !.streams = (f.stream :> fresh) @@ @]
                  ELSE s
        after  == [opened EXCEPT !.continuation = 0]
        o      == OpenStream(ob, f.stream)
    IN  CASE ~Opens(s, f) /\ s.continuation = 0 -> FailConnection(s)
          [] OTHER ->
             CASE ~f.end_headers ->
                    Calls([opened EXCEPT !.continuation = f.stream],
                          {[o |-> o, frames |-> <<>>]}, <<>>) /\ UNCHANGED granted
               [] f.end_headers /\ f.block = "invalid" ->
                    FailConnection(opened)
               [] f.end_headers /\ f.block = "undecodable" ->
                    /\ DropStream(after, f.stream, <<Frame("RST_STREAM", f.stream, 0)>>)
                    /\ UNCHANGED oversized
               [] f.end_headers /\ f.block = "valid" ->
                    LET ended == after.streams[f.stream].end_stream
                    IN  /\ Calls([after EXCEPT !.dispatch =
                                     IF ended THEN f.stream ELSE 0],
                                 {[o |-> o, frames |-> <<>>]}, <<>>)
                        /\ UNCHANGED granted

\* MUTANT: the stream's own window is announced but not restored.
RefillAnnouncedOnly(window, id) ==
    IF window < InitialWindow \div 2
    THEN [window |-> window,
          frames |-> <<Frame("WINDOW_UPDATE", id, InitialWindow - window)>>]
    ELSE [window |-> window, frames |-> <<>>]

\* A receive window below half is filled up, and the peer is told.
Refill(window, id) ==
    IF window < InitialWindow \div 2
    THEN [window |-> InitialWindow,
          frames |-> <<Frame("WINDOW_UPDATE", id, InitialWindow - window)>>]
    ELSE [window |-> window, frames |-> <<>>]

\* DATA: flow control counts the padding, the body does not.
HandleData(s, f) ==
    LET id   == f.stream
        flow == f.data + f.pad
        st   == s.streams[id]
        conn == Refill(s.window - flow, 0)
        own  == Refill(st.window - flow, id)
    IN  CASE id \notin DOMAIN s.streams \/ st.end_stream -> FailConnection(s)
          [] OTHER ->
             CASE flow > st.window \/ flow > s.window -> FailConnection(s)
               [] flow <= st.window /\ flow <= s.window
                    /\ st.body + f.data > MaximumBody ->
                    /\ DropStream([s EXCEPT !.status = "BufferLimitExceeded"], id, <<>>)
                    /\ oversized' = TRUE
               [] OTHER ->
                    Keeps([s EXCEPT !.window = conn.window,
                                    !.dispatch = IF f.end_stream THEN id ELSE 0,
                                    !.streams[id] =
                                        [window |-> own.window,
                                         body |-> st.body + f.data,
                                         end_stream |-> f.end_stream]],
                          conn.frames \o own.frames)

\* WINDOW_UPDATE: one for a stream that is gone is ignored, one for a stream
\* that never was is not.
HandleWindowUpdate(s, f) ==
    CASE f.stream = 0 /\ TakesConnectionUpdate(ob, f.n) ->
            /\ Calls(s, UpdateConnectionWindow(ob, f.n), <<>>)
            /\ granted' = [granted EXCEPT ![Session] = @ + f.n]
      [] f.stream # 0 /\ TakesStreamUpdate(ob, f.stream, f.n) ->
            /\ Calls(s, UpdateStreamWindow(ob, f.stream, f.n), <<>>)
            /\ granted' = [granted EXCEPT ![f.stream] = @ + f.n]
      [] OTHER ->
            IF f.n = 0 \/ f.stream = 0 \/ f.stream > s.last
            THEN FailConnection(s) ELSE Keeps(s, <<>>)

\* Frames the loop of Feed refuses for what came before them: the first frame
\* is SETTINGS, and only CONTINUATION of the same stream follows HEADERS
\* without END_HEADERS.
OutOfPlace(s, f) ==
    \/ ~s.settled /\ (f.type # "SETTINGS" \/ f.ack)
    \/ s.continuation # 0
         /\ (f.type # "CONTINUATION" \/ f.stream # s.continuation)

Handle(s, f) ==
    CASE f.type = "MALFORMED" -> FailConnection(s)
      [] f.type = "SETTINGS" -> HandleSettings(s, f)
      [] f.type \in {"HEADERS", "CONTINUATION"} -> HandleHeaders(s, f)
      [] f.type = "DATA" -> HandleData(s, f)
      [] f.type = "RST_STREAM" -> DropStream(s, f.stream, <<>>) /\ UNCHANGED oversized
      [] f.type = "WINDOW_UPDATE" -> HandleWindowUpdate(s, f)
      [] f.type = "PING" ->
            Keeps(s, IF f.ack THEN <<>> ELSE <<Frame("PING_ACK", 0, 0)>>)
      [] f.type = "GOAWAY" -> Keeps([s EXCEPT !.state = "Closing"], <<>>)
      [] f.type = "PRIORITY" -> Keeps(s, <<>>)

ConsumeFrame(f) ==
    /\ InLoop /\ ses.state = "Connected" /\ ses.buffered > 0
    /\ LET s == [ses EXCEPT !.buffered = @ - 1]
       IN  IF OutOfPlace(s, f) THEN FailConnection(s) ELSE Handle(s, f)
    /\ flowed' = IF f.type # "DATA" THEN flowed
                 ELSE [flowed EXCEPT ![0] = @ + f.data + f.pad,
                                     ![f.stream] = @ + f.data + f.pad]
    /\ body' = IF f.type # "DATA" \/ f.stream \notin DOMAIN ses.streams THEN body
               ELSE [body EXCEPT ![f.stream] = @ + f.data]
    /\ UNCHANGED <<wire, link, peer, fed>>

\* The request goes to the router, which posts its handler on the application
\* pool.  The stream leaves the session; its output stays with the scheduler
\* unless the pool refused.
DispatchRequest(status) ==
    /\ ses.dispatch # 0 /\ out[Session] = <<>>
    /\ LET id == ses.dispatch
           s  == [WithoutStream(ses, id) EXCEPT !.dispatch = 0]
       IN  \/ /\ status = "Accepted"
              /\ ses' = s
              /\ handler' = [handler EXCEPT ![id] = "running"]
              /\ requests' = [requests EXCEPT ![id] =
                                 Append(@, ses.streams[id].body)]
              /\ UNCHANGED <<ob, out, built, granted, reset>>
           \/ /\ status # "Accepted"
              /\ DropStream([s EXCEPT !.status = status], id, <<>>)
    /\ UNCHANGED <<wire, link, peer, fed, flowed, body, oversized>>

------------------------------------------------------------------------------
(* The owner of the session, between two calls of Feed *)

SendGoaway ==
    /\ ~ses.feeding /\ ses.state = "Connected" /\ out[Session] = <<>>
    /\ ses' = [ses EXCEPT !.state = "Closing"]
    /\ Queue(<<Frame("GOAWAY", 0, 0)>>)
    /\ UNCHANGED <<ob, handler, wire, built, granted, link, peer, fed, flowed,
                   body, reset, oversized, requests>>

CloseSession ==
    /\ ~ses.feeding /\ out[Session] = <<>>
    /\ ses' = [ses EXCEPT !.state = "Closed", !.streams = <<>>]
    /\ ob' = Close(ob)
    /\ UNCHANGED <<out, handler, wire, built, granted, link, peer, fed, flowed,
                   body, reset, oversized, requests>>

------------------------------------------------------------------------------

Respond(id) ==
    /\ \E r \in peer.responses : SubmitResponse(id, r[1], r[2])
    /\ UNCHANGED <<sessionVars, peer>>

Sends(t) == SendFrames(t) /\ UNCHANGED <<sessionVars, peer>>

Next ==
    \/ \E k \in 1..MaxFeed : Feed(k)
    \/ FeedReturns \/ FailConnectionCloses
    \/ \E match \in BOOLEAN : ConsumePreface(match)
    \/ \E f \in peer.frames : ConsumeFrame(f)
    \/ \E status \in {"Accepted", "ExecutorSaturated", "ExecutorStopped"} :
          DispatchRequest(status)
    \/ SendGoaway \/ CloseSession
    \/ \E id \in StreamIds : Respond(id)
    \/ \E t \in Threads : Sends(t)

Spec == Init /\ [][Next]_vars

------------------------------------------------------------------------------
(* Properties *)

\* A receive window as the peer knows it: the updates it was sent less the
\* bytes it has used, padding included.
PeerWindow(t) ==
    InitialWindow - flowed[t] +
        FoldLeft(LAMBDA n, f : IF f.type = "WINDOW_UPDATE" /\ f.stream = t
                               THEN n + f.n ELSE n, 0, wire)

\* An upload never stalls and an honest peer is never accused: once the
\* updates of HandleData are out, session and peer agree on every receive
\* window and no window is below half.  Bodies refused for their size are
\* excepted: HandleData returns before it counts their bytes.
UploadsNeverStall ==
    ses.state = "Connected" /\ out[Session] = <<>> /\ ~oversized =>
        /\ PeerWindow(0) = ses.window /\ ses.window >= InitialWindow \div 2
        /\ \A id \in DOMAIN ses.streams :
              /\ PeerWindow(id) = ses.streams[id].window
              /\ ses.streams[id].window >= InitialWindow \div 2

\* A request reaches its handler at most once, with the body bytes of all its
\* DATA frames and without their padding, and the output of a stream outlives
\* its session entry only while a handler or an unsent body needs it, or until
\* FailConnection gets to close the scheduler.
RequestsAreWhole ==
    /\ \A id \in StreamIds : requests[id] \in {<<>>, <<body[id]>>}
    /\ ses.status # "CloseRequired" => DOMAIN ob.streams \subseteq
          DOMAIN ses.streams \cup Submitted(ob)
              \cup {id \in StreamIds : handler[id] = "running"}

\* A response is sent unless its stream was reset or the session closed: the
\* test of the window update expects the DATA of a response submitted after
\* the update.
OpenStreamTakesResponse ==
    \A id \in StreamIds : handler[id] = "refused" => id \in reset \/ ob.closed
==============================================================================
