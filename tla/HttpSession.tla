------------------------------ MODULE HttpSession ------------------------------
(***************************************************************************)
(* One HTTP/1.1 connection of the server: the protocol bootstrap that      *)
(* looks for the HTTP/2 preface, protocol/http/http_session with its       *)
(* parser, the router, and the response sender of http_server.  The        *)
(* receive callback feeds the bytes of a stream in pieces of any size; the *)
(* tasks of the connection's serial executor run meanwhile, one after the  *)
(* other (see SerialExecutor), and the connection sends what it accepted   *)
(* in order (see TcpConnection).                                           *)
(***************************************************************************)
EXTENDS HttpParser

CONSTANTS
    Streams,          \* what the peer may send: [bytes, requests, error]
    Preface,          \* the HTTP/2 preface
    Routes,           \* per target: the methods that have a handler
    MaximumBuffer,    \* maximum_buffer_bytes
    MaximumRequests,  \* maximum_requests_per_connection
    MaximumTasks,     \* pending tasks the serial executor takes
    MaximumQueued     \* responses the send queue takes

ASSUME SessionOptionsAreValid ==
    /\ Preface # <<>> /\ MaximumRequests \in Nat \ {0}
    /\ MaximumBuffer \in Nat /\ MaximumTasks \in Nat /\ MaximumQueued \in Nat
    /\ \A target \in DOMAIN Routes : Routes[target] \in SUBSET {"GET", "POST", "PUT", "DELETE"}

VARIABLES
    stream,    \* the stream of this connection
    fed,       \* bytes of it received
    boot,      \* the bootstrap: [pending, selected]
    chunks,    \* the pieces the running receive callback feeds
    in_loop,   \* the first of them is in the loop of Feed
    ses,       \* [buffer, parser, stopped, timed_out, timer, dispatched]
    executor,  \* [state, tasks, running]
    conn,      \* "Active", "Draining" (close_after_send_) or "Closed"
    queue,     \* responses the connection accepted and has not sent
    wire,      \* responses sent
    parsed     \* history: requests parsed, or bytes given to HTTP/2

vars == <<stream, fed, boot, chunks, in_loop, ses, executor, conn, queue, wire,
          parsed>>

NoTask == [answer |-> 0]

Init ==
    /\ stream \in Streams /\ fed = 0
    /\ boot = [pending |-> <<>>, selected |-> "none"]
    /\ chunks = <<>> /\ in_loop = FALSE
    /\ ses = [buffer |-> <<>>, parser |-> Fresh, stopped |-> FALSE,
              timed_out |-> FALSE, timer |-> "idle", dispatched |-> 0]
    /\ executor = [state |-> "Running", tasks |-> <<>>, running |-> NoTask]
    /\ conn = "Active" /\ queue = <<>> /\ wire = <<>> /\ parsed = <<>>

------------------------------------------------------------------------------
(* The response sender and the connection *)

\* An answer to request number n; 100 is not final.
Answer(n, code, close) == [answer |-> n, code |-> code, close |-> close]

BeginClose == conn' = "Closed" /\ queue' = <<>>

\* SendBatch or SendBatchAndClose: refused once a closing response is queued,
\* and an overflow of the queue closes the connection.
Send(response) ==
    \/ /\ conn # "Active" /\ UNCHANGED <<conn, queue>>
    \/ /\ conn = "Active" /\ Len(queue) >= MaximumQueued /\ BeginClose
    \/ /\ conn = "Active" /\ Len(queue) < MaximumQueued
       /\ queue' = Append(queue, response)
       /\ conn' = IF response.close THEN "Draining" ELSE conn

\* A send completes; the last one of a draining connection closes it.
SendCompletes ==
    /\ queue # <<>>
    /\ wire' = Append(wire, Head(queue)) /\ queue' = Tail(queue)
    /\ conn' = IF conn = "Draining" /\ Len(queue) = 1 THEN "Closed" ELSE conn
    /\ UNCHANGED <<stream, fed, boot, chunks, in_loop, ses, executor, parsed>>

PeerCloses ==
    /\ conn # "Closed" /\ BeginClose
    /\ UNCHANGED <<stream, fed, boot, chunks, in_loop, ses, executor, wire, parsed>>

------------------------------------------------------------------------------
(* The executor *)

\* The serial executor posts its drain to the pool with the first task, and a
\* full pool refuses it.
PostStatus ==
    LET idle == executor.tasks = <<>> /\ executor.running = NoTask
    IN  IF executor.state = "Stopped" THEN "ExecutorStopped"
        ELSE IF \/ Len(executor.tasks) >= MaximumTasks
                \/ executor.state = "PoolFull" /\ idle THEN "ExecutorSaturated"
        ELSE "Ready"

Posted(task) ==
    IF PostStatus = "Ready" THEN [executor EXCEPT !.tasks = Append(@, task)]
    ELSE executor

\* The executor is stopped, by Stop or by a Post that found the pool stopped;
\* what it accepted still runs.
StopExecutor ==
    /\ executor.state # "Stopped"
    /\ executor' = [executor EXCEPT !.state = "Stopped"]
    /\ UNCHANGED <<stream, fed, boot, chunks, in_loop, ses, conn, queue, wire, parsed>>

\* The tasks of other connections fill the pool or leave it.
PoolChanges ==
    /\ executor.state # "Stopped"
    /\ executor' = [executor EXCEPT
           !.state = IF @ = "Running" THEN "PoolFull" ELSE "Running"]
    /\ UNCHANGED <<stream, fed, boot, chunks, in_loop, ses, conn, queue, wire, parsed>>

TaskBegins ==
    /\ executor.running = NoTask /\ executor.tasks # <<>>
    /\ executor' = [executor EXCEPT !.running = Head(executor.tasks), !.tasks = Tail(@)]
    /\ UNCHANGED <<stream, fed, boot, chunks, in_loop, ses, conn, queue, wire, parsed>>

\* The task Dispatch posted calls the handler, or has a fallback, and sends the
\* response; a handler may ask for the close in its response, one that throws
\* closes the connection with a 500, and a response that cannot be encoded
\* closes it at once.
TaskReturns(outcome) ==
    LET task == executor.running
        code == IF task.code # 0 THEN task.code
                ELSE IF outcome = "throws" THEN 500 ELSE 200
    IN  /\ task # NoTask
        /\ outcome # "returns" => task.code = 0
        /\ IF outcome = "unencodable" THEN BeginClose
           ELSE Send(Answer(task.answer, code,
                            task.close \/ outcome \in {"closes", "throws"}))
        /\ executor' = [executor EXCEPT !.running = NoTask]
        /\ UNCHANGED <<stream, fed, boot, chunks, in_loop, ses, wire, parsed>>

------------------------------------------------------------------------------
(* Receiving *)

\* PrefaceProtocolBootstrap::Feed: the bytes held back and the new ones are fed
\* in one or two pieces once the first byte that differs from the preface, or
\* its last one, has come.
Selected(bytes) ==
    LET all   == boot.pending \o bytes
        same  == Max({n \in 0..Min({Len(all), Len(Preface)}) :
                         SubSeq(all, 1, n) = SubSeq(Preface, 1, n)})
        first == Min({same + 1, Len(Preface)})
        rest  == SubSeq(all, first + 1, Len(all))
    IN  CASE boot.selected # "none" -> [boot |-> boot, chunks |-> <<bytes>>]
          [] boot.selected = "none" /\ Len(all) = same /\ same < Len(Preface) ->
                [boot |-> [boot EXCEPT !.pending = all], chunks |-> <<>>]
          [] OTHER ->
                [boot |-> [pending |-> <<>>,
                           selected |-> IF same = Len(Preface) THEN "h2" ELSE "http1"],
                 chunks |-> <<SubSeq(all, 1, first)>> \o
                                (IF rest = <<>> THEN <<>> ELSE <<rest>>)]

\* The next k bytes arrive.
Receive(k) ==
    /\ conn # "Closed" /\ chunks = <<>>
    /\ fed + k <= Len(stream.bytes) /\ fed' = fed + k
    /\ LET s == Selected(SubSeq(stream.bytes, fed + 1, fed + k))
       IN  /\ boot' = s.boot
           /\ IF s.boot.selected = "h2"
              THEN parsed' = parsed \o FlattenSeq(s.chunks) /\ chunks' = <<>>
              ELSE parsed' = parsed /\ chunks' = s.chunks
    /\ UNCHANGED <<stream, in_loop, ses, executor, conn, queue, wire>>

\* Feed returns to the receive callback, which goes on with the next piece or
\* closes the connection.
Returns(status) ==
    /\ in_loop' = FALSE
    /\ chunks' = IF status = "Ready" THEN Tail(chunks) ELSE <<>>
    /\ IF status \in {"Stopped", "ExecutorStopped", "ExecutorSaturated"}
       THEN BeginClose ELSE UNCHANGED <<conn, queue>>

\* An exception out of Feed ends the receive callback, and the connection.
HandlerThrows == in_loop' = FALSE /\ chunks' = <<>> /\ BeginClose

\* MUTANT: the error response is sent at once, like the 100.
SendErrorResponse(code, s, failure) ==
    /\ ses' = [s EXCEPT !.stopped = TRUE]
    /\ in_loop' = FALSE /\ chunks' = <<>>
    /\ Send(Answer(s.dispatched + 1, code, TRUE))
    /\ UNCHANGED executor

\* PostErrorResponse: a closing response behind those of the requests before.
PostErrorResponse(code, s, failure) ==
    /\ ses' = [s EXCEPT !.stopped = TRUE]
    /\ executor' = Posted([answer |-> s.dispatched + 1, code |-> code, close |-> TRUE])
    /\ Returns(IF PostStatus = "Ready" THEN failure ELSE PostStatus)

\* The start of Feed, up to its loop.
FeedBegins ==
    /\ chunks # <<>> /\ ~in_loop
    /\ \/ /\ ses.timed_out \/ ses.stopped
          /\ ses' = [ses EXCEPT !.stopped = TRUE,
                                !.timer = IF @ = "armed" /\ ~ses.timed_out
                                          THEN "idle" ELSE @]
          /\ Returns("Stopped")
          /\ UNCHANGED executor
       \/ /\ ~ses.timed_out /\ ~ses.stopped
          /\ Len(ses.buffer) + Len(Head(chunks)) > MaximumBuffer
          /\ PostErrorResponse(413, ses, "BufferLimitExceeded")
       \/ /\ ~ses.timed_out /\ ~ses.stopped
          /\ Len(ses.buffer) + Len(Head(chunks)) <= MaximumBuffer
          /\ ses' = [ses EXCEPT !.buffer = @ \o Head(chunks)]
          /\ in_loop' = TRUE
          /\ UNCHANGED <<chunks, conn, queue, executor>>
    /\ UNCHANGED <<stream, fed, boot, wire, parsed>>

StatusCodeFor(error) ==
    CASE error \in {"RequestLineTooLarge", "InvalidTarget"} -> 414
      [] error \in {"HeaderTooLarge", "TooManyHeaders"} -> 431
      [] error = "BodyTooLarge" -> 413
      [] OTHER -> 400

\* The code of the fallback for a request, 0 when the path has a handler for the
\* method; GET's answers HEAD as well.
Route(line) ==
    LET method == IF line[1] = "HEAD" THEN "GET" ELSE line[1]
    IN  IF line[2] \notin DOMAIN Routes THEN 404
        ELSE IF method \notin Routes[line[2]] THEN 405
        ELSE 0

\* MUTANT: the session's wish to close does not reach the response.
DispatchKeepingOpen(s, request, close) ==
    executor' = Posted([answer |-> s.dispatched, code |-> Route(request.line),
                        close |-> FALSE])

\* HttpRouter::Dispatch: the handler's task, or the fallback's.
Dispatch(s, request, close) ==
    executor' = Posted([answer |-> s.dispatched, code |-> Route(request.line),
                        close |-> close])

\* One turn of Feed's loop, or of the parser's inside it.
FeedTurn ==
    \E r \in {Parse(ses.parser, ses.buffer)} :
    LET s == [ses EXCEPT !.parser = r.p]
    IN  /\ in_loop
        /\ \/ /\ r.status = "Continue"
              /\ ses' = s
              /\ UNCHANGED <<chunks, in_loop, executor, conn, queue, parsed>>
           \/ /\ r.status = "HeadersComplete"
              /\ ses' = s
              /\ Send(Answer(s.dispatched + 1, 100, FALSE))
              /\ UNCHANGED <<chunks, in_loop, executor, parsed>>
           \/ /\ r.status = "Incomplete"
              /\ ses' = [s EXCEPT !.timer = IF s.timed_out THEN @ ELSE "armed"]
              /\ Returns("Ready")
              /\ UNCHANGED <<executor, parsed>>
           \/ /\ r.status = "Throws"
              /\ ses' = s
              /\ HandlerThrows
              /\ UNCHANGED <<executor, parsed>>
           \/ /\ r.status = "Error"
              /\ PostErrorResponse(StatusCodeFor(r.p.error),
                     [s EXCEPT !.timer = IF @ = "armed" THEN "idle" ELSE @],
                     "ProtocolError")
              /\ UNCHANGED parsed
           \/ /\ r.status = "Complete"
              /\ LET t == [s EXCEPT !.dispatched = @ + 1,
                               !.buffer = SubSeq(@, r.consumed + 1, Len(@))]
                     close == \/ ~r.request.keep_alive
                              \/ t.dispatched >= MaximumRequests
                 IN  /\ Dispatch(t, r.request, close)
                     /\ ses' = [t EXCEPT !.stopped = close \/ PostStatus # "Ready"]
                     /\ IF close \/ PostStatus # "Ready" THEN Returns(PostStatus)
                        ELSE UNCHANGED <<chunks, in_loop, conn, queue>>
              /\ parsed' = Append(parsed, r.request)
        /\ UNCHANGED <<stream, fed, boot, wire>>

\* The parser timer's callback, on the timer thread.  Without a timer service,
\* as in the server, it never comes.
TimerFires ==
    /\ ses.timer = "armed"
    /\ ses' = [ses EXCEPT !.timed_out = TRUE, !.timer = "idle"]
    /\ UNCHANGED <<stream, fed, boot, chunks, in_loop, executor, conn, queue, wire,
                   parsed>>

------------------------------------------------------------------------------

Next ==
    \/ \E k \in 1..Len(stream.bytes) : Receive(k)
    \/ FeedBegins \/ FeedTurn \/ TimerFires
    \/ TaskBegins \/ \E outcome \in {"returns", "closes", "throws", "unencodable"} :
                        TaskReturns(outcome)
    \/ StopExecutor \/ PoolChanges \/ SendCompletes \/ PeerCloses

Spec == Init /\ [][Next]_vars

------------------------------------------------------------------------------
(* Properties *)

TypeOK ==
    /\ fed \in 0..Len(stream.bytes) /\ conn \in {"Active", "Draining", "Closed"}
    /\ Len(ses.buffer) <= MaximumBuffer /\ Len(queue) <= MaximumQueued
    /\ Len(executor.tasks) <= MaximumTasks
    /\ ses.timer \in {"idle", "armed"}

\* What the parser has returned so far; an error is its last request.
ErrorRequest(error) == [line |-> <<error>>, body |-> <<>>, keep_alive |-> FALSE]
Outcome ==
    IF ses.parser.state = "Error" THEN Append(parsed, ErrorRequest(ses.parser.error))
    ELSE parsed

\* What the stream says, which is what the parser returns for it in one piece.
Meaning ==
    IF IsPrefix(Preface, stream.bytes) THEN stream.bytes
    ELSE IF stream.error = "None" THEN stream.requests
    ELSE Append(stream.requests, ErrorRequest(stream.error))

\* "the same parser result at every byte split boundary".
SplitDoesNotMatter == IsPrefix(Outcome, Meaning)

\* However the stream is cut into receives, the session parses the requests
\* the peer sent, bodies included, and nothing else; it reports an error only
\* for a stream that has it, after all requests before it; a stream goes to
\* HTTP/2, whole, exactly when it begins with the preface; and when everything
\* has arrived nothing is left unparsed, unless the session stopped.
ParsedIsSent ==
    /\ TypeOK /\ SplitDoesNotMatter
    /\ boot.selected # "none" =>
          (boot.selected = "h2" <=> IsPrefix(Preface, stream.bytes))
    /\ fed = Len(stream.bytes) /\ chunks = <<>> /\ ~ses.stopped =>
          Outcome = Meaning \/ boot.selected = "none"

\* What the connection has sent and queued, and the final answers in it.
All == wire \o queue
Finals == {i \in DOMAIN All : All[i].code # 100}

\* The codes a request may be answered with.
RouteCodes(line) ==
    IF Route(line) = 0 THEN {200, 500} ELSE {Route(line)}

\* Pipelined requests are answered in their order, each once and by its own
\* route; the answer to a malformed request comes after those before it, with
\* the code of the parser's error, and nothing follows a closing answer.
AnswersInOrder ==
    \A i \in Finals :
        /\ All[i].answer = Cardinality({j \in Finals : j <= i})
        /\ All[i].close => i = Len(All)
        /\ IF All[i].answer <= ses.dispatched
           THEN All[i].code \in RouteCodes(parsed[All[i].answer].line)
           ELSE All[i].code \in {413, StatusCodeFor(ses.parser.error)}

\* Nothing is forgotten: when the callback, the executor and the connection
\* have nothing left to do, a connection that is still open has had an answer
\* to each request, and its session has not stopped, so that no peer waits for
\* an answer or a close that will not come.
QuietIsAnswered ==
    /\ chunks = <<>> /\ queue = <<>>
    /\ executor.tasks = <<>> /\ executor.running = NoTask
    /\ conn # "Closed"
    => ~ses.stopped /\ Cardinality(Finals) = ses.dispatched
==============================================================================
