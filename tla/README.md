# TLA+ model of the IOCP HTTP runtime

The runtime is a C++17 server library for Windows: overlapped sockets on one I/O
completion port, executors that carry application work, HTTP/1.1 and HTTP/2 on
top, and small servers that own all of it. Its difficult part is not any one
function. Every object is shared by IOCP workers, pool workers, a timer thread
and the owner's thread, each handler is several critical sections with calls
outside the lock between them, and shutdown has to wait for everything in
flight, in the right order, on counters kept by hand.

The modules here are translated from the C++ sources. Lower-case field names
follow the members of the code, operators keep the names of its functions
(`MoveToClosedIfDrainedLocked`, `PostSendLocked`, ...), and what one critical
section does is one step.

## Inventory

| Part | State | Operations | What is hard |
|---|---|---|---|
| `transport/send_queue` | deque of batches, segment offsets, `item_count`, `queued_bytes` | TryPush(Batch), Front, Gather, Consume, Clear | partial sends across segments and batches, all-or-nothing admission, unsigned limits |
| `transport/tcp_connection` | state, reason, in-flight flags, `outstanding_operations_`, queue, idle timer | Start, Send*, completions, BeginClose, timer | senders, closers, timer and two completions interleave; Closed only when drained |
| `transport/tcp_listener` | state, `outstanding_operations_`, one posted AcceptEx | Start, OnAcceptComplete, Stop | the next accept is posted before the socket is delivered, so completions overlap |
| `transport/connection_registry` | map of connections | Add, Remove, Connections, WaitEmpty | late Add against the snapshot Stop takes |
| `transport/tcp_connector` | pending connects | Connect, OnConnectComplete, Stop | Stop races a completed connect |
| `runtime/io_context` | port, `stopping`, workers | Associate, PostTask, RunWorker, Stop, Join | no packet behind the stop packets; a stop packet that cannot be posted |
| `execution/thread_pool_executor` | queue, state, stop mode, `live_workers` | Submit, Stop, WorkerMain, Join | two stop modes, repeated stops |
| `execution/serial_executor` | queue, `drain_scheduled_`, `running_tasks_` | Post, Stop, Drain | at most one drain task in the pool, taken back when the pool refuses it |
| `execution/iocp_executor` | `pending`, `running`, state | Post, Stop, ExecutePacket | slot reserved, packet posted and slot returned in separate sections |
| `execution/inline_executor`, `manual_executor` | queue | Post, RunOne, Stop | several threads in RunOne while another stops |
| `core/timer_service` | heap of entries, `stopped_` | Schedule, Cancel, Reschedule, Stop, Run | a missed notification, a stale deadline, a callback already popped when Cancel or Stop comes |
| `buffer/*` | offsets into storage | Commit, Consume, EnsureWritable, Append | wrap, growth, compaction |
| `protocol/preface_protocol_bootstrap` | collected bytes | Feed | the preface split anywhere |
| `protocol/http/*` | parser state, session, routes | Feed, Dispatch, Encode | pipelining over an executor, error responses, keep-alive |
| `protocol/http2/*` | frames, HPACK tables, windows, stream table | Feed, Handle*, SubmitResponse, Apply/Update | flow control with concurrent submitters, legal but unusual frame orders |
| `protocol/sample/*` | codec, session | Decode, Feed, Dispatch | framing limits |
| `apps/echo_server` | server state and all the parts it owns | Start, OnAccepted, Stop | the order of the shutdown barriers, timeouts, retry |
| `apps/http_server`, `apps/webapp` | the same with an application pool | Start, OnAccepted, Stop | the pool stop stands between the registry and the port |
| configuration, JSON, templates, logging, `platform/windows`, command line programs | none that is shared | parsing, output, RAII | nothing concurrent |

`PROJECT.json` lists the same parts with their status, every modelled definition
with the source lines it stands for, and the hazards at the lines where they bite.

## Modules

| Module | Models | How |
|---|---|---|
| `ByteQueue` | content of a send queue as bytes | A byte names its segment and position, so loss, repetition and reordering show. |
| `SendQueueFifo` | what a send queue promises | Bounded byte FIFO: push all or nothing, consume a prefix. |
| `SendQueue` | `send_queue.cpp` | Batches with `next_segment` and offsets; the counters are separate fields as in the code. |
| `ReceiveFifo` | what a receive buffer promises | FIFO of numbered bytes that takes whatever fits under the maximum. |
| `ReceiveBuffers` | `ring_receive_buffer.cpp`, `receive_buffer.cpp` | Both on the same calls; storage is a function from offset to byte, with wrap, growth and compaction. |
| `TcpConnection` | `tcp_connection.cpp` | `conn` holds the mutex-guarded fields; `recv_op`, `send_op` are the overlapped operations in the kernel or the completion queue; `handlers`, `leaving`, `idle_firing` are threads between two critical sections. The queue is the byte FIFO that `SendQueue` implements. |
| `ConnectionLifecycle` | what a connection promises its server | Active, Closing, Closed; leaves the registry once, drained. |
| `TcpListener` | `tcp_listener.cpp` | `worker[w]` is where each IOCP worker stands inside the accept completion. |
| `TcpConnector` | `tcp_connector.cpp` | `call[c]` is the thread inside Connect, `op[c]` the ConnectEx and the worker that completes it. |
| `ExecutorContract` | `IExecutor`, `StopMode`, `ExecutionState` | What every executor promises: the life of each task and of the executor. |
| `ThreadPoolContext` | `ThreadPoolContext` of `thread_pool_executor.cpp` | Submit, Stop and the worker loop over any kind of task. |
| `ThreadPoolExecutor` | the pool with plain tasks | Adds the history of each task. |
| `SerialExecutor` | `serial_executor.cpp` | Several serial executors on one pool; a pool task is a drain task or a direct task. |
| `IoContext` | `io_context.cpp` | The port as a FIFO of task and stop packets; loss of the port. |
| `IocpExecutor` | `iocp_executor.cpp` on `IoContext` | `poster[t]` is the posting thread between reserving, posting and rolling back. |
| `ManualExecutor` | `manual_executor.cpp` | Any number of threads inside RunOne. |
| `TimerService` | `timer_service.cpp` | The heap as the set of its entries, the worker between look, wait and callback, callers between computing the deadline, pushing and notifying; a bounded clock. |
| `EchoServer` | `echo_server.cpp`, registry | Extends `TcpListener`, holds its connections as lifecycles, adds the stopping thread and the stop packets of the context. |
| `HttpServer` | `http_server.cpp` | Extends `EchoServer` with the application pool: `task[c]` is the request of a connection there. `app` chooses which of the two servers a behaviour is. |
| `WebAppServer` | `webapp.cpp` | Extends `HttpServer` with its own OnAccepted and with waits whose result Stop ignores. |
| `HttpParser` | `http_request_parser.cpp` | Parse as a function of the saved state and the unconsumed bytes. A line is a sequence of words, each counted as one byte; sizes are digits, and sums of them wrap at `SizeMax` where the code's do. |
| `HttpSession` | `http_session.cpp`, `http_router.cpp`, `preface_protocol_bootstrap.cpp`, the HTTP/1.1 side of `http_server.cpp` | The receive callback feeds pieces of a stream; tasks of the serial executor and the connection's send queue go on meanwhile. `executor.state` also says whether the pool below is full, so that it refuses the drain task. An exception out of Feed closes the connection. |
| `H2Frames` | `http2_frames.cpp`, framing in `http2_stream.cpp` | Frames as bytes, received in pieces. |
| `Hpack` | `http2_hpack.cpp` | Encoder and decoder, each with its table; integers as bytes. |
| `H2Outbound` | `http2_outbound.cpp` | `ob` holds the mutex-guarded fields, `out[t]` the frames a thread built and still has to hand over. A body is its length, a DATA frame a range of it. |
| `H2Session` | `http2_stream.cpp`, the HTTP/2 side of `http_server.cpp` | Extends `H2Outbound`. One frame handler is one step, as the session's mutex makes it; handler threads submit responses without that mutex. FailConnection is two steps, because a response can still be submitted between its GOAWAY and the scheduler's Close. |
| `SampleProtocol` | `protocol/sample` | Codec byte by byte, session, dispatcher, and the tasks it posts. |
| `TcpConnection_proofs`, `TcpConnector_proofs`, `IocpExecutor_proofs`, `ThreadPoolExecutor_proofs`, `SerialExecutor_proofs`, `TimerService_proofs`, `HttpServer_proofs`, `HttpSession_proofs` | | Theorems about the module each is named after, see Proofs. |
| `MCSequential`, `MCExecutors` | | Several independent components in one run: a variable chosen in the initial state says which one a behaviour is about. |
| `MCTcpConnection`, `MCHttpSession`, `MCH2Session` | | Batches, streams and peers for TLC. |

How they compose:

- `SendQueue` implements `SendQueueFifo`, whose operators are the queue of
  `TcpConnection`. `TcpConnection` implements `ConnectionLifecycle`, and so does each
  connection as the servers hold it (`ConnsImplementLifecycle`): the two meet in the
  lifecycle, see Proofs for what that does not say.
- The four executors with a queue implement `ExecutorContract`
  (`ImplementsContract`); `SerialExecutor` and `IocpExecutor` extend the context
  they run on. `HttpSession` uses its serial executor as what `SerialExecutor`
  shows it to be: tasks one at a time, in order, refused when saturated.
- Ring and linear receive buffer implement `ReceiveFifo`; the sessions use that.
- `H2Session` and `H2Outbound` are one state machine, as are `HttpServer`,
  `EchoServer` and `TcpListener`.

## Runs

| Run | Question |
|---|---|
| `sequential` | Is the bookkeeping of the parts that run under one lock right? Send queue: offsets, counters and gather implement the byte FIFO (`CountersAreExact`, `GatherIsLongestPrefix`, `ImplementsFifo`). Receive buffers: `BuffersAreFifos`. HPACK: a block decodes to what was encoded, whatever was evicted or resized before (`BlocksDecode`). HTTP/2 frames and sample messages: however the bytes are cut (`FramesRoundTrip`, `MessagesArriveOnce`). |
| `connection` | One connection: drained when Closed, one receiver, no stalled send, the wire is a prefix of what was accepted, a graceful close sends everything, no timer after close. It implements the lifecycle with its liveness; with a peer that reads, the queue drains and a graceful close ends. |
| `executors` | Serial executors on a saturable pool, pool, IOCP executor, manual executor, timer service, connector: contract, order, exclusion, exact counters, timers once and on time, connects answered once, Stopped means quiet, every Stop ends, nothing accepted is forgotten. |
| `server` | Echo and HTTP server: the listener is never deaf while Running; Stopped means quiet; no completion after the stop packets; no connection left behind; shutdown ends, with timeouts and a second Stop; connections keep to their lifecycle. |
| `h2_session` | Are the send windows those of the peer, does nothing sendable wait, is every byte framed once; do the receive windows let an upload go on; does each request reach its handler once and whole, and is its output released? |
| `http1` | Are the requests parsed those that were sent, however they are cut; are answers in order, errors included; when everything is quiet, is every request answered or the connection closed? |
| `connection_empty_final`, `h2_early_update`, `h2_order`, `frame_ids`, `http1_split`, `webapp_stop` | Expected violations, see Findings. |

Where a module's type invariant is not listed by itself it is the first
conjunct of the module's main invariant.

Every property has a mutant: a definition of the model changed as a plausible
bug would change the code, kept beside the definition and marked `MUTANT`. TLC
finds the property violated under it.

### Bounds

- Send queue: 3 items, 4 bytes, 3 pushes. Batches of one to three segments of up
  to three bytes, with empty and null segments, so that a batch can exceed
  either limit at its last segment and a consume can end inside a segment, at a
  segment boundary, at a batch boundary or beyond.
- Receive buffers: capacity from 2 to 5 and 7 bytes written, so that the ring
  wraps, grows while wrapped, is full, and refuses.
- HPACK: five headers (static, static name only, two with one name, one that
  fills the table) in blocks of two, table sizes 0, 80 and 120: entries are
  evicted one and several at a time, and the table is emptied and refilled.
- Frames: two frames of each type with smallest and largest field values, on
  streams 1 and 65535 (`frame_ids`: 65537), received in all pieces.
- Sample protocol: three messages, payload limit 2, buffer 10, an executor with
  one slot, wrong lengths, an id without a handler.
- Connection: 3 send calls and 2 receives with a gather of 2 segments and 3
  bytes, so that a gather spans batches and is cut inside a segment.
- Executors: 2 workers everywhere; queue limits below the number of tasks, so
  that saturation happens; two serial executors, a pool queue of 1 and a direct
  task that fills it; 2 timers with durations 1 and 2, two callers and a clock
  up to 3, so that a new timer becomes the earliest while the worker sleeps for
  another; 3 connects, so that Stop meets one being prepared, one in the kernel
  and one in its handler.
- Servers: 2 workers and 2 accepts, so that two completions overlap;
  2 connections, 1 timeout. A connection has one request in the pool at a time.
- HTTP/2: two streams, send windows up to 7, a connection send window of 3,
  receive windows of 4, bodies of 0 to 3 bytes, frames of at most 2. Three peers:
  one uploads with and without padding and CONTINUATION, one downloads with
  windows that become negative, reach the maximum and are refused beyond it,
  one sends every kind of frame in any order. 6 to 8 frames each. Receive
  windows of at least 2 are assumed: half of 1 is 0, and no update would be due.
- HTTP/1.1: 25 streams (pipelining with a fallback route and a close,
  100-continue, chunks with a trailer, the HTTP/2 preface, at least one for each
  error of the parser, and a chunk size whose sums wrap), cut everywhere. `SizeMax`
  is 255 instead of 2^64 - 1: above every limit and every offset, so that only
  sizes the peer writes can wrap. Three requests per connection, two tasks, two
  queued answers, so that the session, the executor and the send queue each
  reach their limit.

### Fairness

Threads that hold or left a critical section go on, IOCP workers take queued
packets, and closing a socket makes the kernel complete what it has in flight.
No fairness is given to the peer, to callers, or (for the connection) to user
handlers; `QueueDrains` and `GracefulCloseHappens` assume a peer that reads, and
the executors and servers assume that tasks and handlers return. In the servers
taking a packet has strong fairness because the port is FIFO: a packet is not
passed over for ever by workers that become free again and again. Their owner
calls Stop again after a timeout, which is what the return value asks for. In
`TimerService` time passes and a wait ends once it was notified or has timed
out. `HttpSession` and `H2Session` are checked for safety only;
`QuietIsAnswered`, `NothingSendableWaits` and `UploadsNeverStall` say in every
resting state that nothing was forgotten, which needs no fairness.
`CHECK_DEADLOCK FALSE` is set because all these systems are meant to come to
rest.

## Findings

`connection_empty_final`: `SendBatchAndClose` with a batch of empty segments only
returns early (`src/src/transport/tcp_connection.cpp:319`) and closes at once;
bytes accepted before are dropped. The header promises that the connection is
closed after all pending bytes were sent (`tcp_connection.h:154`). The
`connection` run shows that a graceful close made by a send completion, which is
every one asked for by a final batch with content, keeps the promise
(`FinalBatchSendsAll`).

`h2_early_update`: `UpdateStreamWindow` flushes a stream without asking
whether its response was submitted (`http2_outbound.cpp:211`; `FlushAllLocked`
does ask). An empty body counts as finished, so a WINDOW_UPDATE that arrives
while the handler still runs erases the stream, and the response is refused.
The tests expect the response of an opened stream to be admitted
(`src/tests/http2_tests.cpp:561`).

`h2_order`: frames are handed over one by one after the mutex is released
(`http2_outbound.cpp:125`), so the frames of two threads mix: header blocks arrive
in another order than they were encoded in, which the peer's HPACK table does
not survive, or a frame follows END_STREAM. What was framed is right
(`EveryByteOnce`), its order on the wire is not. `src/src/README.md:40` says that
the connection's HPACK and flow state are serialised there.

`frame_ids`: `FrameCodec::DecodeHeader` (`http2_frames.cpp:58`) puts the two high
bytes of the stream identifier where the two low ones go. Identifiers up to
65535 survive, and the `sequential` run of `FramesRoundTrip` shows it; larger
ones do not. The round trip is tested with stream 1
(`src/tests/http2_tests.cpp:91`).

`http1_split`: a trailer line above `maximum_header_bytes` is reported by
`ReadLine` as `LimitExceeded` with an empty value, and the trailer state
(`http_request_parser.cpp:417`) takes the empty value for the end of the trailer.
The request is accepted either way, but how many bytes it takes, and so what the
rest is parsed as, depends on where the line was split; `src/tests/README.md:49` asks for the same result at every split.

`webapp_stop`: `WebAppServer::Stop` (`webapp.cpp:76`) ignores the results of its
waits. After a timeout it stops and joins the IOCP workers with operations
still in the kernel, against the precondition of `IoContext::Stop`
(`io_context.h:75`), and reports success. The `server` run shows the same property
for the two servers that return false instead.

Noted while reading, and modelled as the code has it:

- A body beyond its limit stops the request with `BufferLimitExceeded` and no
  RST_STREAM, and its bytes are not counted against the receive windows;
  `UploadsNeverStall` excepts it.
- END_STREAM counts on HEADERS only, not on the CONTINUATION that ends the block.
- The answer 100 is sent from the receive callback and may overtake queued
  answers (`http_session.cpp:112`); `AnswersInOrder` is about final answers.
- Bytes that arrive after a session has stopped make the server call
  `BeginClose`, which may drop the closing answer still queued.
- The two bytes after a chunk are skipped without a look at them.
- `TimerService::Run` passes `wait_until` a reference into `heap_`
  (`timer_service.cpp:102`), which a Schedule during the wait may move; in the model
  the wait then keeps its deadline or has none, and only the notification is
  relied on to end it.

## Proofs

Eight modules prove, with TLAPS and for all values of the constants, what the runs
check on small instances. Each has an inductive invariant, one lemma per action
and the theorems at its end.

| Module | Invariant | Proved |
|---|---|---|
| `TcpConnection_proofs` | `CInv`, `StreamInv` | `TypeOK`, `ClosedIsDrained`, `OneReceiver`, `NoStalledSend`, `ClosedDisarmsTimer`, `WireIsPrefixOfAccepted`, the action property `FinalBatchSendsAll`, and `Spec => Lifecycle!Spec` |
| `TcpConnector_proofs` | `KInv` | `AnsweredOnce` |
| `IocpExecutor_proofs` | `EInv` | `CountersAreExact`, `StoppedIsQuiet`, `Spec => Contract!Spec` |
| `ThreadPoolExecutor_proofs` | `PInv` | `AcceptedRunsOnce`, `StoppedIsQuiet`, `Spec => Contract!Spec` |
| `SerialExecutor_proofs` | `SInv`, `NInv` | `NonOverlapping`, `BeginsInOrder`, `StoppedIsQuiet`, `Spec => Contract(s)!Spec` for every serial executor `s` |
| `TimerService_proofs` | `TInv` | `FiresOnceOnTime`, `NoCallbackAfterStop` |
| `HttpServer_proofs` | `HInv` | `NeverDeaf`, `NoCompletionAfterStop`, `NoneLeftBehind`, `AllIsQuiet`, and `ConnsImplementLifecycle`, for the echo and the HTTP server |
| `HttpSession_proofs` | `AInv` | `AnswersInOrder`, `QuietIsAnswered` |

The assumptions are the named ones of the modules, which TLC evaluates on the
instances: `OptionsAreValid` (connection), `ContextOptionsAreValid` and
`ExecutorOptionsAreValid` (IOCP executor), `PoolTasksAreValid`,
`TimerOptionsAreValid`, `SessionOptionsAreValid` and `ParserOptionsAreValid`, and
that the set of connects is finite. Where a module is used through `INSTANCE`, they are
hypotheses of the theorem instead of an `ASSUME`.

### Why the invariants are stronger than the properties

- *Connection, `CInv`.* `ClosedIsDrained` speaks of the operations in the
  kernel and of the counter, but the counter is right only because the two
  in-flight flags are; the close is right only because a connection left Closing
  still has something to wait for. `CInv` says that the count is the sum of the
  two flags, that each flag tells whether the kernel holds that operation, that
  the receive token is a pending receive or a running handler, and that the
  fields are `Settled`, which is what each critical section leaves behind.
  `Unsettled` is what holds inside one; lemmas show that
  `MoveToClosedIfDrainedLocked`, a close, `PostReceiveLocked` and
  `PostSendLocked` settle it.
- *Connection, `StreamInv`.* A kernel that takes part of a send moves `wire` while
  the queue still holds the bytes, so "accepted is wire followed by queue" is
  false during a send. What stays fixed is the place in the accepted bytes where
  the send in flight began; gather and queue both lie there.
- *Connector, `KInv`.* `outstanding` is the number of calls that a thread or the
  kernel has, `pending` exactly those the kernel has, and each call's answer and
  socket fit the place where it is.
- *IOCP executor, `EInv`.* A slot belongs to a thread between two sections of
  Post or to a packet in the port, and `pending` counts both; what has moved on
  from Post was accepted, and what runs has a worker.
- *Pool, `PInv`.* The accepted tasks are those taken, then those waiting, then
  those dropped; what runs was taken and runs on one thread; `live_workers` counts
  the threads that have not left and is zero exactly when Stopped.
- *Serial executor, `SInv`, `NInv`.* The drain task is in the pool queue once, or at
  one worker, and only while `drain_scheduled_` is set; these exclude one
  another, which is why two workers never drain the same executor. It may be nowhere
  although it is scheduled: the pool's CancelPending drops it. `NInv` adds that
  a task is accepted once, which the contract needs to speak of one task.
- *Timer service, `TInv`.* An identifier is with the caller that pushes it, in
  the heap, or fired, in one place only. A cancelled one may still have its dead
  entry in the heap, but no callback.
- *Servers, `HInv`.* The listener's count is its accept and the workers inside a
  completion; every barrier Stop has passed stays true behind it, because
  nothing that could undo it is still possible: a stopped listener accepts no
  connection, an empty registry behind a stopped listener stays empty, a stopped pool has
  no task.
- *HTTP/1.1 session, `AInv`.* Final answers sent and queued are numbered 1, 2, 3, ...
  and none follows a closing one. While the connection is Active, the answers
  given and the tasks still to run make up the dispatched requests, plus one error
  answer after the session stopped, and a stopped session still has a closing
  task to run. So an answer can neither overtake another nor be forgotten, whatever
  the parser returns: the proof does not look into `Parse`.

### How the refinements compose

`TcpConnection` implements `ConnectionLifecycle`, and the connections of the servers
behave as lifecycles. Both are inclusions in the lifecycle. That a server keeps its
promises with `TcpConnection` in the place of its connections would need one
more step, which is not proved: that the server's connection allows every behaviour
of the lifecycle. Pool, serial and
IOCP executor implement one `ExecutorContract`. `SerialExecutor` runs on
`ThreadPoolContext` itself, pool stops and refusals included, and
`HttpSession` relies on the order and exclusion that `SerialExecutor_proofs`
establishes. Each refinement is of the safety part: initial states map to initial
states, and a step to a step or a stutter.

### Only model-checked

- Liveness (`EveryStopCompletes`, `QueueDrains`, `GracefulCloseHappens`, the
  servers' shutdown, ...) and `ENABLED`: outside the proof system's reach.
- `SendQueue`: its gather and its counters are sums over batches, defined by
  recursion.
- `ReceiveBuffers`, `Hpack`, `H2Frames`, `SampleProtocol` (`MCSequential`): what
  encoding and decoding compute for every input is induction over data.
- `ParsedIsSent` of `HttpSession`: that the parser returns the same for every
  split is an induction over the stream.
- `H2Outbound` and `H2Session`: flushes are folds over the streams, and
  windows are compared with sums over what was framed.
- `ManualExecutor` and `ImplementsContract` for it.
- Findings: a violation is TLC's to show.

To prove next: the contract of `ManualExecutor`; that the bootstrap selects
HTTP/2 exactly for a stream that begins with the preface; `RequestsAreWhole` of
`H2Session`, whose stream table changes one entry at a time.

## Not modelled

- Configuration, JSON, templates, logging, Winsock set-up and command line
  programs: sequential text or I/O code without shared state.
- The board of the web application (`board_handlers.cpp`, `db.cpp`,
  `multipart.cpp`): request-local string and SQL work. What it shares lives in
  SQLite, whose isolation the model would have to invent.
- `InlineExecutor`: runs a task inside Post and keeps nothing.
- `HttpResponseEncoder` and `HttpMessage`: one response to text.
- In the HTTP/1.1 parser: case, white space around values, the query of a target
  and all characters that no check looks at. A size is compared by its digits, but
  the words of a line count as one byte each.
- HPACK strings and the Huffman code, which are tables, and the literal without
  indexing, which the encoder never writes; flags and payloads of DATA and
  HEADERS in `H2Frames`, whose meaning is in `H2Session`.
- A failing `HttpServer::Start`, an exception inside the sample session's Feed,
  and handlers registered after the first Feed.
- `Join` of the thread pool called from one of its own workers, and the
  task packets leaked with a lost port: both are listed as hazards no property
  covers. Nor does a property rule out two things the code does: a stale idle callback
  that closes a connection which is active again, and a serial executor whose
  drain task the pool dropped with CancelPending.
- The apps never call `SetTimerService`; the parser timer is modelled as the
  session would use it: armed by an incomplete parse, firing at any time after. The lifetime of the session
  its callback points to is not. Memory lifetime (`shared_ptr` ownership) appears
  only through the properties that say when an object may go.
