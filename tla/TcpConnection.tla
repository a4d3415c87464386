---------------------------- MODULE TcpConnection ----------------------------
(***************************************************************************)
(* transport/tcp_connection: one connection, the overlapped receive and    *)
(* send it has in the kernel, and the threads that call into it.           *)
(*                                                                         *)
(* conn holds the fields the connection's mutex guards; one action is one  *)
(* critical section, or one step of the kernel.  The operators on a record *)
(* c are the methods that run under the lock (...Locked in the code); an   *)
(* action composes them as the code calls them.  Whatever thread closes    *)
(* the connection removes it from the registry after it has released the   *)
(* lock: leaving holds from one to the other.                              *)
(*                                                                         *)
(* A failing allocation has the effect of the immediate failure of the     *)
(* Winsock call it precedes and is covered by it.                          *)
(***************************************************************************)
EXTENDS ByteQueue

CONSTANTS
    GatherSegments,  \* maximum_gather_segments_per_operation_
    GatherBytes,     \* maximum_gather_bytes_per_operation_
    BatchSegments,   \* maximum_outbound_batch_segments_
    Batches,         \* batches the application sends: the segment of each byte
    MaxSends,        \* bound: send calls in one behaviour
    MaxReceives      \* bound: receives that complete with data

\* The constructor throws unless these hold.
ASSUME OptionsAreValid ==
    /\ GatherSegments \in 1..MaximumItems
    /\ GatherBytes \in 1..MaximumBytes
    /\ BatchSegments \in 1..MaximumItems

ASSUME BatchesAreByteStrings ==
    /\ Batches \subseteq Seq(Nat)
    /\ MaxSends \in Nat /\ MaxReceives \in Nat

VARIABLES
    conn,        \* the connection's fields, see ConnType
    started,     \* Start was called
    recv_op,     \* the overlapped WSARecv: where it is, with its result
    send_op,     \* the overlapped WSASend: [at, bytes, sent]
    handlers,    \* receive handlers now running on IOCP workers
    leaving,     \* a thread is between Closed and RemoveFromRegistry
    registered,  \* the registry holds the connection
    idle_firing, \* the timer thread has popped the idle callback
    sends,       \* send calls so far
    receives,    \* data completions so far
    accepted,    \* history: bytes the send calls accepted, in order
    wire         \* history: bytes handed to the TCP stack, in order

vars == <<conn, started, recv_op, send_op, handlers, leaving, registered,
          idle_firing, sends, receives, accepted, wire>>

Byte == [seg : Nat \X Nat, pos : Nat]

CloseReason == {"None", "LocalShutdown", "PeerClosed", "ReceiveError",
                "SendError", "SendQueueOverflow", "HandlerError",
                "ProtocolClose"}

ConnType ==
    [state : {"Active", "Closing", "Closed"}, close_reason : CloseReason,
     outstanding : Nat, receive_in_flight : BOOLEAN, send_in_flight : BOOLEAN,
     close_after_send : BOOLEAN, queue : Seq(Byte),
     timed : BOOLEAN, timer_armed : BOOLEAN]

\* The bytes of the n-th send call.  A batch is written as the sequence of
\* the segment numbers of its bytes: <<1, 1, 2>> is a segment of two bytes
\* and one of one byte; empty segments leave no trace, <<>> has no bytes.
BytesOf(n, batch) ==
    [i \in 1..Len(batch) |-> [seg |-> <<n, batch[i]>>, pos |-> i]]

------------------------------------------------------------------------------
(* What the code does under the connection's mutex *)

\* UpdateIdleTimerLocked: only with a timer service, only while Active.
UpdateIdleTimerLocked(c) ==
    [c EXCEPT !.timer_armed =
        IF c.timed /\ c.state = "Active" THEN TRUE ELSE @]

\* MUTANT: the idle timer survives the close.
BeginCloseKeepsTimer(c, reason) ==
    IF c.state # "Active" THEN c
    ELSE [c EXCEPT !.state = "Closing", !.close_reason = reason,
                   !.close_after_send = FALSE]

\* The first close wins: state, reason, pending graceful close, idle timer;
\* the socket is closed, which makes the kernel complete what is in flight.
BeginCloseLocked(c, reason) ==
    IF c.state # "Active" THEN c
    ELSE [c EXCEPT !.state = "Closing", !.close_reason = reason,
                   !.close_after_send = FALSE, !.timer_armed = FALSE]

\* MUTANT: Closed as soon as no send is in flight.
MoveToClosedIfSendDrained(c) ==
    IF c.state = "Closing" /\ ~c.send_in_flight
    THEN [c EXCEPT !.state = "Closed", !.queue = <<>>] ELSE c

\* Closed only when every operation posted to the kernel has completed.
MoveToClosedIfDrainedLocked(c) ==
    IF c.state = "Closing" /\ c.outstanding = 0
    THEN [c EXCEPT !.state = "Closed", !.queue = <<>>] ELSE c

CloseLocked(c, reason) ==
    MoveToClosedIfDrainedLocked(BeginCloseLocked(c, reason))

\* The critical section leaves the fields as c; the thread that moved the
\* connection to Closed goes on to remove it from the registry.
Unlock(c) ==
    /\ conn' = c
    /\ leaving' = (leaving \/ (conn.state # "Closed" /\ c.state = "Closed"))

NoSend == [at |-> "none", bytes |-> <<>>, sent |-> 0]

\* PostReceiveLocked, and the close its callers make when it fails.  It fails
\* when a receive is in flight, and WSARecv may fail immediately, which takes
\* the count and the flag back.
PostReceiveOrClose(c) ==
    \/ /\ c.state = "Active" /\ ~c.receive_in_flight
       /\ Unlock([c EXCEPT !.outstanding = @ + 1, !.receive_in_flight = TRUE])
       /\ recv_op' = "pending"
    \/ /\ Unlock(CloseLocked(UpdateIdleTimerLocked(c), "ReceiveError"))
       /\ UNCHANGED recv_op

\* PostSendLocked for a connection that is Active with no send in flight and
\* a non-empty queue, and the close its callers make when WSASend fails
\* immediately.  The queue keeps the bytes until the send completes.
PostSendOrClose(c) ==
    \/ \E n \in GatherLengths(c.queue, GatherSegments, GatherBytes) :
        /\ n > 0
        /\ Unlock([c EXCEPT !.outstanding = @ + 1, !.send_in_flight = TRUE])
        /\ send_op' = [at |-> "pending", bytes |-> SubSeq(c.queue, 1, n),
                       sent |-> 0]
    \/ /\ Unlock(CloseLocked(UpdateIdleTimerLocked(c), "SendError"))
       /\ send_op' = NoSend

------------------------------------------------------------------------------
(* Calls into the connection *)

Init ==
    /\ conn = [state |-> "Active", close_reason |-> "None", outstanding |-> 0,
               receive_in_flight |-> FALSE, send_in_flight |-> FALSE,
               close_after_send |-> FALSE, queue |-> <<>>,
               timed |-> FALSE, timer_armed |-> FALSE]
    /\ started = FALSE /\ recv_op = "none" /\ send_op = NoSend
    /\ handlers = 0 /\ leaving = FALSE /\ registered = TRUE
    /\ idle_firing = FALSE /\ sends = 0 /\ receives = 0
    /\ accepted = <<>> /\ wire = <<>>

\* The accepting thread starts the connection it has registered, once.
Start ==
    /\ ~started /\ started' = TRUE
    /\ PostReceiveOrClose(conn)
    /\ UNCHANGED <<send_op, handlers, registered, idle_firing, sends, receives,
                   accepted, wire>>

\* MUTANT: a send after SendBatchAndClose is still taken.
TakesSendsAfterFinal == conn.state = "Active"

\* Otherwise a send returns Closed and changes nothing.
TakesSends == conn.state = "Active" /\ ~conn.close_after_send

\* MUTANT: a batch is queued and nobody posts the first send.
NeverPostSend(c) == Unlock(c) /\ UNCHANGED send_op

\* The caller posts the send when none is in flight; else the completion of
\* the one in flight will.
PostUnlessInFlight(c) ==
    IF c.send_in_flight THEN Unlock(c) /\ UNCHANGED send_op
                        ELSE PostSendOrClose(c)

\* SendBatchInternal on a batch with bytes, final for SendBatchAndClose: the
\* batch is queued whole or the connection closes.
SendBatchInternal(batch, final) ==
    /\ sends < MaxSends /\ sends' = sends + 1
    /\ TakesSends /\ batch # <<>>
    /\ LET bytes == BytesOf(sends, batch)
           c     == [conn EXCEPT !.queue = @ \o bytes, !.close_after_send = final]
       IN  IF \/ ItemCount(bytes) > BatchSegments
              \/ ~Admits(conn.queue, bytes)
           THEN /\ Unlock(CloseLocked(conn, "SendQueueOverflow"))
                /\ UNCHANGED <<send_op, accepted>>
           ELSE /\ PostUnlessInFlight(c)
                /\ accepted' = IF conn'.state = "Active" THEN accepted \o bytes
                                                         ELSE accepted
    /\ UNCHANGED <<started, recv_op, handlers, registered, idle_firing,
                   receives, wire>>

\* A call that changes the connection's fields by a close and nothing else.
CallBeginClose(reason) ==
    /\ Unlock(CloseLocked(conn, reason))
    /\ UNCHANGED <<started, recv_op, send_op, handlers, registered, sends,
                   receives, accepted, wire>>

\* The early return of SendBatchInternal for a batch without bytes.
SendEmptyAndClose ==
    /\ <<>> \in Batches /\ sends < MaxSends
    /\ CallBeginClose("ProtocolClose")
    /\ UNCHANGED idle_firing

\* A server or an application closes the connection, from any thread and at
\* any time.
BeginClose(reason) ==
    /\ conn.state = "Active"
    /\ CallBeginClose(reason)
    /\ UNCHANGED idle_firing

SetTimerService ==
    /\ ~conn.timed
    /\ Unlock(UpdateIdleTimerLocked([conn EXCEPT !.timed = TRUE]))
    /\ UNCHANGED <<started, recv_op, send_op, handlers, registered,
                   idle_firing, sends, receives, accepted, wire>>

\* The timer thread pops the due callback and runs it without the timer's
\* lock; by the time it has the connection's mutex the timer may be re-armed.
IdleTimerDue ==
    /\ conn.timer_armed /\ ~idle_firing
    /\ conn' = [conn EXCEPT !.timer_armed = FALSE]
    /\ idle_firing' = TRUE
    /\ UNCHANGED <<started, recv_op, send_op, handlers, leaving, registered,
                   sends, receives, accepted, wire>>

IdleTimerFires ==
    /\ idle_firing /\ idle_firing' = FALSE
    /\ CallBeginClose("None")

\* The step after the critical section that moved the connection to Closed.
RemoveFromRegistry ==
    /\ leaving /\ leaving' = FALSE /\ registered' = FALSE
    /\ UNCHANGED <<conn, started, recv_op, send_op, handlers, idle_firing,
                   sends, receives, accepted, wire>>

------------------------------------------------------------------------------
(* Completions *)

\* The kernel finishes the receive and queues its packet: bytes, end of
\* stream, or an error.  Closing the socket cancels it, but a packet already
\* produced keeps its result.
KernelReceives ==
    /\ recv_op = "pending"
    /\ \/ /\ receives < MaxReceives
          /\ recv_op' = "data" /\ receives' = receives + 1
       \/ recv_op' \in {"eof", "error"} /\ UNCHANGED receives
    /\ UNCHANGED <<conn, started, send_op, handlers, leaving, registered,
                   idle_firing, sends, accepted, wire>>

\* The kernel takes some of the bytes, all of them or none, and queues the
\* packet; an error may follow bytes that already left.
KernelSends ==
    /\ send_op.at = "pending"
    /\ \E n \in 0..Len(send_op.bytes), result \in {"ok", "error"} :
        /\ send_op' = [send_op EXCEPT !.at = result, !.sent = n]
        /\ wire' = wire \o SubSeq(send_op.bytes, 1, n)
    /\ UNCHANGED <<conn, started, recv_op, handlers, leaving, registered,
                   idle_firing, sends, receives, accepted>>

\* MUTANT: the completion of a send is counted twice.
CountSendTwice(c) ==
    UpdateIdleTimerLocked(
        [c EXCEPT !.outstanding = @ - 2, !.send_in_flight = FALSE])

\* The first lines of both completion handlers.
CompleteReceive(c) ==
    UpdateIdleTimerLocked(
        [c EXCEPT !.outstanding = IF @ > 0 THEN @ - 1 ELSE @,
                  !.receive_in_flight = FALSE])

CompleteSend(c) ==
    UpdateIdleTimerLocked(
        [c EXCEPT !.outstanding = IF @ > 0 THEN @ - 1 ELSE @,
                  !.send_in_flight = FALSE])

\* OnReceiveComplete up to the receive handler, which runs outside the lock
\* and only for bytes received while the connection is Active.
OnReceiveComplete ==
    /\ recv_op \in {"data", "eof", "error"} /\ recv_op' = "none"
    /\ LET c == CompleteReceive(conn)
       IN  CASE recv_op = "error" -> Unlock(CloseLocked(c, "ReceiveError"))
             [] recv_op = "eof"   -> Unlock(CloseLocked(c, "PeerClosed"))
             [] recv_op = "data"  -> Unlock(MoveToClosedIfDrainedLocked(c))
    /\ handlers' = IF recv_op = "data" /\ conn.state = "Active"
                   THEN handlers + 1 ELSE handlers
    /\ UNCHANGED <<started, send_op, registered, idle_firing, sends, receives,
                   accepted, wire>>

\* MUTANT: the next receive is not posted.
RepostNever == UNCHANGED <<conn, recv_op, leaving>>

\* The next receive, if the connection is still Active after the handler.
Repost ==
    IF conn.state = "Active" THEN PostReceiveOrClose(conn)
                             ELSE UNCHANGED <<conn, recv_op, leaving>>

HandlerReturns ==
    /\ handlers > 0 /\ handlers' = handlers - 1
    /\ Repost
    /\ UNCHANGED <<started, send_op, registered, idle_firing, sends, receives,
                   accepted, wire>>

\* The handler threw, or the next receive operation could not be allocated.
HandlerThrows ==
    /\ handlers > 0 /\ handlers' = handlers - 1
    /\ Unlock(CloseLocked(conn, "HandlerError"))
    /\ UNCHANGED <<started, recv_op, send_op, registered, idle_firing, sends,
                   receives, accepted, wire>>

\* The transferred count is one the queue can account for.
ValidTransfer(c) ==
    /\ send_op.sent \in 1..Len(send_op.bytes)
    /\ send_op.sent <= Len(c.queue)

\* MUTANT: a send is taken to have transferred all it was given.
ConsumeGather(c) == [c EXCEPT !.queue = Consume(@, Len(send_op.bytes))]

ConsumeTransferred(c) == [c EXCEPT !.queue = Consume(@, send_op.sent)]

\* OnSendComplete: account for the bytes sent, post the rest, and after the
\* last byte make the graceful close a final batch asked for.
OnSendComplete ==
    LET c     == CompleteSend(conn)
        after == ConsumeTransferred(c)
    IN  /\ send_op.at \in {"ok", "error"}
        /\ IF send_op.at = "error" \/ (c.state = "Active" /\ ~ValidTransfer(c))
           THEN Unlock(CloseLocked(c, "SendError")) /\ send_op' = NoSend
           ELSE IF c.state # "Active"
           THEN Unlock(MoveToClosedIfDrainedLocked(c)) /\ send_op' = NoSend
           ELSE IF after.queue # <<>> THEN PostSendOrClose(after)
           ELSE /\ Unlock(IF c.close_after_send
                          THEN CloseLocked(after, "ProtocolClose") ELSE after)
                /\ send_op' = NoSend
        /\ UNCHANGED <<started, recv_op, handlers, registered, idle_firing,
                       sends, receives, accepted, wire>>

------------------------------------------------------------------------------
(* The specification *)

Next ==
    \/ Start
    \/ \E batch \in Batches, final \in BOOLEAN : SendBatchInternal(batch, final)
    \/ SendEmptyAndClose
    \/ \E reason \in {"LocalShutdown", "HandlerError"} : BeginClose(reason)
    \/ SetTimerService
    \/ IdleTimerDue
    \/ IdleTimerFires
    \/ RemoveFromRegistry
    \/ KernelReceives
    \/ KernelSends
    \/ OnReceiveComplete
    \/ HandlerReturns
    \/ HandlerThrows
    \/ OnSendComplete

Spec == Init /\ [][Next]_vars

\* IOCP workers take every queued packet, a thread that left a critical
\* section goes on, and closing the socket makes the kernel complete what is
\* in flight.  Nothing makes the peer send or read, or a handler return.
Fairness ==
    /\ WF_vars(OnReceiveComplete) /\ WF_vars(OnSendComplete)
    /\ WF_vars(RemoveFromRegistry)
    /\ WF_vars(conn.state # "Active" /\ KernelReceives)
    /\ WF_vars(conn.state # "Active" /\ KernelSends)

FairSpec == Spec /\ Fairness

\* A peer that keeps reading, so that every send completes.
PeerReads == WF_vars(KernelSends)

------------------------------------------------------------------------------
(* Properties *)

TypeOK ==
    /\ conn \in ConnType
    /\ recv_op \in {"none", "pending", "data", "eof", "error"}
    /\ send_op \in [at : {"none", "pending", "ok", "error"}, bytes : Seq(Byte),
                    sent : Nat]
    /\ handlers \in Nat /\ sends \in Nat /\ receives \in Nat
    /\ started \in BOOLEAN /\ leaving \in BOOLEAN /\ registered \in BOOLEAN
    /\ idle_firing \in BOOLEAN
    /\ accepted \in Seq(Byte) /\ wire \in Seq(Byte)

KernelOperations ==
    (IF recv_op = "none" THEN 0 ELSE 1) + (IF send_op.at = "none" THEN 0 ELSE 1)

\* A connection that is Closed has nothing in the kernel and no packet on its
\* way, and only such a connection leaves the registry: the counter that
\* MoveToClosedIfDrainedLocked trusts is the number of operations really out.
ClosedIsDrained ==
    /\ conn.outstanding = KernelOperations
    /\ conn.state = "Closed" => KernelOperations = 0
    /\ leaving \/ ~registered => conn.state = "Closed"
    /\ conn.state = "Closed" => leaving = registered

\* The receive side is one token: while the connection is Active and started
\* it is either a WSARecv in the kernel or a running handler, never both and
\* never neither; afterwards there is at most one of them.
OneReceiver ==
    LET receivers == handlers + (IF recv_op = "none" THEN 0 ELSE 1)
    IN  /\ receivers <= 1
        /\ conn.state = "Active" => receivers = (IF started THEN 1 ELSE 0)

\* Queued bytes, and a graceful close waiting for them, always have a send in
\* flight whose completion will serve them.
NoStalledSend ==
    conn.state = "Active" /\ (conn.queue # <<>> \/ conn.close_after_send)
        => conn.send_in_flight

\* What reaches the TCP stack is a prefix of what the send calls accepted, in
\* order: partial sends, gathers over several batches and concurrent senders
\* neither repeat, skip nor reorder a byte.
WireIsPrefixOfAccepted ==
    /\ Len(wire) <= Len(accepted)
    /\ wire = SubSeq(accepted, 1, Len(wire))

\* A connection closed by SendBatchAndClose had every accepted byte handed to
\* the TCP stack: "closes after all pending bytes are sent".
GracefulCloseSendsAll ==
    conn.close_reason = "ProtocolClose" => wire = accepted

\* A send completion makes the graceful close only when every accepted byte,
\* of earlier batches and of partial sends too, was handed to the TCP stack.
FinalBatchSendsAll ==
    [][/\ OnSendComplete
       /\ conn.close_reason = "None" /\ conn'.close_reason = "ProtocolClose"
       => wire = accepted]_vars

\* The idle timer never outlives the close (its callback owns a reference to
\* the connection).
ClosedDisarmsTimer == conn.state # "Active" => ~conn.timer_armed

\* The connection implements its abstract lifecycle, with the operations in
\* the kernel as ops: in particular a close whose cancelled operations keep
\* completing always ends with the connection out of the registry.
Lifecycle == INSTANCE ConnectionLifecycle
    WITH phase <- conn.state, ops <- KernelOperations, member <- registered
ImplementsLifecycle == Lifecycle!FairSpec

\* With a peer that reads, queued bytes are sent or the connection closes.
QueueDrains == PeerReads => (conn.queue # <<>> ~> conn.queue = <<>>)

\* With a peer that reads, SendBatchAndClose ends in a closed connection.
GracefulCloseHappens == PeerReads => (conn.close_after_send ~> ~registered)
==============================================================================
