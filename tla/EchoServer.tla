------------------------------ MODULE EchoServer ------------------------------
(***************************************************************************)
(* apps/echo_server: the listener, the connections it accepts, the         *)
(* registry, the IOCP workers, and the thread in Stop.  A connection is    *)
(* its abstract lifecycle (module ConnectionLifecycle, which TcpConnection *)
(* implements); the registry is the set of connections with member set.    *)
(*                                                                         *)
(* Every completion, of the listener or of a connection, is handled by an  *)
(* idle IOCP worker; a receive handler keeps its worker (worker[w] = c).   *)
(* Stop is the shutdown barrier: listener, connections, registry, workers; *)
(* each wait may time out, Stop then returns false and may be called       *)
(* again.                                                                  *)
(***************************************************************************)
EXTENDS TcpListener

CONSTANTS
    Conns,         \* connections that may be accepted
    MaxTimeouts    \* bound: waits of Stop that time out

ASSUME ConnsAreNotSteps ==
    /\ Conns \cap {"idle", "prepare", "handler", "finish", "throws", "exited"} = {}
    /\ MaxTimeouts \in Nat

VARIABLES
    server,        \* state_: "Running", "Stopping" or "Stopped"
    phase,         \* per connection: "none" or its lifecycle phase
    ops,           \* per connection: its operations in the kernel or the port
    member,        \* per connection: the registry holds it
    stopper,       \* where the thread in Stop is
    to_close,      \* the registry snapshot Stop still has to close
    io_stopping,   \* io_context_.Stop() was called: stop packets are queued
    timeouts       \* waits of Stop that timed out so far

connVars == <<phase, ops, member>>
stopVars == <<stopper, to_close, io_stopping, timeouts>>
vars == <<listenerVars, server, connVars, stopVars>>

Init ==
    /\ ListenerInit
    /\ server = "Running"
    /\ phase = [c \in Conns |-> "none"]
    /\ ops = [c \in Conns |-> {}]
    /\ member = [c \in Conns |-> FALSE]
    /\ stopper = "out" /\ to_close = {} /\ io_stopping = FALSE /\ timeouts = 0

------------------------------------------------------------------------------
(* The listener inside the server *)

ListenerStep ==
    /\ KernelAccepts \/ \E w \in Workers : CompletionStep(w)
    /\ UNCHANGED <<server, connVars, stopVars>>

\* OnAccepted: from the state check to the first receive under the server's
\* lock.  Start may fail to post the receive, which closes the connection at
\* once.  The socket is dropped when the server is no longer Running or the
\* connection cannot be created.
OnAccepted(w) ==
    /\ worker[w] = "handler" /\ HandlerDone(w)
    /\ \/ /\ server = "Running"
          /\ \E c \in Conns :
                /\ phase[c] = "none"
                /\ member' = [member EXCEPT ![c] = TRUE]
                /\ \/ /\ phase' = [phase EXCEPT ![c] = "Active"]
                      /\ ops' = [ops EXCEPT ![c] = {"recv"}]
                   \/ /\ phase' = [phase EXCEPT ![c] = "Closed"]
                      /\ UNCHANGED ops
       \/ UNCHANGED connVars
    /\ UNCHANGED <<lst, accept_op, arrived, server, stopVars>>

------------------------------------------------------------------------------
(* Connections at work *)

IdleWorker == \E w \in Workers : worker[w] = "idle"

\* MUTANT: Closed without waiting for what is in the kernel.
PhaseAfterCloseAtOnce(out) == "Closed"

\* The phase of a connection that is closed with these operations still out.
PhaseAfterClose(out) == IF out = {} THEN "Closed" ELSE "Closing"

\* A receive completes with bytes and its worker runs the receive handler.
Receive(w, c) ==
    /\ worker[w] = "idle" /\ phase[c] = "Active" /\ "recv" \in ops[c]
    /\ worker' = [worker EXCEPT ![w] = c]
    /\ ops' = [ops EXCEPT ![c] = @ \ {"recv"}]
    /\ UNCHANGED <<lst, accept_op, arrived, server, phase, member, stopVars>>

\* The handler sends what it received: a WSASend unless one is in flight.
Send(w) ==
    /\ worker[w] \in Conns /\ phase[worker[w]] = "Active"
    /\ ops' = [ops EXCEPT ![worker[w]] = @ \cup {"send"}]
    /\ UNCHANGED <<listenerVars, server, phase, member, stopVars>>

\* The handler returned; the next receive, if the connection is Active.
HandlerReturns(w) ==
    /\ worker[w] \in Conns
    /\ worker' = [worker EXCEPT ![w] = "idle"]
    /\ ops' = IF phase[worker[w]] = "Active"
              THEN [ops EXCEPT ![worker[w]] = @ \cup {"recv"}] ELSE ops
    /\ UNCHANGED <<lst, accept_op, arrived, server, phase, member, stopVars>>

\* A send completes and leaves nothing queued.
SendCompletes(c) ==
    /\ IdleWorker /\ phase[c] = "Active" /\ "send" \in ops[c]
    /\ ops' = [ops EXCEPT ![c] = @ \ {"send"}]
    /\ UNCHANGED <<listenerVars, server, phase, member, stopVars>>

\* A completion closes the connection: end of stream or an error.
CompletionCloses(c) ==
    /\ IdleWorker /\ phase[c] = "Active"
    /\ \E op \in ops[c] :
        /\ ops' = [ops EXCEPT ![c] = @ \ {op}]
        /\ phase' = [phase EXCEPT ![c] = PhaseAfterClose(ops[c] \ {op})]
    /\ UNCHANGED <<listenerVars, server, member, stopVars>>

\* A cancelled operation of a closing connection completes.
CancelledCompletes(c) ==
    /\ IdleWorker /\ phase[c] = "Closing"
    /\ \E op \in ops[c] :
        /\ ops' = [ops EXCEPT ![c] = @ \ {op}]
        /\ phase' = [phase EXCEPT ![c] = PhaseAfterClose(ops[c] \ {op})]
    /\ UNCHANGED <<listenerVars, server, member, stopVars>>

\* The thread that closed the connection removes it from the registry.
Leave(c) ==
    /\ phase[c] = "Closed" /\ member[c]
    /\ member' = [member EXCEPT ![c] = FALSE]
    /\ UNCHANGED <<listenerVars, server, phase, ops, stopVars>>

ConnStep(c) ==
    \/ \E w \in Workers : Receive(w, c)
    \/ SendCompletes(c) \/ CompletionCloses(c) \/ CancelledCompletes(c)
    \/ Leave(c)

------------------------------------------------------------------------------
(* Stop *)

\* MUTANT: a Stop that timed out cannot be called again.
StopBeginsOnce ==
    /\ stopper = "out" /\ server = "Running"
    /\ server' = "Stopping" /\ stopper' = "stop_listener"
    /\ UNCHANGED <<listenerVars, connVars, to_close, io_stopping, timeouts>>

\* Entered from outside the IOCP workers, one caller at a time.
StopBegins ==
    /\ stopper = "out" /\ server # "Stopped"
    /\ server' = "Stopping" /\ stopper' = "stop_listener"
    /\ UNCHANGED <<listenerVars, connVars, to_close, io_stopping, timeouts>>

StopsListener ==
    /\ stopper = "stop_listener" /\ StopListener
    /\ stopper' = "wait_listener"
    /\ UNCHANGED <<server, connVars, to_close, io_stopping, timeouts>>

\* WaitStopped succeeds; the registry is copied.
ListenerStopped ==
    /\ stopper = "wait_listener" /\ lst.state = "Stopped"
    /\ to_close' = {c \in Conns : member[c]}
    /\ stopper' = "close_connections"
    /\ UNCHANGED <<listenerVars, server, connVars, io_stopping, timeouts>>

\* MUTANT: a connection with operations in the kernel is not closed.
ClosesConnectionIfIdle(c) ==
    /\ stopper = "close_connections" /\ c \in to_close
    /\ to_close' = to_close \ {c}
    /\ phase' = IF phase[c] = "Active" /\ ops[c] = {}
                THEN [phase EXCEPT ![c] = "Closed"] ELSE phase
    /\ UNCHANGED <<listenerVars, server, ops, member, stopper, io_stopping,
                   timeouts>>

\* BeginClose(LocalShutdown) on each connection of the copy.
ClosesConnection(c) ==
    /\ stopper = "close_connections" /\ c \in to_close
    /\ to_close' = to_close \ {c}
    /\ phase' = IF phase[c] = "Active"
                THEN [phase EXCEPT ![c] = PhaseAfterClose(ops[c])] ELSE phase
    /\ UNCHANGED <<listenerVars, server, ops, member, stopper, io_stopping,
                   timeouts>>

ConnectionsClosed ==
    /\ stopper = "close_connections" /\ to_close = {}
    /\ stopper' = "wait_registry"
    /\ UNCHANGED <<listenerVars, server, connVars, to_close, io_stopping,
                   timeouts>>

\* MUTANT: the wait for the registry is skipped.
RegistryBarrierSkipped == TRUE

RegistryBarrier == \A c \in Conns : ~member[c]

\* WaitEmpty succeeds; the stop packets are queued.
RegistryEmpty ==
    /\ stopper = "wait_registry" /\ RegistryBarrier
    /\ io_stopping' = TRUE /\ stopper' = "join"
    /\ UNCHANGED <<listenerVars, server, connVars, to_close, timeouts>>

\* A wait times out: Stop returns false and the server stays Stopping.
TimesOut ==
    /\ stopper \in {"wait_listener", "wait_registry"}
    /\ timeouts < MaxTimeouts /\ timeouts' = timeouts + 1
    /\ stopper' = "out"
    /\ UNCHANGED <<listenerVars, server, connVars, to_close, io_stopping>>

WorkerExits(w) ==
    /\ io_stopping /\ worker[w] = "idle"
    /\ worker' = [worker EXCEPT ![w] = "exited"]
    /\ UNCHANGED <<lst, accept_op, arrived, server, connVars, stopVars>>

WorkersJoined ==
    /\ stopper = "join" /\ \A w \in Workers : worker[w] = "exited"
    /\ server' = "Stopped" /\ stopper' = "out"
    /\ UNCHANGED <<listenerVars, connVars, to_close, io_stopping, timeouts>>

\* Workers are scheduled and the echo handler returns.  A closed socket fails
\* what it has in the kernel, and the port is FIFO, so a packet is not passed
\* over for ever by workers that become free again and again (strong
\* fairness).
WorkersAreFair ==
    /\ WF_vars(lst.state # "Running" /\ KernelAccepts
                   /\ UNCHANGED <<server, connVars, stopVars>>)
    /\ SF_vars(\E w \in Workers : OnAcceptComplete(w)
                   /\ UNCHANGED <<server, connVars, stopVars>>)
    /\ \A w \in Workers :
        /\ WF_vars(\/ /\ worker[w] # "idle" /\ CompletionStep(w)
                      /\ UNCHANGED <<server, connVars, stopVars>>
                   \/ OnAccepted(w) \/ HandlerReturns(w))
        /\ WF_vars(WorkerExits(w))
    /\ \A c \in Conns : SF_vars(CancelledCompletes(c)) /\ WF_vars(Leave(c))

------------------------------------------------------------------------------
(* Properties *)

TypeOK ==
    /\ lst \in [state : {"Running", "Stopping", "Stopped"},
                outstanding : 0..Cardinality(Workers) + 1]
    /\ accept_op \in {"none", "pending", "ok", "error"}
    /\ arrived \in 0..MaxAccepts
    /\ worker \in [Workers -> Conns \cup {"idle", "prepare", "handler", "finish",
                                          "throws", "exited"}]
    /\ server \in {"Running", "Stopping", "Stopped"}
    /\ phase \in [Conns -> {"none", "Active", "Closing", "Closed"}]
    /\ ops \in [Conns -> SUBSET {"recv", "send"}] /\ member \in [Conns -> BOOLEAN]
    /\ stopper \in {"out", "stop_listener", "wait_listener",
                    "close_connections", "wait_registry", "wait_pool", "join"}
    /\ to_close \subseteq Conns /\ io_stopping \in BOOLEAN

\* The precondition of IoContext::Stop: when the stop packets are queued no
\* operation of the listener or of a connection is in the kernel or in the
\* port, so no completion arrives at workers that have left.
NoCompletionAfterStop ==
    /\ TypeOK
    /\ io_stopping => accept_op = "none" /\ \A c \in Conns : ops[c] = {}

\* No connection slips in behind the registry snapshot: once Stop has closed
\* the connections it copied, none is Active, and none will be.
NoneLeftBehind ==
    stopper \in {"wait_registry", "wait_pool", "join"} \/ server = "Stopped"
        => \A c \in Conns : phase[c] # "Active"

\* A server that reports Stopped is gone: no worker runs a handler, and no
\* connection is in the registry.
StoppedIsQuiet ==
    server = "Stopped" =>
        /\ \A w \in Workers : worker[w] = "exited"
        /\ \A c \in Conns : ~member[c] /\ phase[c] \in {"none", "Closed"}

\* Shutdown ends, whatever timed out before: the barriers wait for nothing
\* that waits for them.
ShutdownCompletes == server = "Stopping" ~> server = "Stopped"

\* Each connection of the server lives the lifecycle that TcpConnection
\* implements; before it is accepted it counts as one that has done nothing.
Conn(c) == INSTANCE ConnectionLifecycle
    WITH phase <- IF phase[c] = "none" THEN "Active" ELSE phase[c],
         ops <- Cardinality(ops[c]), member <- (phase[c] = "none" \/ member[c])
ConnsImplementLifecycle ==
    /\ \A c \in Conns : Conn(c)!Init
    /\ [][\A c \in Conns : [Conn(c)!Next]_(Conn(c)!vars)]_vars
==============================================================================
