------------------------------ MODULE HttpServer ------------------------------
(***************************************************************************)
(* apps/http_server beside apps/echo_server, with which it shares the      *)
(* listener, the connections, the registry and most of Stop.  Its receive  *)
(* handlers post requests to an application pool whose threads answer on   *)
(* the connection when they are done, so that two more things run behind   *)
(* the registry barrier: handlers that still post, and tasks of            *)
(* connections that are gone.  Stop drains the pool between the registry   *)
(* and the IOCP workers.                                                   *)
(***************************************************************************)
EXTENDS EchoServer

CONSTANT Apps      \* the servers considered, of "echo" and "http"

VARIABLES
    app,           \* the server of this behaviour
    pool,          \* application_context_: "Running", "Stopping" or "Stopped"
    task           \* per connection: its request in the pool, one at a time

appVars == <<app, pool, task>>
serverVars == <<vars, appVars>>

ServerInit ==
    /\ Init /\ app \in Apps
    /\ pool = "Running" /\ task = [c \in Conns |-> "none"]

------------------------------------------------------------------------------
(* Requests *)

Closed(c) == [phase EXCEPT ![c] = IF @ = "Active" THEN PhaseAfterClose(ops[c]) ELSE @]

\* Feed found a request and its Post was accepted.
Post(w) ==
    /\ worker[w] \in Conns /\ task[worker[w]] = "none" /\ pool = "Running"
    /\ task' = [task EXCEPT ![worker[w]] = "queued"]
    /\ UNCHANGED <<vars, app, pool>>

\* Feed returned a status the connection does not survive: the pool is stopped
\* or saturated, or the session wants the connection closed.
FeedCloses(w) ==
    /\ worker[w] \in Conns
    /\ phase' = Closed(worker[w])
    /\ UNCHANGED <<listenerVars, server, ops, member, stopVars, appVars>>

TaskStarts(c) ==
    /\ task[c] = "queued"
    /\ task' = [task EXCEPT ![c] = "running"]
    /\ UNCHANGED <<vars, app, pool>>

\* The response_sender: SendBatch posts a WSASend on an Active connection and
\* does nothing on another; when the answer cannot be queued or encoded the
\* connection is closed.
TaskAnswers(c) ==
    /\ task[c] = "running"
    /\ task' = [task EXCEPT ![c] = "none"]
    /\ \/ /\ ops' = IF phase[c] = "Active" THEN [ops EXCEPT ![c] = @ \cup {"send"}]
                    ELSE ops
          /\ UNCHANGED phase
       \/ phase' = Closed(c) /\ UNCHANGED ops
    /\ UNCHANGED <<listenerVars, server, member, stopVars, app, pool>>

------------------------------------------------------------------------------
(* Stop *)

PoolDrained == pool = "Stopping" /\ \A c \in Conns : task[c] = "none"

\* MUTANT: the workers are stopped while the pool still drains.
RegistryEmptyPoolRuns ==
    /\ stopper = "wait_registry" /\ RegistryBarrier
    /\ pool' = "Stopping" /\ stopper' = "join" /\ io_stopping' = TRUE
    /\ UNCHANGED <<listenerVars, server, connVars, to_close, timeouts, app, task>>

\* WaitEmpty succeeds; the pool takes no more tasks, and drains.
RegistryEmptyStopsPool ==
    /\ stopper = "wait_registry" /\ RegistryBarrier
    /\ pool' = IF pool = "Running" THEN "Stopping" ELSE pool
    /\ stopper' = "wait_pool"
    /\ UNCHANGED <<listenerVars, server, connVars, to_close, io_stopping, timeouts,
                   app, task>>

\* The last thread of the pool leaves.
PoolStops ==
    /\ PoolDrained /\ pool' = "Stopped"
    /\ UNCHANGED <<vars, app, task>>

\* WaitStopped and Join return; the stop packets are queued.
PoolStopped ==
    /\ stopper = "wait_pool" /\ pool = "Stopped"
    /\ io_stopping' = TRUE /\ stopper' = "join"
    /\ UNCHANGED <<listenerVars, server, connVars, to_close, timeouts, appVars>>

\* The wait for the pool times out.
PoolTimesOut ==
    /\ stopper = "wait_pool"
    /\ timeouts < MaxTimeouts /\ timeouts' = timeouts + 1
    /\ stopper' = "out"
    /\ UNCHANGED <<listenerVars, server, connVars, to_close, io_stopping, appVars>>

------------------------------------------------------------------------------

\* What the two servers have in common.
SharedStop ==
    \/ StopBegins \/ StopsListener \/ ListenerStopped
    \/ \E c \in Conns : ClosesConnection(c)
    \/ ConnectionsClosed \/ WorkersJoined

SharedStep ==
    \/ ListenerStep
    \/ \E w \in Workers : \/ OnAccepted(w) \/ Send(w) \/ HandlerReturns(w)
                          \/ WorkerExits(w)
    \/ \E c \in Conns : ConnStep(c)

TaskStep(c) == TaskStarts(c) \/ TaskAnswers(c)

ServerStop ==
    \/ SharedStop /\ UNCHANGED appVars
    \/ app = "echo" /\ RegistryEmpty /\ UNCHANGED appVars
    \/ app = "http" /\ (RegistryEmptyStopsPool \/ PoolStopped)

ServerNext ==
    \/ (SharedStep \/ TimesOut) /\ UNCHANGED appVars
    \/ ServerStop
    \/ /\ app = "http"
       /\ \/ \E w \in Workers : Post(w) \/ FeedCloses(w)
          \/ \E c \in Conns : TaskStep(c)
          \/ PoolStops \/ PoolTimesOut

\* The fairness of the echo server's threads, the threads of the pool, and an
\* owner who calls Stop until it succeeds.
ServerSpec ==
    /\ ServerInit /\ [][ServerNext]_serverVars
    /\ WorkersAreFair
    /\ WF_serverVars(server = "Stopping" /\ ServerStop)
    /\ \A c \in Conns : WF_serverVars(TaskStep(c))
    /\ WF_serverVars(PoolStops)

------------------------------------------------------------------------------
(* Properties *)

ServerTypeOK ==
    /\ TypeOK /\ app \in Apps
    /\ pool \in {"Running", "Stopping", "Stopped"}
    /\ task \in [Conns -> {"none", "queued", "running"}]

\* A listener or a server that reports Stopped is gone: no worker runs a
\* handler of it, no task of the pool is left that would answer, and no
\* connection is in the registry.
AllIsQuiet ==
    /\ ServerTypeOK /\ ListenerStoppedIsQuiet /\ StoppedIsQuiet
    /\ app = "http" /\ io_stopping => \A c \in Conns : task[c] = "none"

==============================================================================
