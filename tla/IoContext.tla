------------------------------ MODULE IoContext ------------------------------
(***************************************************************************)
(* runtime/io_context: the completion port and its workers.  The port is a *)
(* FIFO of packets, as the kernel keeps it; a packet is "stop" or a task.  *)
(* Stop and PostTask are serialised by the lifecycle mutex.                *)
(***************************************************************************)
EXTENDS Naturals, Sequences, FiniteSets

CONSTANT IoWorkers    \* the threads in RunWorker

ContextOptionsAreValid == IsFiniteSet(IoWorkers) /\ IoWorkers # {}

VARIABLES
    port,        \* packets queued to the completion port, oldest first
    port_open,   \* the port handle is open
    stopping,    \* stopping_
    io_worker    \* per thread: "dequeue", "exited", or the task it executes

contextVars == <<port, port_open, stopping, io_worker>>

ContextInit ==
    /\ port = <<>> /\ port_open = TRUE /\ stopping = FALSE
    /\ io_worker = [w \in IoWorkers |-> "dequeue"]

\* PostTask: refused once Stop has run.  (A failing post throws, and the
\* caller takes the submission back: see IocpExecutor.)
PostTask(task) == ~stopping /\ port' = Append(port, task)

\* MUTANT: one stop packet for all workers.
SingleStopPacket == port \o <<"stop">>

\* One stop packet per worker, after everything queued before.
WithStopPackets == port \o [i \in 1..Cardinality(IoWorkers) |-> "stop"]

\* Stop, first call.  A stop packet that cannot be posted closes the port.
StopContext ==
    /\ ~stopping /\ stopping' = TRUE
    /\ \/ port' = WithStopPackets /\ UNCHANGED port_open
       \/ port_open' = FALSE /\ UNCHANGED port
    /\ UNCHANGED io_worker

\* A worker dequeues the oldest packet: it leaves on a stop packet, else
\* executes the task.
WorkerDequeues(w) ==
    /\ io_worker[w] = "dequeue" /\ port_open /\ port # <<>>
    /\ io_worker' = [io_worker EXCEPT ![w] =
           IF Head(port) = "stop" THEN "exited" ELSE Head(port)]
    /\ port' = Tail(port)
    /\ UNCHANGED <<port_open, stopping>>

\* The port was closed under the worker: the dequeue fails and it leaves.
WorkerLosesPort(w) ==
    /\ io_worker[w] = "dequeue" /\ ~port_open
    /\ io_worker' = [io_worker EXCEPT ![w] = "exited"]
    /\ UNCHANGED <<port, port_open, stopping>>
==============================================================================
