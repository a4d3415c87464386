---------------------------- MODULE IocpExecutor -----------------------------
(***************************************************************************)
(* execution/iocp_executor: tasks run on the IOCP workers.  Post reserves  *)
(* a slot under the executor's mutex, posts the packet under the context's *)
(* mutex, and takes the slot back when the context refuses; a posting      *)
(* thread may be between any two of these while Stop of the executor, Stop *)
(* of the context, and the workers go on.                                  *)
(***************************************************************************)
EXTENDS IoContext

CONSTANTS
    Tasks,                \* tasks offered, each once and by its own thread
    MaximumPendingTasks,  \* maximum_pending_tasks
    StopModes             \* modes the executor is stopped with

\* What the constructors require.
ExecutorOptionsAreValid ==
    /\ MaximumPendingTasks \in Nat \ {0}
    /\ {"stop", "dequeue", "exited"} \cap Tasks = {}
    /\ StopModes \subseteq {"Drain", "CancelPending"}

VARIABLES
    exec,    \* [state, stop_mode, pending, running]
    poster,  \* per task: where the call Post(task) is, or its result
    step     \* per task: what became of its packet

vars == <<contextVars, exec, poster, step>>

Init ==
    /\ ContextInit
    /\ exec = [state |-> "Running", stop_mode |-> "Drain", pending |-> 0,
               running |-> 0]
    /\ poster = [t \in Tasks |-> "idle"]
    /\ step = [t \in Tasks |-> "none"]

MoveToStoppedIfDrainedLocked(e) ==
    IF e.state = "Stopping" /\ e.pending = 0 /\ e.running = 0
    THEN [e EXCEPT !.state = "Stopped"] ELSE e

\* Post, first section: refuse or reserve a slot.
Reserve(t) ==
    /\ poster[t] = "idle"
    /\ poster' = [poster EXCEPT ![t] =
           IF exec.state # "Running" THEN "Stopped"
           ELSE IF exec.pending >= MaximumPendingTasks THEN "Saturated"
           ELSE "reserved"]
    /\ exec' = IF poster'[t] = "reserved" THEN [exec EXCEPT !.pending = @ + 1]
                                          ELSE exec
    /\ UNCHANGED <<contextVars, step>>

\* Post, second section: the packet goes to the port, or the context has
\* stopped, or posting the packet fails.
PostPacket(t) ==
    /\ poster[t] = "reserved"
    /\ \/ /\ PostTask(t)
          /\ poster' = [poster EXCEPT ![t] = "Accepted"]
          /\ step' = [step EXCEPT ![t] = "queued"]
       \/ /\ stopping /\ poster' = [poster EXCEPT ![t] = "refused"]
          /\ UNCHANGED <<port, step>>
       \/ /\ ~stopping /\ poster' = [poster EXCEPT ![t] = "failed"]
          /\ UNCHANGED <<port, step>>
    /\ UNCHANGED <<port_open, stopping, io_worker, exec>>

\* MUTANT: a refused submission leaves its slot taken.
RolledBackKeepingSlot(e, refused) ==
    MoveToStoppedIfDrainedLocked(
        [e EXCEPT !.state = IF refused /\ @ = "Running" THEN "Stopping" ELSE @])

RolledBack(e, refused) ==
    MoveToStoppedIfDrainedLocked(
        [e EXCEPT !.pending = IF @ > 0 THEN @ - 1 ELSE @,
                  !.state = IF refused /\ @ = "Running" THEN "Stopping" ELSE @])

\* RollBackSubmission: Post returns Stopped, or throws.
RollBackSubmission(t) ==
    /\ poster[t] \in {"refused", "failed"}
    /\ exec' = RolledBack(exec, poster[t] = "refused")
    /\ poster' = [poster EXCEPT ![t] =
           IF @ = "refused" THEN "Stopped" ELSE "thrown"]
    /\ UNCHANGED <<contextVars, step>>

Stop(mode) ==
    /\ exec.state # "Stopped"
    /\ exec' = MoveToStoppedIfDrainedLocked(
           [exec EXCEPT !.state = "Stopping",
                        !.stop_mode = IF exec.state = "Running"
                                         \/ mode = "CancelPending"
                                      THEN mode ELSE @])
    /\ UNCHANGED <<contextVars, poster, step>>

\* ExecutePacket, first section: the packet becomes a running or a cancelled
\* task.
BeginPacket(w) ==
    LET t == io_worker[w]
        cancelled == exec.state # "Running" /\ exec.stop_mode = "CancelPending"
    IN  /\ t \in Tasks /\ step[t] = "queued"
        /\ step' = [step EXCEPT ![t] = IF cancelled THEN "cancelled"
                                                    ELSE "running"]
        /\ exec' = [exec EXCEPT !.pending = IF @ > 0 THEN @ - 1 ELSE @,
                                !.running = IF cancelled THEN @ ELSE @ + 1]
        /\ UNCHANGED <<contextVars, poster>>

\* ExecutePacket, second section: the task returned or threw, or was
\* cancelled; the worker goes back to the port.
EndPacket(w) ==
    LET t == io_worker[w]
    IN  /\ t \in Tasks /\ step[t] \in {"running", "cancelled"}
        /\ exec' = MoveToStoppedIfDrainedLocked(
               IF step[t] = "running" THEN [exec EXCEPT !.running = @ - 1]
                                      ELSE exec)
        /\ step' = [step EXCEPT ![t] =
               IF @ = "running" THEN "completed" ELSE "discarded"]
        /\ io_worker' = [io_worker EXCEPT ![w] = "dequeue"]
        /\ UNCHANGED <<port, port_open, stopping, poster>>

Next ==
    \/ \E t \in Tasks : Reserve(t) \/ PostPacket(t) \/ RollBackSubmission(t)
    \/ \E mode \in StopModes : Stop(mode)
    \/ StopContext /\ UNCHANGED <<exec, poster, step>>
    \/ \E w \in IoWorkers :
        \/ (WorkerDequeues(w) \/ WorkerLosesPort(w))
               /\ UNCHANGED <<exec, poster, step>>
        \/ BeginPacket(w) \/ EndPacket(w)

Spec == Init /\ [][Next]_vars

\* Threads inside Post go on, workers are scheduled, and tasks return.
Fairness ==
    /\ \A t \in Tasks : WF_vars(PostPacket(t) \/ RollBackSubmission(t))
    /\ \A w \in IoWorkers :
        /\ WF_vars((WorkerDequeues(w) \/ WorkerLosesPort(w))
                       /\ UNCHANGED <<exec, poster, step>>)
        /\ WF_vars(BeginPacket(w) \/ EndPacket(w))

FairSpec == Spec /\ Fairness

------------------------------------------------------------------------------
(* Properties *)

TypeOK ==
    /\ port \in Seq(Tasks \cup {"stop"})
    /\ port_open \in BOOLEAN /\ stopping \in BOOLEAN
    /\ io_worker \in [IoWorkers -> Tasks \cup {"dequeue", "exited"}]
    /\ exec \in [state : {"Running", "Stopping", "Stopped"},
                 stop_mode : {"Drain", "CancelPending"},
                 pending : 0..MaximumPendingTasks,
                 running : 0..Cardinality(IoWorkers)]
    /\ poster \in [Tasks -> {"idle", "reserved", "refused", "failed", "thrown",
                             "Accepted", "Stopped", "Saturated"}]
    /\ step \in [Tasks -> {"none", "queued", "running", "cancelled",
                           "completed", "discarded"}]

\* The two counters that decide Stopped count what is really out: a slot per
\* posting thread and queued packet, and a running task per worker in one.
CountersAreExact ==
    /\ TypeOK
    /\ exec.pending = Cardinality(
           {t \in Tasks : \/ poster[t] \in {"reserved", "refused", "failed"}
                          \/ step[t] = "queued"})
    /\ exec.running = Cardinality({t \in Tasks : step[t] = "running"})

\* A task runs only if Post accepted it, on one worker, and nothing of the
\* executor is in the port or on a worker once it reports Stopped.
StoppedIsQuiet ==
    exec.state = "Stopped" =>
        \A t \in Tasks :
            /\ step[t] \notin {"queued", "running"}
            /\ poster[t] \notin {"reserved", "refused", "failed"}

\* What became of a task, in the words of the contract.
Status(t) ==
    CASE step[t] = "queued" -> "accepted"
      [] step[t] = "running" -> "running"
      [] step[t] = "completed" -> "done"
      [] step[t] \in {"cancelled", "discarded"} -> "dropped"
      [] step[t] = "none" ->
            IF poster[t] \in {"reserved", "refused", "failed"} THEN "admitted"
            ELSE "new"

\* What IExecutor promises, with the executor's own state as phase and mode.
Contract == INSTANCE ExecutorContract WITH
    phase <- exec.state, mode <- exec.stop_mode,
    status <- [t \in Tasks |-> Status(t)]

\* Every accepted task has run or was cancelled by CancelPending, even when the
\* context is stopped while the executor is still running, unless a stop
\* packet could not be posted and the port was closed.
NoneWaits ==
    \A t \in Tasks :
        poster[t] = "Accepted" =>
            \/ step[t] = "completed"
            \/ step[t] = "discarded" /\ exec.stop_mode = "CancelPending"
            \/ ~port_open

\* Every worker has left its loop after Stop of the context, so Join returns,
\* and a stop of the executor is complete unless the port was closed.
StopIsOver ==
    /\ stopping => \A w \in IoWorkers : io_worker[w] = "exited"
    /\ port_open => exec.state # "Stopping"
==============================================================================
