-------------------------- MODULE ThreadPoolContext --------------------------
(***************************************************************************)
(* execution/thread_pool_executor: the fixed set of workers and their      *)
(* bounded queue.  pool holds the fields the pool's mutex guards, worker   *)
(* what each thread is doing.  The operators on a record p are critical    *)
(* sections; the modules that post tasks compose them.  The counters only  *)
(* Snapshot reads are left out, and so are the condition variables: every  *)
(* wait re-tests its predicate under the mutex and every change of it is   *)
(* notified.                                                               *)
(***************************************************************************)
EXTENDS Naturals, Sequences, FiniteSets

CONSTANTS
    Workers,              \* the pool's threads
    MaximumPendingTasks   \* maximum_pending_tasks

\* The constructor throws unless these hold.
ASSUME PoolOptionsAreValid ==
    /\ IsFiniteSet(Workers) /\ Workers # {}
    /\ MaximumPendingTasks \in Nat \ {0}

VARIABLES
    pool,     \* [state, stop_mode, tasks, live_workers]
    worker    \* per thread: "waiting", "exited", or the task it runs

StopMode == {"Drain", "CancelPending"}

PoolInit ==
    /\ pool = [state |-> "Running", stop_mode |-> "Drain", tasks |-> <<>>,
               live_workers |-> Cardinality(Workers)]
    /\ worker = [w \in Workers |-> "waiting"]

\* What Submit returns, and the queue it leaves.
SubmitStatus(p) ==
    IF p.state # "Running" THEN "Stopped"
    ELSE IF Len(p.tasks) >= MaximumPendingTasks THEN "Saturated"
    ELSE "Accepted"

Submitted(p, task) ==
    IF SubmitStatus(p) = "Accepted"
    THEN [p EXCEPT !.tasks = Append(@, task)] ELSE p

\* MUTANT: a second Stop turns a cancelling pool back into a draining one
\* and the tasks are not dropped.
StoppedByLastMode(p, mode) ==
    IF p.state = "Stopped" THEN p
    ELSE [p EXCEPT !.state = IF p.live_workers = 0 THEN "Stopped"
                                                   ELSE "Stopping",
                   !.stop_mode = mode]

\* Stop: the first call picks the mode, a later CancelPending upgrades it.
StopLocked(p, mode) ==
    LET chosen == IF p.state = "Running" \/ mode = "CancelPending"
                  THEN mode ELSE p.stop_mode
    IN  IF p.state = "Stopped" THEN p
        ELSE [p EXCEPT !.state = IF p.live_workers = 0 THEN "Stopped"
                                                       ELSE "Stopping",
                       !.stop_mode = chosen,
                       !.tasks = IF chosen = "CancelPending" THEN <<>> ELSE @]

MayTake(p) ==
    p.tasks # <<>> /\ (p.state = "Running" \/ p.stop_mode = "Drain")

\* A worker takes the oldest task.
WorkerTakes(w) ==
    /\ worker[w] = "waiting" /\ MayTake(pool)
    /\ worker' = [worker EXCEPT ![w] = Head(pool.tasks)]
    /\ pool' = [pool EXCEPT !.tasks = Tail(@)]

MayExit(p) == p.state # "Running" /\ ~MayTake(p)

\* A worker of a stopping pool with nothing left to take leaves its loop; the
\* last one out marks the pool Stopped.
WorkerExits(w) ==
    LET live == IF pool.live_workers > 0 THEN pool.live_workers - 1 ELSE 0
    IN  /\ worker[w] = "waiting" /\ MayExit(pool)
        /\ worker' = [worker EXCEPT ![w] = "exited"]
        /\ pool' = [pool EXCEPT !.live_workers = live,
                                !.state = IF live = 0 THEN "Stopped" ELSE @]

\* The task returned, or threw, and the worker goes back to waiting.
Release(w) == worker' = [worker EXCEPT ![w] = "waiting"]
==============================================================================
