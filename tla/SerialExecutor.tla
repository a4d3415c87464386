---------------------------- MODULE SerialExecutor ----------------------------
(***************************************************************************)
(* execution/serial_executor over the thread pool: several serial          *)
(* executors (one per HTTP/1.1 connection) share the pool, each with at    *)
(* most one drain task in it.  A pool task is the serial executor whose    *)
(* Drain it calls, or a task posted to the pool directly.  Post holds the  *)
(* serial mutex over the call into the pool, so it is one step.            *)
(***************************************************************************)
EXTENDS ThreadPoolContext

CONSTANTS
    Serials,               \* the serial executors
    MaximumSerialTasks,    \* maximum_pending_tasks_ of each
    DirectTasks,           \* tasks posted to the pool itself
    MaxPosts,              \* bound: tasks offered to each serial executor
    StopModes,             \* modes the serial executors are stopped with
    PoolStopModes          \* modes the pool is stopped with

ASSUME SerialOptionsAreValid ==
    /\ MaximumSerialTasks \in Nat \ {0} /\ MaxPosts \in Nat
    /\ StopModes \subseteq StopMode /\ PoolStopModes \subseteq StopMode
    /\ Serials \cap DirectTasks = {}
    /\ {"waiting", "exited"} \cap (Serials \cup DirectTasks) = {}

VARIABLES
    serial,      \* per executor: [state, stop_mode, tasks, drain_scheduled, running]
    executing,   \* per worker: the serial task it runs inside Drain, 0 for none
    offered,     \* history: number of tasks offered to each serial executor
    accepted,    \* history: tasks each accepted, in order
    begun,       \* history: tasks of each that began, in order
    direct       \* history: direct tasks posted

vars == <<pool, worker, serial, executing, offered, accepted, begun, direct>>

------------------------------------------------------------------------------
(* Under the serial executor's mutex *)

\* MUTANT: Stopped without waiting for the running task.
StoppedIfEmpty(e) ==
    IF e.state = "Stopping" /\ e.tasks = <<>>
    THEN [e EXCEPT !.state = "Stopped"] ELSE e

MoveToStoppedIfDrainedLocked(e) ==
    IF e.state = "Stopping" /\ e.tasks = <<>> /\ e.running = 0
    THEN [e EXCEPT !.state = "Stopped"] ELSE e

\* MUTANT: a task is put in front of those that wait.
PushedFirst(e, task) == [e EXCEPT !.tasks = <<task>> \o @]

Pushed(e, task) == [e EXCEPT !.tasks = Append(@, task)]

\* Stop: the first call picks the mode, a later CancelPending upgrades it.
SerialStopLocked(e, mode) ==
    LET chosen == IF e.state = "Running" \/ mode = "CancelPending"
                  THEN mode ELSE e.stop_mode
    IN  IF e.state = "Stopped" THEN e
        ELSE MoveToStoppedIfDrainedLocked(
                 [e EXCEPT !.state = "Stopping", !.stop_mode = chosen,
                           !.tasks = IF chosen = "CancelPending"
                                     THEN <<>> ELSE @])

------------------------------------------------------------------------------
(* Steps *)

Init ==
    /\ PoolInit
    /\ serial = [s \in Serials |->
            [state |-> "Running", stop_mode |-> "Drain", tasks |-> <<>>,
             drain_scheduled |-> FALSE, running |-> 0]]
    /\ executing = [w \in Workers |-> 0]
    /\ offered = [s \in Serials |-> 0]
    /\ accepted = [s \in Serials |-> <<>>]
    /\ begun = [s \in Serials |-> <<>>]
    /\ direct = {}

\* MUTANT: every Post schedules a drain task.
NeedsDrainAlways(e) == TRUE

NeedsDrain(e) == ~e.drain_scheduled

\* Post: the task joins the queue; without a drain task in the pool one is
\* posted, and the pool's refusal, or a failure to post, takes the task back.
\* A pool that has stopped stops the serial executor.
Post(s) ==
    LET e    == serial[s]
        task == offered[s] + 1
    IN  /\ offered[s] < MaxPosts
        /\ offered' = [offered EXCEPT ![s] = task]
        /\ e.state = "Running" /\ Len(e.tasks) < MaximumSerialTasks
        /\ \/ /\ ~NeedsDrain(e)
              /\ serial' = [serial EXCEPT ![s] = Pushed(e, task)]
              /\ accepted' = [accepted EXCEPT ![s] = Append(@, task)]
              /\ UNCHANGED pool
           \/ /\ NeedsDrain(e) /\ SubmitStatus(pool) = "Accepted"
              /\ serial' = [serial EXCEPT ![s] =
                     [Pushed(e, task) EXCEPT !.drain_scheduled = TRUE]]
              /\ accepted' = [accepted EXCEPT ![s] = Append(@, task)]
              /\ pool' = Submitted(pool, s)
           \/ /\ NeedsDrain(e) /\ SubmitStatus(pool) # "Stopped"
              /\ UNCHANGED <<serial, accepted, pool>>
           \/ /\ NeedsDrain(e) /\ SubmitStatus(pool) = "Stopped"
              /\ serial' = [serial EXCEPT ![s].state = "Stopped"]
              /\ UNCHANGED <<accepted, pool>>
        /\ UNCHANGED <<worker, executing, begun, direct>>

Stop(s, mode) ==
    /\ serial[s].state # "Stopped"
    /\ serial' = [serial EXCEPT ![s] = SerialStopLocked(@, mode)]
    /\ UNCHANGED <<pool, worker, executing, offered, accepted, begun, direct>>

\* A task posted to the pool beside the serial executors.
PostDirect(task) ==
    /\ task \notin direct /\ direct' = direct \cup {task}
    /\ pool' = Submitted(pool, task)
    /\ UNCHANGED <<worker, serial, executing, offered, accepted, begun>>

StopPool(mode) ==
    /\ pool.state # "Stopped"
    /\ pool' = StopLocked(pool, mode)
    /\ UNCHANGED <<worker, serial, executing, offered, accepted, begun, direct>>

PoolStep(w) ==
    /\ WorkerTakes(w) \/ WorkerExits(w)
    /\ UNCHANGED <<serial, executing, offered, accepted, begun, direct>>

DirectReturns(w) ==
    /\ worker[w] \in DirectTasks /\ Release(w)
    /\ UNCHANGED <<pool, serial, executing, offered, accepted, begun, direct>>

\* The top of Drain's loop with a task queued.
DrainTakes(w) ==
    LET s == worker[w]
    IN  /\ s \in Serials /\ executing[w] = 0 /\ serial[s].tasks # <<>>
        /\ executing' = [executing EXCEPT ![w] = Head(serial[s].tasks)]
        /\ begun' = [begun EXCEPT ![s] = Append(@, Head(serial[s].tasks))]
        /\ serial' = [serial EXCEPT ![s].tasks = Tail(@), ![s].running = @ + 1]
        /\ UNCHANGED <<pool, worker, offered, accepted, direct>>

\* Execute returned (an exception is swallowed) and the loop counts it.
TaskReturns(w) ==
    LET s == worker[w]
    IN  /\ s \in Serials /\ executing[w] # 0
        /\ executing' = [executing EXCEPT ![w] = 0]
        /\ serial' = [serial EXCEPT ![s] =
               MoveToStoppedIfDrainedLocked(
                   [serial[s] EXCEPT !.running = serial[s].running - 1])]
        /\ UNCHANGED <<pool, worker, offered, accepted, begun, direct>>

\* MUTANT: the drain task ends but the flag stays, as if a drain were coming.
DrainedKeepsFlag(e) == MoveToStoppedIfDrainedLocked(e)

Drained(e) ==
    MoveToStoppedIfDrainedLocked([e EXCEPT !.drain_scheduled = FALSE])

\* The top of Drain's loop with nothing queued: the drain task is over.
DrainReturns(w) ==
    LET s == worker[w]
    IN  /\ s \in Serials /\ executing[w] = 0 /\ serial[s].tasks = <<>>
        /\ serial' = [serial EXCEPT ![s] = Drained(@)]
        /\ Release(w)
        /\ UNCHANGED <<pool, executing, offered, accepted, begun, direct>>

Next ==
    \/ \E s \in Serials : Post(s) \/ \E mode \in StopModes : Stop(s, mode)
    \/ \E task \in DirectTasks : PostDirect(task)
    \/ \E mode \in PoolStopModes : StopPool(mode)
    \/ \E w \in Workers : \/ PoolStep(w) \/ DirectReturns(w)
                          \/ DrainTakes(w) \/ TaskReturns(w) \/ DrainReturns(w)

Spec == Init /\ [][Next]_vars

\* Pool threads are scheduled, and the tasks they run return.
Fairness ==
    \A w \in Workers :
        WF_vars(\/ PoolStep(w) \/ DirectReturns(w)
                \/ DrainTakes(w) \/ TaskReturns(w) \/ DrainReturns(w))

FairSpec == Spec /\ Fairness

------------------------------------------------------------------------------
(* Properties *)

SerialType ==
    [state : {"Running", "Stopping", "Stopped"}, stop_mode : StopMode,
     tasks : Seq(Nat), drain_scheduled : BOOLEAN, running : Nat]

TypeOK ==
    /\ pool \in [state : {"Running", "Stopping", "Stopped"},
                 stop_mode : StopMode, tasks : Seq(Serials \cup DirectTasks),
                 live_workers : 0..Cardinality(Workers)]
    /\ Len(pool.tasks) <= MaximumPendingTasks
    /\ worker \in [Workers -> Serials \cup DirectTasks \cup {"waiting", "exited"}]
    /\ serial \in [Serials -> SerialType]
    /\ \A s \in Serials : Len(serial[s].tasks) <= MaximumSerialTasks
    /\ executing \in [Workers -> Nat] /\ offered \in [Serials -> Nat]
    /\ accepted \in [Serials -> Seq(Nat)] /\ begun \in [Serials -> Seq(Nat)]
    /\ direct \subseteq DirectTasks

\* "Non-overlapping execution": no two pool threads are ever inside tasks of
\* the same serial executor, nor inside its Drain, whatever the pool's size.
NonOverlapping ==
    /\ TypeOK
    /\ \A v, w \in Workers :
        v # w /\ worker[v] \in Serials => worker[w] # worker[v]

\* "FIFO": the tasks of a serial executor begin in the order it accepted
\* them, each once; without CancelPending none is lost.
BeginsInOrder ==
    \A s \in Serials :
        /\ Len(begun[s]) <= Len(accepted[s])
        /\ begun[s] = SubSeq(accepted[s], 1, Len(begun[s]))
        /\ serial[s].stop_mode = "Drain" => begun[s] \o serial[s].tasks = accepted[s]

\* A serial executor that reports Stopped runs nothing and will run nothing.
StoppedIsQuiet ==
    \A s \in Serials :
        serial[s].state = "Stopped" =>
            /\ serial[s].tasks = <<>>
            /\ \A w \in Workers : worker[w] = s => executing[w] = 0

\* Nothing is left to be done for a Stop of a serial executor, or for a task it
\* accepted, unless it or the pool cancels: a cancelled drain task is lost.
StopIsOver ==
    \A s \in Serials :
        serial[s].state # "Stopping" \/ pool.stop_mode = "CancelPending"

NoneWaits ==
    \A s \in Serials :
        \/ Len(begun[s]) = Len(accepted[s])
        \/ "CancelPending" \in {serial[s].stop_mode, pool.stop_mode}

------------------------------------------------------------------------------
Elements(s) == {s[i] : i \in DOMAIN s}

\* How far task n of serial executor s has come.
Status(s, n) ==
    IF n \in Elements(begun[s])
    THEN IF \E w \in Workers : worker[w] = s /\ executing[w] = n
         THEN "running" ELSE "done"
    ELSE IF n \in Elements(serial[s].tasks) THEN "accepted"
    ELSE IF n \in Elements(accepted[s]) THEN "dropped" ELSE "new"

Contract(s) == INSTANCE ExecutorContract WITH
    Tasks <- 1..MaxPosts, phase <- serial[s].state, mode <- serial[s].stop_mode,
    status <- [n \in 1..MaxPosts |-> Status(s, n)]
==============================================================================
