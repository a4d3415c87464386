------------------------- MODULE ThreadPoolExecutor --------------------------
(***************************************************************************)
(* The executor contract of the thread pool: independent tasks posted from *)
(* any thread, and the history that says what became of each.              *)
(***************************************************************************)
EXTENDS ThreadPoolContext

CONSTANTS
    Tasks,       \* the tasks offered, each once
    StopModes    \* the modes Stop is called with

\* A task is none of the things a worker does besides.
PoolTasksAreValid ==
    StopModes \subseteq StopMode /\ {"waiting", "exited"} \cap Tasks = {}

VARIABLES
    offered,     \* history: tasks some thread has posted
    accepted,    \* history: tasks Post accepted, in order
    taken,       \* history: tasks workers took, in order
    dropped      \* history: tasks a CancelPending discarded

vars == <<pool, worker, offered, accepted, taken, dropped>>

Init ==
    /\ PoolInit
    /\ offered = {} /\ accepted = <<>> /\ taken = <<>> /\ dropped = {}

Post(task) ==
    /\ task \notin offered /\ offered' = offered \cup {task}
    /\ pool' = Submitted(pool, task)
    /\ accepted' = IF SubmitStatus(pool) = "Accepted"
                   THEN Append(accepted, task) ELSE accepted
    /\ UNCHANGED <<worker, taken, dropped>>

Stop(mode) ==
    /\ pool.state # "Stopped"
    /\ pool' = StopLocked(pool, mode)
    /\ dropped' = IF pool'.stop_mode = "CancelPending"
                  THEN dropped \cup {pool.tasks[i] : i \in DOMAIN pool.tasks}
                  ELSE dropped
    /\ UNCHANGED <<worker, offered, accepted, taken>>

Take(w) ==
    /\ WorkerTakes(w)
    /\ taken' = Append(taken, Head(pool.tasks))
    /\ UNCHANGED <<offered, accepted, dropped>>

Finish(w) ==
    /\ worker[w] \in Tasks
    /\ Release(w)
    /\ UNCHANGED <<pool, offered, accepted, taken, dropped>>

Exit(w) ==
    /\ WorkerExits(w)
    /\ UNCHANGED <<offered, accepted, taken, dropped>>

Next ==
    \/ \E task \in Tasks : Post(task)
    \/ \E mode \in StopModes : Stop(mode)
    \/ \E w \in Workers : Take(w) \/ Finish(w) \/ Exit(w)

Spec == Init /\ [][Next]_vars

\* Threads are scheduled, and the tasks posted return.
Fairness == \A w \in Workers : WF_vars(Take(w) \/ Finish(w) \/ Exit(w))

FairSpec == Spec /\ Fairness

------------------------------------------------------------------------------
Elements(s) == {s[i] : i \in DOMAIN s}

TypeOK ==
    /\ pool.state \in {"Running", "Stopping", "Stopped"}
    /\ pool.stop_mode \in StopMode
    /\ pool.tasks \in Seq(Tasks) /\ Len(pool.tasks) <= MaximumPendingTasks
    /\ pool.live_workers \in 0..Cardinality(Workers)
    /\ worker \in [Workers -> Tasks \cup {"waiting", "exited"}]
    /\ offered \subseteq Tasks /\ dropped \subseteq Tasks
    /\ accepted \in Seq(Tasks) /\ taken \in Seq(Tasks)

\* "Accepted means the task runs exactly once unless CancelPending applies":
\* every task is accepted at most once; those accepted are first the ones that
\* were taken, each once and in that order, then the ones that wait, and behind
\* them exactly the ones that a CancelPending dropped.
AcceptedRunsOnce ==
    LET kept == taken \o pool.tasks
    IN  /\ TypeOK
        /\ \A i, j \in DOMAIN accepted : accepted[i] = accepted[j] => i = j
        /\ Len(kept) <= Len(accepted) /\ kept = SubSeq(accepted, 1, Len(kept))
        /\ dropped = {accepted[i] : i \in Len(kept) + 1..Len(accepted)}
        /\ dropped # {} => pool.stop_mode = "CancelPending"

\* A pool that reports Stopped has no thread running a task, none that will
\* take one, and nothing left in its queue, so its owner may join and go.
StoppedIsQuiet ==
    pool.state = "Stopped" =>
        /\ pool.tasks = <<>>
        /\ \A w \in Workers : worker[w] = "exited"

\* Nothing is left to be done for a Stop, or for a task that was accepted.
\* Both are reached for good: no behaviour posts or stops for ever.
StopIsOver == pool.state # "Stopping"
NoneWaits == Elements(accepted) \subseteq Elements(taken) \cup dropped

------------------------------------------------------------------------------
\* How far a task has come, as the contract of an executor tells it.
Status(t) ==
    IF t \in Elements(taken)
    THEN IF \E w \in Workers : worker[w] = t THEN "running" ELSE "done"
    ELSE IF t \in dropped THEN "dropped"
    ELSE IF t \in Elements(accepted) THEN "accepted" ELSE "new"

Contract == INSTANCE ExecutorContract WITH
    phase <- pool.state, mode <- pool.stop_mode,
    status <- [t \in Tasks |-> Status(t)]
==============================================================================
