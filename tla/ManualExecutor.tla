---------------------------- MODULE ManualExecutor ----------------------------
(***************************************************************************)
(* execution/manual_executor: tasks wait until some thread calls RunOne.   *)
(* Any number of threads may call it, so a task can be running on one      *)
(* while another stops the executor.                                       *)
(***************************************************************************)
EXTENDS Naturals, Sequences, FiniteSets

CONSTANTS
    Runners,              \* threads that call RunOne and RunReady
    Tasks,                \* the tasks offered, each once
    MaximumPendingTasks,  \* maximum_pending_tasks_
    StopModes             \* modes Stop is called with

VARIABLES
    manual,    \* [state, stop_mode, tasks, running]
    runner,    \* per thread: "idle" or the task it executes
    outcome    \* history: how far each task has come

manualVars == <<manual, runner, outcome>>

ManualInit ==
    /\ manual = [state |-> "Running", stop_mode |-> "Drain", tasks |-> <<>>,
                 running |-> 0]
    /\ runner = [r \in Runners |-> "idle"]
    /\ outcome = [t \in Tasks |-> "new"]

MoveToStoppedIfDrainedLocked(e) ==
    IF e.state = "Stopping" /\ e.tasks = <<>> /\ e.running = 0
    THEN [e EXCEPT !.state = "Stopped"] ELSE e

\* Post: refused by a stopped or a full executor.
ManualPost(t) ==
    /\ outcome[t] = "new"
    /\ manual.state = "Running" /\ Len(manual.tasks) < MaximumPendingTasks
    /\ manual' = [manual EXCEPT !.tasks = Append(@, t)]
    /\ outcome' = [outcome EXCEPT ![t] = "accepted"]
    /\ UNCHANGED runner

\* RunOne up to the task: the oldest one, whatever the state.  With none it
\* returns; a drained executor has moved to Stopped before that.
RunOne(r) ==
    /\ runner[r] = "idle" /\ manual.tasks # <<>>
    /\ runner' = [runner EXCEPT ![r] = Head(manual.tasks)]
    /\ outcome' = [outcome EXCEPT ![Head(manual.tasks)] = "running"]
    /\ manual' = [manual EXCEPT !.tasks = Tail(@), !.running = @ + 1]

\* Execute returned; an exception has been swallowed.
RunOneReturns(r) ==
    /\ runner[r] # "idle"
    /\ runner' = [runner EXCEPT ![r] = "idle"]
    /\ outcome' = [outcome EXCEPT ![runner[r]] = "done"]
    /\ manual' = MoveToStoppedIfDrainedLocked([manual EXCEPT !.running = @ - 1])

ManualStop(mode) ==
    LET chosen == IF manual.state = "Running" \/ mode = "CancelPending"
                  THEN mode ELSE manual.stop_mode
        given_up == IF chosen = "CancelPending"
                    THEN {manual.tasks[i] : i \in DOMAIN manual.tasks} ELSE {}
    IN  /\ manual.state # "Stopped"
        /\ manual' = MoveToStoppedIfDrainedLocked(
               [manual EXCEPT !.state = "Stopping", !.stop_mode = chosen,
                              !.tasks = IF given_up = {} THEN @ ELSE <<>>])
        /\ outcome' = [t \in Tasks |->
               IF t \in given_up THEN "dropped" ELSE outcome[t]]
        /\ UNCHANGED runner

ManualNext ==
    \/ \E t \in Tasks : ManualPost(t)
    \/ \E mode \in StopModes : ManualStop(mode)
    \/ \E r \in Runners : RunOne(r) \/ RunOneReturns(r)
==============================================================================
