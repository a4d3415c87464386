--------------------------- MODULE ExecutorContract ---------------------------
(***************************************************************************)
(* What every executor promises to those who post to it (IExecutor and its *)
(* StopMode): a task is admitted only while the executor is Running; an    *)
(* accepted one begins at most once and is given up only under             *)
(* CancelPending; Stopped is final and means that nothing is under way.    *)
(***************************************************************************)
CONSTANT Tasks

VARIABLES
    phase,     \* ExecutionState
    mode,      \* StopMode
    status     \* per task: how far it has come

vars == <<phase, mode, status>>

Quiet(st) == \A t \in Tasks : st[t] \notin {"admitted", "accepted", "running"}

Init ==
    phase = "Running" /\ mode = "Drain" /\ status = [t \in Tasks |-> "new"]

\* Post takes a place for the task, and accepts it in the same step or later.
Admit(t) ==
    /\ phase = "Running" /\ status[t] = "new"
    /\ \E s \in {"admitted", "accepted"} : status' = [status EXCEPT ![t] = s]
    /\ UNCHANGED <<phase, mode>>

Accept(t) ==
    /\ status[t] = "admitted" /\ status' = [status EXCEPT ![t] = "accepted"]
    /\ UNCHANGED <<phase, mode>>

Begin(t) ==
    /\ status[t] = "accepted" /\ status' = [status EXCEPT ![t] = "running"]
    /\ UNCHANGED <<phase, mode>>

\* The last task to return may complete the stop.
Return(t) ==
    /\ status[t] = "running" /\ status' = [status EXCEPT ![t] = "done"]
    /\ \/ UNCHANGED phase
       \/ phase = "Stopping" /\ phase' = "Stopped" /\ Quiet(status')
    /\ UNCHANGED mode

Drop(t) ==
    /\ status[t] = "accepted" /\ phase # "Running" /\ mode = "CancelPending"
    /\ status' = [status EXCEPT ![t] = "dropped"]
    /\ UNCHANGED <<phase, mode>>

StopMoves ==
    \/ phase # "Stopped" /\ phase' = "Stopping"
    \/ phase' = "Stopped" /\ Quiet(status')

\* Post takes the place back and leaves the task to its caller; what is below
\* may have stopped, which stops the executor.
Refuse(t) ==
    /\ status[t] = "admitted" /\ status' = [status EXCEPT ![t] = "new"]
    /\ UNCHANGED phase \/ StopMoves
    /\ UNCHANGED mode

\* Stop, and the step that completes it; CancelPending may upgrade Drain.
Stop ==
    /\ phase # "Stopped" /\ StopMoves
    /\ mode' = mode \/ mode' = "CancelPending" \/ phase = "Running"
    /\ mode' \in {"Drain", "CancelPending"}
    /\ \E given_up \in SUBSET {t \in Tasks : status[t] = "accepted"} :
        /\ given_up # {} => mode' = "CancelPending"
        /\ status' = [t \in Tasks |->
                          IF t \in given_up THEN "dropped" ELSE status[t]]

Next ==
    \/ Stop
    \/ \E t \in Tasks : Admit(t) \/ Accept(t) \/ Begin(t) \/ Return(t)
                           \/ Drop(t) \/ Refuse(t)

Spec == Init /\ [][Next]_vars
==============================================================================
