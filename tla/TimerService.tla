----------------------------- MODULE TimerService -----------------------------
(***************************************************************************)
(* core/timer_service: a heap of deadlines, one worker thread that sleeps  *)
(* on a condition variable until the earliest of them, and callers that    *)
(* schedule and cancel.  A notification reaches the worker only while it   *)
(* waits.  Time is a bounded clock; a deadline is computed before the lock *)
(* is taken and may have passed when its entry is pushed.                  *)
(***************************************************************************)
EXTENDS Naturals, Sequences, FiniteSets

CONSTANTS
    Callers,     \* threads that schedule and cancel timers
    Durations,   \* the durations they ask for
    MaxTimers,   \* bound: timers scheduled
    MaxTime      \* bound: the last instant of the clock

\* What the bounds and the durations are.
TimerOptionsAreValid ==
    Durations \subseteq Nat /\ MaxTimers \in Nat /\ MaxTime \in Nat

VARIABLES
    clock,       \* steady_clock::now()
    timers,      \* [heap, live, next_id, stopped]: live has a callback
    deadline,    \* per timer id: its deadline
    caller,      \* per caller: [at, id] with id its latest timer, 0 for none
    sleeper,     \* the worker: [at, id, until, notified]
    stopper,     \* where the first call of Stop is
    fired,       \* history: timers whose callback began, in order
    cancelled    \* history: timers for which Cancel returned true

timerVars == <<clock, timers, deadline, caller, sleeper, stopper, fired, cancelled>>

TimerIds == 1..MaxTimers

\* A wait without a deadline.
Forever == MaxTime + 1

TimerInit ==
    /\ clock = 0
    /\ timers = [heap |-> {}, live |-> {}, next_id |-> 1, stopped |-> FALSE]
    /\ deadline = [id \in TimerIds |-> 0]
    /\ caller = [c \in Callers |-> [at |-> "idle", id |-> 0]]
    /\ sleeper = [at |-> "lock", id |-> 0, until |-> 0, notified |-> FALSE]
    /\ stopper = "idle" /\ fired = <<>> /\ cancelled = {}

Tick ==
    /\ clock < MaxTime /\ clock' = clock + 1
    /\ UNCHANGED <<timers, deadline, caller, sleeper, stopper, fired, cancelled>>

------------------------------------------------------------------------------
(* Callers *)

\* Cancel: the entry stays in the heap without its callback.
Cancelled(t, id) == [t EXCEPT !.live = @ \ {id}]

CancelTimer(c) ==
    /\ caller[c].at = "idle" /\ caller[c].id # 0
    /\ timers' = Cancelled(timers, caller[c].id)
    /\ cancelled' = cancelled \cup ({caller[c].id} \cap timers.heap)
    /\ UNCHANGED <<clock, deadline, caller, sleeper, stopper, fired>>

\* Schedule up to the lock; Reschedule has cancelled the old timer before.
Schedule(c, duration) ==
    LET id == timers.next_id
    IN  /\ caller[c].at = "idle"
        /\ id <= MaxTimers /\ clock + duration <= MaxTime
        /\ deadline' = [deadline EXCEPT ![id] = clock + duration]
        /\ timers' = [timers EXCEPT !.next_id = @ + 1]
        /\ caller' = [caller EXCEPT ![c] = [at |-> "push", id |-> id]]
        /\ UNCHANGED <<clock, sleeper, stopper, fired, cancelled>>

\* The entry joins the heap, of a stopped service too.  The sleeping worker
\* holds a reference to the deadline of the front entry: when the vector
\* grows, what it reads through it after a timeout is undefined.
Push(c) ==
    LET id == caller[c].id
    IN  /\ caller[c].at = "push"
        /\ timers' = [timers EXCEPT !.heap = @ \cup {id}, !.live = @ \cup {id}]
        /\ caller' = [caller EXCEPT ![c].at = "notify"]
        /\ \/ sleeper.at = "wait" /\ sleeper' = [sleeper EXCEPT !.until = Forever]
           \/ UNCHANGED sleeper
        /\ UNCHANGED <<clock, deadline, stopper, fired, cancelled>>

\* cv_.notify_one
Notified(s) == IF s.at = "wait" THEN [s EXCEPT !.notified = TRUE] ELSE s

NotifyPushed(c) ==
    /\ caller[c].at = "notify"
    /\ caller' = [caller EXCEPT ![c].at = "idle"]
    /\ sleeper' = Notified(sleeper)
    /\ UNCHANGED <<clock, timers, deadline, stopper, fired, cancelled>>

\* Stop, first call: the flag under the lock, the notification after it, the
\* join of the worker and the clearing of the heap.  Later calls return.
StopTimers ==
    /\ \/ stopper = "idle" /\ stopper' = "notify"
          /\ timers' = [timers EXCEPT !.stopped = TRUE] /\ UNCHANGED sleeper
       \/ stopper = "notify" /\ stopper' = "join"
          /\ sleeper' = Notified(sleeper) /\ UNCHANGED timers
       \/ stopper = "join" /\ sleeper.at = "exited" /\ stopper' = "done"
          /\ timers' = [timers EXCEPT !.heap = {}, !.live = {}]
          /\ UNCHANGED sleeper
    /\ UNCHANGED <<clock, deadline, caller, fired, cancelled>>

------------------------------------------------------------------------------
(* The worker *)

Front(id) ==
    id \in timers.heap /\ \A other \in timers.heap : deadline[id] <= deadline[other]

\* MUTANT: the callback of a cancelled entry runs.
PopIgnoringCancel(id) ==
    /\ timers' = [timers EXCEPT !.heap = @ \ {id}, !.live = @ \ {id}]
    /\ sleeper' = [sleeper EXCEPT !.at = "callback", !.id = id]
    /\ fired' = Append(fired, id)

\* The front entry is popped; a cancelled one ends there.
Pop(id) ==
    /\ timers' = [timers EXCEPT !.heap = @ \ {id}, !.live = @ \ {id}]
    /\ IF id \in timers.live
       THEN /\ sleeper' = [sleeper EXCEPT !.at = "callback", !.id = id]
            /\ fired' = Append(fired, id)
       ELSE UNCHANGED <<sleeper, fired>>

\* One turn of Run's loop under the lock.
Turn ==
    /\ sleeper.at = "lock"
    /\ \/ /\ timers.stopped
          /\ sleeper' = [sleeper EXCEPT !.at = "exited"]
          /\ UNCHANGED <<timers, fired>>
       \/ /\ ~timers.stopped /\ timers.heap = {}
          /\ sleeper' = [sleeper EXCEPT !.at = "wait", !.until = Forever]
          /\ UNCHANGED <<timers, fired>>
       \/ /\ ~timers.stopped
          /\ \E id \in timers.heap :
              /\ Front(id)
              /\ IF deadline[id] > clock
                 THEN /\ sleeper' = [sleeper EXCEPT !.at = "wait",
                                                    !.until = deadline[id]]
                      /\ UNCHANGED <<timers, fired>>
                 ELSE Pop(id)
    /\ UNCHANGED <<clock, deadline, caller, stopper, cancelled>>

\* The wait ends: notified, timed out, or spuriously.
Wake ==
    /\ sleeper.at = "wait"
    /\ sleeper' = [sleeper EXCEPT !.at = "lock", !.until = 0, !.notified = FALSE]
    /\ UNCHANGED <<clock, timers, deadline, caller, stopper, fired, cancelled>>

\* The callback returned or threw.
CallbackReturns ==
    /\ sleeper.at = "callback"
    /\ sleeper' = [sleeper EXCEPT !.at = "lock", !.id = 0]
    /\ UNCHANGED <<clock, timers, deadline, caller, stopper, fired, cancelled>>

TimerNext ==
    \/ Tick \/ StopTimers \/ Turn \/ Wake \/ CallbackReturns
    \/ \E c \in Callers :
        \/ CancelTimer(c) \/ Push(c) \/ NotifyPushed(c)
        \/ \E duration \in Durations : Schedule(c, duration)

\* The worker's wait was notified or has timed out.
WakeIsDue == (sleeper.notified \/ sleeper.until <= clock) /\ Wake

StopGoesOn == stopper # "idle" /\ StopTimers

\* Time passes, threads inside a call go on, callbacks return, and a wait that
\* is over ends.
TimerSpec ==
    /\ TimerInit /\ [][TimerNext]_timerVars
    /\ WF_timerVars(Tick) /\ WF_timerVars(WakeIsDue)
    /\ WF_timerVars(Turn \/ CallbackReturns) /\ WF_timerVars(StopGoesOn)
    /\ \A c \in Callers : WF_timerVars(Push(c) \/ NotifyPushed(c))

------------------------------------------------------------------------------
(* Properties *)

TimersTypeOK ==
    /\ clock \in 0..MaxTime /\ stopper \in {"idle", "notify", "join", "done"}
    /\ timers \in [heap : SUBSET TimerIds, live : SUBSET TimerIds,
                   next_id : 1..(MaxTimers + 1), stopped : BOOLEAN]
    /\ deadline \in [TimerIds -> 0..MaxTime]
    /\ caller \in [Callers -> [at : {"idle", "push", "notify"},
                               id : 0..MaxTimers]]
    /\ sleeper \in [at : {"lock", "wait", "callback", "exited"},
                    id : 0..MaxTimers, until : 0..Forever, notified : BOOLEAN]

\* A callback runs once, not before its deadline, and never after a Cancel
\* that returned true, however Cancel races with the worker's pop.
FiresOnceOnTime ==
    /\ TimersTypeOK
    /\ \A i, j \in DOMAIN fired : fired[i] = fired[j] => i = j
    /\ \A i \in DOMAIN fired :
           deadline[fired[i]] <= clock /\ fired[i] \notin cancelled

\* Once Stop has returned no callback runs, and none will.
NoCallbackAfterStop == stopper = "done" => sleeper.at = "exited"

\* Stop has returned: its notification was not missed by a worker going to
\* sleep.
TimerStopIsOver == timers.stopped => stopper = "done"

\* A timer in the heap has fired, unless it was cancelled or the service
\* stopped: an entry that becomes the earliest wakes a worker asleep for a
\* later one.
NoneIsDue == timers.heap = {} \/ timers.stopped
==============================================================================
