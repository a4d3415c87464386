------------------------- MODULE TimerService_proofs --------------------------
(***************************************************************************)
(* Proofs about TimerService, for any callers, durations and bounds.  A    *)
(* timer passes from the caller that pushes it to the heap and from there  *)
(* to the worker, and Cancel may come at any point; the invariant says     *)
(* that a timer is in one of these places only, and in none before its id  *)
(* was given out.                                                          *)
(***************************************************************************)
EXTENDS TimerService, Integers, TLAPS

\* Some caller is about to push the timer.
Pushing(id) == \E c \in Callers : caller[c].at = "push" /\ caller[c].id = id

\* The ids in use have been given out, and a caller pushes its own.
IdsOK ==
    /\ \A id \in timers.heap : id < timers.next_id /\ ~Pushing(id)
    /\ timers.live \subseteq timers.heap
    /\ \A c \in Callers :
        /\ caller[c].id < timers.next_id
        /\ caller[c].at = "push" => caller[c].id # 0
    /\ \A b, c \in Callers :
           /\ caller[b].at = "push" /\ caller[c].at = "push"
           /\ caller[b].id = caller[c].id
           => b = c

\* A timer whose callback began is out of the heap for good.
FiredOK ==
    /\ fired \in Seq(TimerIds)
    /\ \A i, j \in DOMAIN fired : fired[i] = fired[j] => i = j
    /\ \A i \in DOMAIN fired :
        /\ deadline[fired[i]] <= clock /\ fired[i] \notin cancelled
        /\ fired[i] < timers.next_id
        /\ fired[i] \notin timers.heap /\ ~Pushing(fired[i])

\* A timer that was cancelled has no callback any more.
CancelledOK ==
    \A id \in cancelled :
        id \in TimerIds /\ id < timers.next_id /\ id \notin timers.live /\ ~Pushing(id)

TInv ==
    /\ TimersTypeOK /\ IdsOK /\ FiredOK /\ CancelledOK
    /\ stopper = "done" => sleeper.at = "exited"

TimersType ==
    [heap : SUBSET TimerIds, live : SUBSET TimerIds,
     next_id : 1..(MaxTimers + 1), stopped : BOOLEAN]
SleeperType ==
    [at : {"lock", "wait", "callback", "exited"}, id : 0..MaxTimers,
     until : 0..Forever, notified : BOOLEAN]
CallerType == [at : {"idle", "push", "notify"}, id : 0..MaxTimers]

\* The invariant holds initially.
LEMMA InitTInv == ASSUME TimerOptionsAreValid PROVE TimerInit => TInv
<1> SUFFICES ASSUME TimerInit PROVE TInv
  OBVIOUS
<1>1. /\ timers.heap = {} /\ timers.live = {} /\ timers.next_id = 1
      /\ \A c \in Callers : caller[c].at = "idle" /\ caller[c].id = 0
      /\ fired = <<>> /\ cancelled = {} /\ stopper = "idle"
  BY DEF TimerInit
<1>2. TimersTypeOK
  BY DEF TimerInit, TimersTypeOK, TimerOptionsAreValid, Forever
<1>3. IdsOK
  BY <1>1 DEF IdsOK
<1>4. FiredOK
  BY <1>1 DEF FiredOK
<1>5. CancelledOK
  BY <1>1 DEF CancelledOK
<1> QED BY <1>1, <1>2, <1>3, <1>4, <1>5 DEF TInv

\* A step that touches neither the heap, the callers, the deadlines nor the
\* histories keeps what is said of them; the clock may go on.
LEMMA HeapStays ==
    ASSUME TInv, TimersTypeOK', clock' >= clock,
           timers'.heap = timers.heap, timers'.live = timers.live,
           timers'.next_id = timers.next_id,
           UNCHANGED <<deadline, caller, fired, cancelled>>
    PROVE  IdsOK' /\ FiredOK' /\ CancelledOK'
<1>0. \A id : Pushing(id)' <=> Pushing(id)
  BY DEF Pushing
<1>1. IdsOK'
  BY <1>0 DEF TInv, IdsOK
<1>2. FiredOK'
  <2>1. \A i \in DOMAIN fired : deadline[fired[i]] <= clock'
    <3> SUFFICES ASSUME NEW i \in DOMAIN fired PROVE deadline[fired[i]] <= clock'
      OBVIOUS
    <3>1. fired[i] \in TimerIds /\ deadline[fired[i]] <= clock
      BY DEF TInv, FiredOK
    <3>2. deadline[fired[i]] \in Int /\ clock \in Int /\ clock' \in Int
      BY <3>1 DEF TInv, TimersTypeOK
    <3> QED BY <3>1, <3>2
  <2> QED BY <1>0, <2>1 DEF TInv, FiredOK
<1>3. CancelledOK'
  BY <1>0 DEF TInv, CancelledOK
<1> QED BY <1>1, <1>2, <1>3

\* Time passes.
LEMMA TickKeeps == ASSUME TimerOptionsAreValid, TInv, Tick PROVE TInv'
<1>1. clock \in 0..MaxTime /\ MaxTime \in Nat /\ clock' = clock + 1 /\ clock < MaxTime
  BY DEF TInv, TimersTypeOK, TimerOptionsAreValid, Tick
<1>2. clock' \in 0..MaxTime /\ clock' >= clock
  BY <1>1
<1>3. TimersTypeOK'
  BY <1>2 DEF TInv, TimersTypeOK, Tick
<1>4. IdsOK' /\ FiredOK' /\ CancelledOK'
  BY <1>2, <1>3, HeapStays DEF Tick
<1> QED BY <1>3, <1>4 DEF TInv, Tick

\* Steps of the sleeping worker, and a notification.
LEMMA SleeperKeeps ==
    ASSUME TimerOptionsAreValid, TInv, sleeper' \in SleeperType,
           sleeper.at = "exited" => sleeper'.at = "exited",
           UNCHANGED <<clock, timers, deadline, stopper, fired, cancelled>>,
           caller' \in [Callers -> CallerType],
           \A c \in Callers : /\ caller'[c].id = caller[c].id
                              /\ caller'[c].at = "push" <=> caller[c].at = "push"
    PROVE  TInv'
<1>0. \A id : Pushing(id)' <=> Pushing(id)
  BY DEF Pushing
<1>1. TimersTypeOK'
  BY DEF TInv, TimersTypeOK, SleeperType, CallerType
<1>2. IdsOK'
  BY <1>0 DEF TInv, IdsOK
<1>3. FiredOK'
  BY <1>0 DEF TInv, FiredOK
<1>4. CancelledOK'
  BY <1>0 DEF TInv, CancelledOK
<1> QED BY <1>1, <1>2, <1>3, <1>4 DEF TInv

LEMMA WakeKeeps == ASSUME TimerOptionsAreValid, TInv, Wake PROVE TInv'
<1>1. sleeper \in SleeperType /\ 0 \in 0..Forever
  BY DEF TInv, TimersTypeOK, SleeperType, TimerOptionsAreValid, Forever
<1>2. sleeper' \in SleeperType
  BY <1>1 DEF Wake, SleeperType
<1> QED BY <1>1, <1>2, SleeperKeeps DEF TInv, TimersTypeOK, CallerType, Wake

LEMMA CallbackReturnsKeeps ==
    ASSUME TimerOptionsAreValid, TInv, CallbackReturns PROVE TInv'
<1>1. sleeper \in SleeperType /\ 0 \in 0..MaxTimers
  BY DEF TInv, TimersTypeOK, SleeperType, TimerOptionsAreValid
<1>2. sleeper' \in SleeperType
  BY <1>1 DEF CallbackReturns, SleeperType
<1> QED BY <1>1, <1>2, SleeperKeeps DEF TInv, TimersTypeOK, CallerType, CallbackReturns

LEMMA NotifiedType ==
    ASSUME TInv PROVE Notified(sleeper) \in SleeperType /\ Notified(sleeper).at = sleeper.at
<1>1. sleeper \in SleeperType
  BY DEF TInv, TimersTypeOK, SleeperType
<1> QED BY <1>1 DEF Notified, SleeperType

LEMMA NotifyPushedKeeps ==
    ASSUME TimerOptionsAreValid, TInv, NEW c \in Callers, NotifyPushed(c) PROVE TInv'
<1>1. caller \in [Callers -> CallerType] /\ caller[c].at = "notify"
      /\ caller' = [caller EXCEPT ![c].at = "idle"]
  BY DEF TInv, TimersTypeOK, CallerType, NotifyPushed
<1>2. /\ caller' \in [Callers -> CallerType]
      /\ \A d \in Callers : /\ caller'[d].id = caller[d].id
                             /\ caller'[d].at = "push" <=> caller[d].at = "push"
  BY <1>1 DEF CallerType
<1> QED BY <1>2, NotifiedType, SleeperKeeps DEF NotifyPushed

\* Cancel of a timer that is still in the heap: its callback is gone.
LEMMA CancelTimerKeeps ==
    ASSUME TimerOptionsAreValid, TInv, NEW c \in Callers, CancelTimer(c) PROVE TInv'
<1> DEFINE id == caller[c].id
<1>1. /\ timers \in TimersType
      /\ timers' = [timers EXCEPT !.live = @ \ {id}]
      /\ cancelled' = cancelled \cup ({id} \cap timers.heap)
      /\ UNCHANGED <<clock, deadline, caller, sleeper, stopper, fired>>
  BY DEF TInv, TimersTypeOK, TimersType, CancelTimer, Cancelled
<1>2. /\ timers' \in TimersType /\ timers'.heap = timers.heap
      /\ timers'.live = timers.live \ {id} /\ timers'.next_id = timers.next_id
  BY <1>1 DEF TimersType
<1> HIDE DEF id
<1>0. \A i : Pushing(i)' <=> Pushing(i)
  BY <1>1 DEF Pushing
<1>3. TimersTypeOK'
  BY <1>1, <1>2 DEF TInv, TimersTypeOK, TimersType
<1>4. IdsOK'
  BY <1>0, <1>1, <1>2 DEF TInv, IdsOK
<1>5. FiredOK'
  BY <1>0, <1>1, <1>2 DEF TInv, FiredOK
<1>6. CancelledOK'
  BY <1>0, <1>1, <1>2 DEF TInv, CancelledOK, IdsOK, TimersType
<1> QED BY <1>1, <1>3, <1>4, <1>5, <1>6 DEF TInv

\* Schedule gives out the next id and computes its deadline.
LEMMA ScheduleKeeps ==
    ASSUME TimerOptionsAreValid, TInv, NEW c \in Callers,
           NEW duration \in Durations, Schedule(c, duration)
    PROVE  TInv'
<1> DEFINE n == timers.next_id
<1>1. /\ timers \in TimersType /\ caller \in [Callers -> CallerType]
      /\ n \in 1..(MaxTimers + 1) /\ MaxTimers \in Nat /\ MaxTime \in Nat
      /\ clock \in 0..MaxTime /\ duration \in Nat
      /\ deadline \in [TimerIds -> 0..MaxTime]
      /\ caller[c].at = "idle" /\ n <= MaxTimers /\ clock + duration <= MaxTime
      /\ deadline' = [deadline EXCEPT ![n] = clock + duration]
      /\ timers' = [timers EXCEPT !.next_id = n + 1]
      /\ caller' = [caller EXCEPT ![c] = [at |-> "push", id |-> n]]
      /\ UNCHANGED <<clock, sleeper, stopper, fired, cancelled>>
  BY DEF TInv, TimersTypeOK, TimersType, CallerType, TimerOptionsAreValid, Schedule
<1>2. /\ n \in TimerIds /\ n \in 0..MaxTimers /\ n + 1 \in 1..(MaxTimers + 1)
      /\ clock + duration \in 0..MaxTime /\ n < n + 1 /\ n # 0
      /\ \A m \in 0..MaxTimers : m < n => m < n + 1 /\ m # n
  BY <1>1 DEF TimerIds
<1> HIDE DEF n
<1>3. /\ timers' \in TimersType /\ timers'.heap = timers.heap
      /\ timers'.live = timers.live /\ timers'.next_id = n + 1
  BY <1>1, <1>2 DEF TimersType
<1>4. /\ caller' \in [Callers -> CallerType]
      /\ caller'[c].at = "push" /\ caller'[c].id = n
      /\ \A b \in Callers \ {c} : caller'[b] = caller[b]
  BY <1>1, <1>2 DEF CallerType
<1>5. /\ deadline' \in [TimerIds -> 0..MaxTime]
      /\ \A i \in TimerIds : i # n => deadline'[i] = deadline[i]
  BY <1>1, <1>2
<1>6. \A i : Pushing(i)' => Pushing(i) \/ i = n
  BY <1>4 DEF Pushing
<1>7. TimersTypeOK'
  BY <1>1, <1>3, <1>4, <1>5 DEF TInv, TimersTypeOK, TimersType, CallerType
<1>8. /\ \A b \in Callers : caller[b].id \in 0..MaxTimers /\ caller[b].id < n
      /\ \A i \in timers.heap : i \in 0..MaxTimers /\ i < n
      /\ \A i \in cancelled : i \in 0..MaxTimers /\ i < n
      /\ \A i \in DOMAIN fired : fired[i] \in TimerIds /\ fired[i] < n
      /\ \A i \in TimerIds : i \in 0..MaxTimers
  <2>1. \A b \in Callers : caller[b].id \in 0..MaxTimers /\ caller[b].id < n
    BY <1>1 DEF TInv, IdsOK, CallerType, n
  <2>2. \A i \in TimerIds : i \in 0..MaxTimers
    BY <1>1 DEF TimerIds
  <2>3. \A i \in timers.heap : i \in TimerIds /\ i < n
    BY <1>1 DEF TInv, IdsOK, TimersType, n
  <2>4. \A i \in cancelled : i \in TimerIds /\ i < n
    BY DEF TInv, CancelledOK, n
  <2>5. \A i \in DOMAIN fired : fired[i] \in TimerIds /\ fired[i] < n
    BY DEF TInv, FiredOK, n
  <2> QED BY <2>1, <2>2, <2>3, <2>4, <2>5
<1>9. IdsOK'
  <2>1. \A i \in timers'.heap : i < timers'.next_id /\ ~Pushing(i)'
    BY <1>2, <1>3, <1>6, <1>8 DEF TInv, IdsOK
  <2>2. \A b \in Callers : /\ caller'[b].id < timers'.next_id
                           /\ caller'[b].at = "push" => caller'[b].id # 0
    BY <1>2, <1>3, <1>4, <1>8 DEF TInv, IdsOK
  <2>3. ASSUME NEW b \in Callers, NEW d \in Callers,
               caller'[b].at = "push", caller'[d].at = "push",
               caller'[b].id = caller'[d].id
        PROVE  b = d
    <3>1. CASE b # c /\ d # c
      BY <1>4, <2>3, <3>1 DEF TInv, IdsOK
    <3>2. CASE b = c \/ d = c
      BY <1>2, <1>4, <1>8, <2>3, <3>2
    <3> QED BY <3>1, <3>2
  <2> QED BY <1>3, <2>1, <2>2, <2>3 DEF TInv, IdsOK
<1>10. FiredOK'
  <2>1. \A i \in DOMAIN fired :
          /\ deadline'[fired[i]] = deadline[fired[i]]
          /\ fired[i] < timers'.next_id /\ ~Pushing(fired[i])'
    BY <1>1, <1>2, <1>3, <1>5, <1>6, <1>8 DEF TInv, FiredOK
  <2> QED BY <1>1, <1>3, <2>1 DEF TInv, FiredOK
<1>11. CancelledOK'
  BY <1>1, <1>2, <1>3, <1>6, <1>8 DEF TInv, CancelledOK
<1> QED BY <1>1, <1>7, <1>9, <1>10, <1>11 DEF TInv

\* Push moves the timer from its caller to the heap.
LEMMA PushKeeps ==
    ASSUME TimerOptionsAreValid, TInv, NEW c \in Callers, Push(c) PROVE TInv'
<1>0. PICK n : n = caller[c].id
  OBVIOUS
<1>1. /\ timers \in TimersType /\ caller \in [Callers -> CallerType]
      /\ caller[c].at = "push" /\ sleeper \in SleeperType
      /\ timers' = [timers EXCEPT !.heap = @ \cup {n}, !.live = @ \cup {n}]
      /\ caller' = [caller EXCEPT ![c].at = "notify"]
      /\ UNCHANGED <<clock, deadline, stopper, fired, cancelled>>
  BY <1>0 DEF TInv, TimersTypeOK, TimersType, CallerType, SleeperType, Push
<1>2. n \in TimerIds /\ n < timers.next_id /\ Pushing(n)
  <2>1. n \in 0..MaxTimers /\ n # 0 /\ n < timers.next_id /\ MaxTimers \in Nat
    BY <1>0, <1>1 DEF TInv, IdsOK, CallerType, TimerOptionsAreValid
  <2> QED BY <1>0, <1>1, <2>1 DEF TimerIds, Pushing
<1>3. /\ sleeper' \in SleeperType
      /\ sleeper.at = "exited" => sleeper'.at = "exited"
  <2>1. Forever \in 0..Forever
    BY DEF Forever, TimerOptionsAreValid
  <2> QED BY <1>1, <2>1 DEF Push, SleeperType
<1>4. /\ caller' \in [Callers -> CallerType] /\ caller'[c].at = "notify"
      /\ \A b \in Callers : caller'[b].id = caller[b].id
      /\ \A b \in Callers \ {c} : caller'[b] = caller[b]
  BY <1>1 DEF CallerType
<1>5. /\ timers' \in TimersType /\ timers'.heap = timers.heap \cup {n}
      /\ timers'.live = timers.live \cup {n} /\ timers'.next_id = timers.next_id
  BY <1>1, <1>2 DEF TimersType
<1>6. /\ \A i : Pushing(i)' => Pushing(i)
      /\ ~Pushing(n)'
  <2>1. \A i : Pushing(i)' => Pushing(i)
    BY <1>4 DEF Pushing
  <2>2. ASSUME Pushing(n)' PROVE FALSE
    <3>1. PICK b \in Callers : caller'[b].at = "push" /\ caller'[b].id = n
      BY <2>2 DEF Pushing
    <3>2. b # c
      BY <1>4, <3>1
    <3>3. caller[b].at = "push" /\ caller[b].id = caller[c].id
      BY <1>4, <3>1, <3>2, <1>0
    <3> QED BY <1>1, <3>2, <3>3 DEF TInv, IdsOK
  <2> QED BY <2>1, <2>2
<1>7. TimersTypeOK'
  BY <1>1, <1>3, <1>4, <1>5 DEF TInv, TimersTypeOK, TimersType, CallerType, SleeperType
<1>8. IdsOK'
  <2>1. \A b \in Callers : caller'[b].at = "push" => caller[b].at = "push"
    BY <1>4
  <2>2. /\ \A i \in timers'.heap : i < timers'.next_id /\ ~Pushing(i)'
        /\ timers'.live \subseteq timers'.heap
    BY <1>2, <1>5, <1>6 DEF TInv, IdsOK
  <2>3. /\ \A b \in Callers : /\ caller'[b].id < timers'.next_id
                              /\ caller'[b].at = "push" => caller'[b].id # 0
        /\ \A b, d \in Callers :
               /\ caller'[b].at = "push" /\ caller'[d].at = "push"
               /\ caller'[b].id = caller'[d].id
               => b = d
    BY <1>4, <1>5, <2>1 DEF TInv, IdsOK
  <2> QED BY <2>2, <2>3 DEF IdsOK
<1>9. FiredOK'
  <2>1. \A i \in DOMAIN fired : fired[i] # n
    BY <1>2 DEF TInv, FiredOK
  <2> QED BY <1>1, <1>5, <1>6, <2>1 DEF TInv, FiredOK
<1>10. CancelledOK'
  <2>1. n \notin cancelled
    BY <1>2 DEF TInv, CancelledOK
  <2> QED BY <1>1, <1>5, <1>6, <2>1 DEF TInv, CancelledOK
<1> QED BY <1>1, <1>3, <1>7, <1>8, <1>9, <1>10 DEF TInv

\* The sections of Stop.
LEMMA StopTimersKeeps ==
    ASSUME TimerOptionsAreValid, TInv, StopTimers PROVE TInv'
<1>1. /\ timers \in TimersType /\ sleeper \in SleeperType
      /\ UNCHANGED <<clock, deadline, caller, fired, cancelled>>
  BY DEF TInv, TimersTypeOK, TimersType, SleeperType, StopTimers
<1>0. \A i : Pushing(i)' <=> Pushing(i)
  BY <1>1 DEF Pushing
<1>2. /\ timers' \in TimersType /\ timers'.next_id = timers.next_id
      /\ timers'.live \subseteq timers'.heap
      /\ timers'.heap \subseteq timers.heap /\ timers'.live \subseteq timers.live
  <2>1. timers.live \subseteq timers.heap
    BY DEF TInv, IdsOK
  <2> QED BY <1>1, <2>1 DEF StopTimers, TimersType
<1>3. /\ sleeper' \in SleeperType /\ sleeper'.at = sleeper.at
      /\ stopper' \in {"notify", "join", "done"}
      /\ stopper' = "done" => sleeper.at = "exited"
  BY <1>1, NotifiedType DEF StopTimers
<1>4. TimersTypeOK'
  BY <1>1, <1>2, <1>3 DEF TInv, TimersTypeOK, TimersType, SleeperType
<1>5. IdsOK'
  BY <1>0, <1>1, <1>2 DEF TInv, IdsOK
<1>6. FiredOK'
  BY <1>0, <1>1, <1>2 DEF TInv, FiredOK
<1>7. CancelledOK'
  BY <1>0, <1>1, <1>2 DEF TInv, CancelledOK
<1> QED BY <1>3, <1>4, <1>5, <1>6, <1>7 DEF TInv

\* The front entry is popped: with a callback it fires, without one it is gone.
LEMMA PopKeeps ==
    ASSUME TimerOptionsAreValid, TInv, NEW id \in timers.heap,
           deadline[id] <= clock, Pop(id), sleeper.at = "lock",
           UNCHANGED <<clock, deadline, caller, stopper, cancelled>>
    PROVE  TInv'
<1>1. /\ timers \in TimersType /\ sleeper \in SleeperType /\ id \in TimerIds
      /\ timers' = [timers EXCEPT !.heap = @ \ {id}, !.live = @ \ {id}]
      /\ fired \in Seq(TimerIds) /\ stopper # "done"
  BY DEF TInv, TimersTypeOK, TimersType, SleeperType, FiredOK, Pop
<1>2. /\ timers' \in TimersType /\ timers'.heap = timers.heap \ {id}
      /\ timers'.live = timers.live \ {id} /\ timers'.next_id = timers.next_id
  BY <1>1 DEF TimersType
<1>0. \A i : Pushing(i)' <=> Pushing(i)
  BY DEF Pushing
<1>3. sleeper' \in SleeperType
  <2>1. id \in 0..MaxTimers
    BY <1>1 DEF TimerIds, TimerOptionsAreValid
  <2> QED BY <1>1, <2>1 DEF Pop, SleeperType
<1>4. TimersTypeOK'
  BY <1>2, <1>3 DEF TInv, TimersTypeOK, TimersType, SleeperType
<1>5. IdsOK'
  BY <1>0, <1>2 DEF TInv, IdsOK
<1>6. CancelledOK'
  BY <1>0, <1>2 DEF TInv, CancelledOK
<1>7. CASE id \notin timers.live
  <2>1. fired' = fired
    BY <1>7 DEF Pop
  <2>2. FiredOK'
    BY <1>0, <1>2, <2>1 DEF TInv, FiredOK
  <2> QED BY <1>1, <1>4, <1>5, <1>6, <2>2 DEF TInv
<1>8. CASE id \in timers.live
  <2>1. fired' = Append(fired, id)
    BY <1>8 DEF Pop
  <2>2. /\ fired' \in Seq(TimerIds) /\ Len(fired) \in Nat
        /\ DOMAIN fired = 1..Len(fired) /\ DOMAIN fired' = 1..(Len(fired) + 1)
        /\ \A i \in 1..Len(fired) : fired'[i] = fired[i]
        /\ fired'[Len(fired) + 1] = id
    BY <1>1, <2>1
  <2>3. \A i \in DOMAIN fired' :
            \/ i \in DOMAIN fired /\ fired'[i] = fired[i]
            \/ i = Len(fired) + 1 /\ fired'[i] = id
    BY <2>2
  <2>4. \A i \in DOMAIN fired : fired[i] # id
    BY DEF TInv, FiredOK
  <2>5. id \notin cancelled /\ ~Pushing(id) /\ id < timers.next_id
    BY <1>8 DEF TInv, CancelledOK, IdsOK
  <2>6. \A i, j \in DOMAIN fired' : fired'[i] = fired'[j] => i = j
    <3> SUFFICES ASSUME NEW i \in DOMAIN fired', NEW j \in DOMAIN fired',
                        fired'[i] = fired'[j]
                 PROVE  i = j
      OBVIOUS
    <3>1. CASE i \in DOMAIN fired /\ fired'[i] = fired[i]
      BY <2>3, <2>4, <3>1 DEF TInv, FiredOK
    <3>2. CASE i = Len(fired) + 1 /\ fired'[i] = id
      BY <2>3, <2>4, <3>2
    <3> QED BY <2>3, <3>1, <3>2
  <2>7. ASSUME NEW i \in DOMAIN fired'
        PROVE  /\ deadline'[fired'[i]] <= clock' /\ fired'[i] \notin cancelled'
               /\ fired'[i] < timers'.next_id
               /\ fired'[i] \notin timers'.heap /\ ~Pushing(fired[i])'
    <3>1. PICK x : x = fired'[i]
      OBVIOUS
    <3>2. /\ deadline[x] <= clock /\ x \notin cancelled /\ x < timers.next_id
          /\ ~Pushing(x) /\ x \notin timers'.heap
      <4>1. CASE i \in DOMAIN fired /\ fired'[i] = fired[i]
        BY <1>2, <3>1, <4>1 DEF TInv, FiredOK
      <4>2. CASE i = Len(fired) + 1 /\ fired'[i] = id
        BY <1>2, <2>5, <3>1, <4>2
      <4> QED BY <2>3, <4>1, <4>2
    <3> QED BY <1>0, <1>2, <3>1, <3>2
  <2>8. FiredOK'
    BY <2>2, <2>6, <2>7 DEF FiredOK
  <2> QED BY <1>1, <1>4, <1>5, <1>6, <2>8 DEF TInv
<1> QED BY <1>7, <1>8

\* One turn of Run's loop.
LEMMA TurnKeeps == ASSUME TimerOptionsAreValid, TInv, Turn PROVE TInv'
<1>1. /\ sleeper.at = "lock" /\ sleeper \in SleeperType
      /\ UNCHANGED <<clock, deadline, caller, stopper, cancelled>>
      /\ caller \in [Callers -> CallerType] /\ deadline \in [TimerIds -> 0..MaxTime]
      /\ timers \in TimersType /\ clock \in 0..MaxTime
      /\ MaxTime \in Nat /\ Forever = MaxTime + 1
  BY DEF TInv, TimersTypeOK, SleeperType, CallerType, TimersType, Turn,
         TimerOptionsAreValid, Forever
<1>2. CASE sleeper' = [sleeper EXCEPT !.at = "exited"] /\ UNCHANGED <<timers, fired>>
  <2>1. sleeper' \in SleeperType
    BY <1>1, <1>2 DEF SleeperType
  <2> QED BY <1>1, <1>2, <2>1, SleeperKeeps
<1>3. ASSUME NEW u \in 0..Forever, UNCHANGED <<timers, fired>>,
             sleeper' = [sleeper EXCEPT !.at = "wait", !.until = u]
      PROVE  TInv'
  <2>1. sleeper' \in SleeperType
    BY <1>1, <1>3 DEF SleeperType
  <2> QED BY <1>1, <1>3, <2>1, SleeperKeeps
<1>4. ASSUME NEW id \in timers.heap,
             IF deadline[id] > clock
             THEN /\ sleeper' = [sleeper EXCEPT !.at = "wait", !.until = deadline[id]]
                  /\ UNCHANGED <<timers, fired>>
             ELSE Pop(id)
      PROVE  TInv'
  <2>1. deadline[id] \in 0..MaxTime
    BY <1>1 DEF TimersType
  <2>2. CASE deadline[id] > clock
    <3>1. deadline[id] \in 0..Forever
      BY <1>1, <2>1
    <3> QED BY <1>3, <1>4, <2>2, <3>1
  <2>3. CASE ~(deadline[id] > clock)
    <3>1. deadline[id] <= clock
      BY <1>1, <2>1, <2>3
    <3> QED BY <1>1, <1>4, <2>3, <3>1, PopKeeps
  <2> QED BY <2>2, <2>3
<1>5. Forever \in 0..Forever
  BY <1>1
<1> QED BY <1>2, <1>3, <1>4, <1>5 DEF Turn

\* Every step of the callers, the worker, Stop and the clock keeps the invariant.
LEMMA TInvInductive ==
    ASSUME TimerOptionsAreValid, TInv, [TimerNext]_timerVars PROVE TInv'
<1>1. CASE UNCHANGED timerVars
  BY <1>1, SleeperKeeps DEF TInv, TimersTypeOK, SleeperType, CallerType, timerVars
<1>2. CASE Tick \/ StopTimers \/ Turn \/ Wake \/ CallbackReturns
  BY <1>2, TickKeeps, StopTimersKeeps, TurnKeeps, WakeKeeps, CallbackReturnsKeeps
<1>3. ASSUME NEW c \in Callers,
             \/ CancelTimer(c) \/ Push(c) \/ NotifyPushed(c)
             \/ \E duration \in Durations : Schedule(c, duration)
      PROVE  TInv'
  BY <1>3, CancelTimerKeeps, PushKeeps, NotifyPushedKeeps, ScheduleKeeps
<1> QED BY <1>1, <1>2, <1>3 DEF TimerNext

------------------------------------------------------------------------------
(* The theorems *)

\* A timer is with its caller, in the heap or fired, and in one place only.
THEOREM TimerInvariance == ASSUME TimerOptionsAreValid PROVE TimerSpec => []TInv
<1>1. TInv /\ [TimerNext]_timerVars => TInv'
  BY TInvInductive
<1> QED BY <1>1, InitTInv, PTL DEF TimerSpec

\* A callback runs once, not before its deadline, and never after a Cancel
\* that returned true, however Cancel, Push and Stop race with the worker.
THEOREM TimersFireOnceOnTime ==
    ASSUME TimerOptionsAreValid PROVE TimerSpec => []FiresOnceOnTime
<1>1. TInv => FiresOnceOnTime
  BY DEF TInv, FiresOnceOnTime, FiredOK
<1> QED BY <1>1, TimerInvariance, PTL

\* Once Stop has returned the worker has left, so no callback runs or will run.
THEOREM TimersStopQuietly ==
    ASSUME TimerOptionsAreValid PROVE TimerSpec => []NoCallbackAfterStop
<1>1. TInv => NoCallbackAfterStop
  BY DEF TInv, NoCallbackAfterStop
<1> QED BY <1>1, TimerInvariance, PTL
==============================================================================
