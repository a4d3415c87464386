------------------------- MODULE IocpExecutor_proofs --------------------------
(***************************************************************************)
(* Proofs about IocpExecutor, for any workers, tasks and limit.  Stopped   *)
(* is decided by two counters, while posting threads are between reserving *)
(* a slot and giving it back and workers between two sections of a packet; *)
(* the invariant says which tasks each counter counts.                     *)
(***************************************************************************)
EXTENDS IocpExecutor, FiniteSetTheorems, TLAPS

\* The tasks that hold a slot, and those that run.
Slots ==
    {t \in Tasks : \/ poster[t] \in {"reserved", "refused", "failed"}
                   \/ step[t] = "queued"}
RunningTasks == {t \in Tasks : step[t] = "running"}

ExecType ==
    [state : {"Running", "Stopping", "Stopped"},
     stop_mode : {"Drain", "CancelPending"},
     pending : 0..MaximumPendingTasks, running : 0..Cardinality(IoWorkers)]

EInv ==
    /\ TypeOK
    /\ IsFiniteSet(Slots) /\ exec.pending = Cardinality(Slots)
    /\ IsFiniteSet(RunningTasks) /\ exec.running = Cardinality(RunningTasks)
    /\ exec.state = "Stopped" => exec.pending = 0 /\ exec.running = 0
    /\ \A t \in Tasks : step[t] # "none" => poster[t] = "Accepted"
    /\ \A t \in Tasks : step[t] = "running" => \E w \in IoWorkers : io_worker[w] = t

\* MoveToStoppedIfDrainedLocked changes the state alone, from Stopping to
\* Stopped, and only with both counters at zero.
LEMMA DrainedStops ==
    ASSUME NEW e \in ExecType
    PROVE  LET d == MoveToStoppedIfDrainedLocked(e)
           IN  /\ d \in ExecType /\ d.pending = e.pending
               /\ d.running = e.running /\ d.stop_mode = e.stop_mode
               /\ \/ d.state = e.state
                  \/ /\ e.state = "Stopping" /\ d.state = "Stopped"
                     /\ d.pending = 0 /\ d.running = 0
BY DEF MoveToStoppedIfDrainedLocked, ExecType

\* The bounds are numbers.
LEMMA Bounds ==
    ASSUME ContextOptionsAreValid, ExecutorOptionsAreValid
    PROVE  /\ Cardinality(IoWorkers) \in Nat /\ MaximumPendingTasks \in Nat
           /\ MaximumPendingTasks > 0
           /\ "dequeue" \notin Tasks /\ "exited" \notin Tasks
           /\ "stop" \notin Tasks
BY FS_CardinalityType DEF ContextOptionsAreValid, ExecutorOptionsAreValid

\* Tasks that run are no more than the workers they run on.
LEMMA RunningIsBounded ==
    ASSUME ContextOptionsAreValid, NEW W \in [IoWorkers -> Tasks \cup {"dequeue", "exited"}],
           NEW R \in SUBSET Tasks, \A t \in R : \E w \in IoWorkers : W[w] = t
    PROVE  IsFiniteSet(R) /\ Cardinality(R) \in 0..Cardinality(IoWorkers)
<1> DEFINE Image == {W[w] : w \in IoWorkers}
<1>1. IsFiniteSet(IoWorkers)
  BY DEF ContextOptionsAreValid
<1>2. IsFiniteSet(Image) /\ Cardinality(Image) <= Cardinality(IoWorkers)
  <2>1. W \in [IoWorkers -> Tasks \cup {"dequeue", "exited"}]
    OBVIOUS
  <2>2. DOMAIN W = IoWorkers /\ \A w \in IoWorkers : W[w] \in Image
    OBVIOUS
  <2>3. W \in Surjection(IoWorkers, Image)
    BY <2>2 DEF Surjection
  <2> QED BY <1>1, <2>3, FS_Surjection
<1>3. R \subseteq Image
  OBVIOUS
<1> HIDE DEF Image
<1>4. /\ IsFiniteSet(R) /\ Cardinality(R) <= Cardinality(Image)
      /\ Cardinality(R) \in Nat /\ Cardinality(Image) \in Nat
      /\ Cardinality(IoWorkers) \in Nat
  BY <1>1, <1>2, <1>3, FS_Subset, FS_CardinalityType
<1> QED BY <1>2, <1>4

\* A new executor, nothing posted.
LEMMA InitEInv ==
    ASSUME ContextOptionsAreValid, ExecutorOptionsAreValid, Init
    PROVE  EInv
<1>1. Slots = {} /\ RunningTasks = {} /\ Cardinality({}) = 0 /\ IsFiniteSet({})
  BY FS_EmptySet DEF Init, Slots, RunningTasks
<1>2. exec = [state |-> "Running", stop_mode |-> "Drain", pending |-> 0, running |-> 0]
  BY DEF Init
<1>3. exec \in ExecType
  BY <1>2, Bounds DEF ExecType
<1>4. TypeOK
  <2>1. <<>> \in Seq(Tasks \cup {"stop"})
    OBVIOUS
  <2>2. /\ port = <<>> /\ port_open \in BOOLEAN /\ stopping \in BOOLEAN
        /\ io_worker \in [IoWorkers -> Tasks \cup {"dequeue", "exited"}]
    BY DEF Init, ContextInit
  <2>3. poster = [t \in Tasks |-> "idle"] /\ step = [t \in Tasks |-> "none"]
    BY DEF Init
  <2> QED BY <1>3, <2>1, <2>2, <2>3 DEF TypeOK, ExecType
<1>5. \A t \in Tasks : step[t] = "none"
  BY DEF Init
<1> QED BY <1>1, <1>2, <1>4, <1>5 DEF EInv

\* Post reserves a slot only below the limit and only while Running.
LEMMA ReserveKeeps ==
    ASSUME ContextOptionsAreValid, ExecutorOptionsAreValid, EInv,
           NEW t \in Tasks, Reserve(t)
    PROVE  EInv'
<1>0. /\ exec \in ExecType /\ poster[t] = "idle" /\ step[t] = "none"
      /\ UNCHANGED <<port, port_open, stopping, io_worker, step>>
  BY DEF EInv, TypeOK, ExecType, Reserve, contextVars
<1>1. RunningTasks' = RunningTasks
  BY <1>0 DEF RunningTasks
<1>2. CASE exec.state = "Running" /\ ~(exec.pending >= MaximumPendingTasks)
  <2>1. /\ poster' = [poster EXCEPT ![t] = "reserved"]
        /\ exec' = [exec EXCEPT !.pending = @ + 1]
    BY <1>2 DEF Reserve, EInv, TypeOK
  <2>2. /\ exec' \in ExecType /\ exec'.pending = exec.pending + 1
        /\ exec'.running = exec.running /\ exec'.state = "Running"
    BY <1>0, <1>2, <2>1, Bounds DEF ExecType
  <2>3. Slots' = Slots \cup {t} /\ t \notin Slots
    BY <1>0, <2>1 DEF EInv, TypeOK, Slots
  <2>4. IsFiniteSet(Slots') /\ Cardinality(Slots') = Cardinality(Slots) + 1
    BY <2>3, FS_AddElement DEF EInv
  <2>5. TypeOK'
    BY <1>0, <2>1, <2>2 DEF EInv, TypeOK, ExecType
  <2>6. \A u \in Tasks : step'[u] # "none" => poster'[u] = "Accepted"
    BY <1>0, <2>1 DEF EInv, TypeOK
  <2> QED BY <1>0, <1>1, <2>2, <2>4, <2>5, <2>6 DEF EInv
<1>3. CASE ~(exec.state = "Running" /\ ~(exec.pending >= MaximumPendingTasks))
  <2>1. exec' = exec /\ \E r \in {"Stopped", "Saturated"} : poster' = [poster EXCEPT ![t] = r]
    BY <1>3 DEF Reserve, EInv, TypeOK
  <2>2. Slots' = Slots
    BY <1>0, <2>1 DEF EInv, TypeOK, Slots
  <2>3. TypeOK'
    BY <1>0, <2>1 DEF EInv, TypeOK
  <2>4. \A u \in Tasks : step'[u] # "none" => poster'[u] = "Accepted"
    BY <1>0, <2>1 DEF EInv, TypeOK
  <2> QED BY <1>0, <1>1, <2>1, <2>2, <2>3, <2>4 DEF EInv
<1> QED BY <1>2, <1>3

\* The packet takes the slot over, or the thread keeps it until it rolls back.
LEMMA PostPacketKeeps ==
    ASSUME ContextOptionsAreValid, ExecutorOptionsAreValid, EInv,
           NEW t \in Tasks, PostPacket(t)
    PROVE  EInv'
<1>0. /\ poster[t] = "reserved" /\ step[t] = "none"
      /\ UNCHANGED <<port_open, stopping, io_worker, exec>>
  BY DEF EInv, PostPacket
<1>1. CASE /\ PostTask(t)
           /\ poster' = [poster EXCEPT ![t] = "Accepted"]
           /\ step' = [step EXCEPT ![t] = "queued"]
  <2>1. port' \in Seq(Tasks \cup {"stop"})
    BY <1>1 DEF EInv, TypeOK, PostTask
  <2>2. TypeOK'
    BY <1>0, <1>1, <2>1 DEF EInv, TypeOK
  <2>3. Slots' = Slots /\ RunningTasks' = RunningTasks
    BY <1>0, <1>1 DEF EInv, TypeOK, Slots, RunningTasks
  <2>4. /\ \A u \in Tasks : step'[u] # "none" => poster'[u] = "Accepted"
        /\ \A u \in Tasks : step'[u] = "running" => step[u] = "running"
    BY <1>0, <1>1 DEF EInv, TypeOK
  <2> QED BY <1>0, <2>2, <2>3, <2>4 DEF EInv
<1>2. CASE /\ \E r \in {"refused", "failed"} : poster' = [poster EXCEPT ![t] = r]
           /\ UNCHANGED <<port, step>>
  <2>2. TypeOK'
    BY <1>0, <1>2 DEF EInv, TypeOK
  <2>3. Slots' = Slots /\ RunningTasks' = RunningTasks
    BY <1>0, <1>2 DEF EInv, TypeOK, Slots, RunningTasks
  <2>4. \A u \in Tasks : step'[u] # "none" => poster'[u] = "Accepted"
    BY <1>0, <1>2 DEF EInv, TypeOK
  <2> QED BY <1>0, <1>2, <2>2, <2>3, <2>4 DEF EInv
<1> QED BY <1>1, <1>2 DEF PostPacket

\* RollBackSubmission gives the slot back; with it the executor may drain.
LEMMA RollBackKeeps ==
    ASSUME ContextOptionsAreValid, ExecutorOptionsAreValid, EInv,
           NEW t \in Tasks, RollBackSubmission(t)
    PROVE  EInv'
<1> DEFINE refused == poster[t] = "refused"
           e == [exec EXCEPT !.pending = IF @ > 0 THEN @ - 1 ELSE @,
                             !.state = IF refused /\ @ = "Running"
                                       THEN "Stopping" ELSE @]
<1>0. /\ exec \in ExecType /\ poster[t] \in {"refused", "failed"}
      /\ step[t] = "none"
      /\ UNCHANGED <<port, port_open, stopping, io_worker, step>>
      /\ exec' = MoveToStoppedIfDrainedLocked(e)
      /\ \E r \in {"Stopped", "thrown"} : poster' = [poster EXCEPT ![t] = r]
  BY DEF EInv, TypeOK, ExecType, RollBackSubmission, contextVars, RolledBack
<1>1. Slots' = Slots \ {t} /\ t \in Slots /\ RunningTasks' = RunningTasks
  BY <1>0 DEF EInv, TypeOK, Slots, RunningTasks
<1>2. /\ IsFiniteSet(Slots') /\ Cardinality(Slots') = Cardinality(Slots) - 1
      /\ Cardinality(Slots) \in Nat /\ Cardinality(Slots') \in Nat
  BY <1>1, FS_RemoveElement, FS_CardinalityType DEF EInv
<1>3. /\ exec.pending = Cardinality(Slots) /\ exec.pending > 0
      /\ exec.pending - 1 = Cardinality(Slots')
      /\ exec.pending - 1 \in 0..MaximumPendingTasks
  <2>1. exec.pending = Cardinality(Slots)
    BY DEF EInv
  <2>2. exec.pending \in 0..MaximumPendingTasks
    BY <1>0 DEF ExecType
  <2> QED BY <1>2, <2>1, <2>2, Bounds
<1>4. /\ e \in ExecType /\ e.pending = Cardinality(Slots')
      /\ e.running = exec.running
      /\ e.state = "Stopped" => exec.state = "Stopped"
  <2>1. e = [exec EXCEPT !.pending = exec.pending - 1,
                         !.state = IF refused /\ exec.state = "Running"
                                   THEN "Stopping" ELSE exec.state]
    BY <1>0, <1>3 DEF ExecType
  <2> QED BY <1>0, <1>3, <2>1 DEF ExecType
<1> HIDE DEF e
<1>5. exec.state # "Stopped"
  BY <1>3 DEF EInv
<1>6. /\ exec' \in ExecType /\ exec'.pending = Cardinality(Slots')
      /\ exec'.running = exec.running
      /\ exec'.state = "Stopped" => exec'.pending = 0 /\ exec'.running = 0
  BY <1>0, <1>4, <1>5, DrainedStops
<1>7. TypeOK'
  BY <1>0, <1>6 DEF EInv, TypeOK, ExecType
<1>8. \A u \in Tasks : step'[u] # "none" => poster'[u] = "Accepted"
  BY <1>0 DEF EInv, TypeOK
<1> QED BY <1>0, <1>1, <1>2, <1>6, <1>7, <1>8 DEF EInv

\* Stop: Stopped at once when nothing is out.
LEMMA StopKeeps ==
    ASSUME ContextOptionsAreValid, ExecutorOptionsAreValid, EInv,
           NEW mode \in StopModes, Stop(mode)
    PROVE  EInv'
<1> DEFINE e == [exec EXCEPT !.state = "Stopping",
                             !.stop_mode = IF exec.state = "Running"
                                              \/ mode = "CancelPending"
                                           THEN mode ELSE @]
<1>0. /\ exec \in ExecType /\ mode \in {"Drain", "CancelPending"}
      /\ UNCHANGED <<port, port_open, stopping, io_worker, poster, step>>
      /\ exec' = MoveToStoppedIfDrainedLocked(e)
  BY DEF EInv, TypeOK, ExecType, Stop, contextVars, ExecutorOptionsAreValid
<1>1. /\ e \in ExecType /\ e.pending = exec.pending /\ e.running = exec.running
      /\ e.state = "Stopping"
  BY <1>0 DEF ExecType
<1> HIDE DEF e
<1>2. /\ exec' \in ExecType /\ exec'.pending = exec.pending
      /\ exec'.running = exec.running
      /\ exec'.state = "Stopped" => exec'.pending = 0 /\ exec'.running = 0
  BY <1>0, <1>1, DrainedStops
<1>3. Slots' = Slots /\ RunningTasks' = RunningTasks
  BY <1>0 DEF Slots, RunningTasks
<1>4. TypeOK'
  BY <1>0, <1>2 DEF EInv, TypeOK, ExecType
<1> QED BY <1>0, <1>2, <1>3, <1>4 DEF EInv

\* The steps of the context: workers dequeue, lose the port and leave, and
\* Stop of the context posts its packets.  A task that runs keeps its worker.
LEMMA ContextKeeps ==
    ASSUME ContextOptionsAreValid, ExecutorOptionsAreValid, EInv,
           UNCHANGED <<exec, poster, step>>,
           \/ StopContext
           \/ \E w \in IoWorkers : WorkerDequeues(w) \/ WorkerLosesPort(w)
    PROVE  EInv'
<1>0. Slots' = Slots /\ RunningTasks' = RunningTasks
  BY DEF Slots, RunningTasks
<1>1. SUFFICES /\ TypeOK'
               /\ \A t \in Tasks : step[t] = "running" =>
                      \E w \in IoWorkers : io_worker'[w] = t
  BY <1>0 DEF EInv
<1>2. CASE StopContext
  <2>1. port' \in Seq(Tasks \cup {"stop"})
    <3> DEFINE stops == [i \in 1..Cardinality(IoWorkers) |-> "stop"]
    <3>1. stops \in Seq(Tasks \cup {"stop"})
      BY Bounds
    <3>2. port \in Seq(Tasks \cup {"stop"}) /\ (port' = port \o stops \/ port' = port)
      BY <1>2 DEF EInv, TypeOK, StopContext, WithStopPackets
    <3>3. ASSUME NEW S, NEW a \in Seq(S), NEW b \in Seq(S) PROVE a \o b \in Seq(S)
      OBVIOUS
    <3> HIDE DEF stops
    <3>4. port \o stops \in Seq(Tasks \cup {"stop"})
      BY <3>1, <3>2, <3>3
    <3> QED BY <3>2, <3>4
  <2> QED BY <1>2, <2>1 DEF EInv, TypeOK, StopContext
<1>3. ASSUME NEW w \in IoWorkers, WorkerDequeues(w) \/ WorkerLosesPort(w)
      PROVE  /\ TypeOK'
             /\ \A t \in Tasks : step[t] = "running" =>
                    \E v \in IoWorkers : io_worker'[v] = t
  <2>1. /\ io_worker[w] = "dequeue"
        /\ \E x \in Tasks \cup {"exited"} : io_worker' = [io_worker EXCEPT ![w] = x]
        /\ port' \in Seq(Tasks \cup {"stop"})
        /\ UNCHANGED <<port_open, stopping>>
    <3>1. port \in Seq(Tasks \cup {"stop"})
      BY DEF EInv, TypeOK
    <3>2. CASE WorkerDequeues(w)
      <4>1. Head(port) \in Tasks \cup {"stop"} /\ Tail(port) \in Seq(Tasks \cup {"stop"})
        BY <3>1, <3>2 DEF WorkerDequeues
      <4> QED BY <3>2, <4>1 DEF WorkerDequeues
    <3>3. CASE WorkerLosesPort(w)
      BY <3>1, <3>3 DEF WorkerLosesPort
    <3> QED BY <1>3, <3>2, <3>3
  <2>2. TypeOK'
    BY <2>1 DEF EInv, TypeOK
  <2>3. ASSUME NEW t \in Tasks, step[t] = "running"
        PROVE  \E v \in IoWorkers : io_worker'[v] = t
    <3>1. PICK v \in IoWorkers : io_worker[v] = t
      BY <2>3 DEF EInv
    <3>2. v # w
      BY <2>1, <3>1, Bounds
    <3> QED BY <2>1, <3>1, <3>2 DEF EInv, TypeOK
  <2> QED BY <2>2, <2>3
<1> QED BY <1>2, <1>3

\* ExecutePacket, first section: the slot becomes a running task, or is given
\* up with a cancelled one.
LEMMA BeginPacketKeeps ==
    ASSUME ContextOptionsAreValid, ExecutorOptionsAreValid, EInv,
           NEW w \in IoWorkers, BeginPacket(w)
    PROVE  EInv'
<1> DEFINE t == io_worker[w]
           cancelled == exec.state # "Running" /\ exec.stop_mode = "CancelPending"
<1>0. /\ exec \in ExecType /\ t \in Tasks /\ step[t] = "queued"
      /\ poster[t] = "Accepted"
      /\ step' = [step EXCEPT ![t] = IF cancelled THEN "cancelled" ELSE "running"]
      /\ exec' = [exec EXCEPT !.pending = IF @ > 0 THEN @ - 1 ELSE @,
                              !.running = IF cancelled THEN @ ELSE @ + 1]
      /\ UNCHANGED <<port, port_open, stopping, io_worker, poster>>
  BY DEF EInv, TypeOK, ExecType, BeginPacket, contextVars
<1> HIDE DEF t, cancelled
<1>1. /\ Slots' = Slots \ {t} /\ t \in Slots /\ t \notin RunningTasks
      /\ RunningTasks' = IF cancelled THEN RunningTasks ELSE RunningTasks \cup {t}
  BY <1>0 DEF EInv, TypeOK, Slots, RunningTasks
<1>2. /\ IsFiniteSet(Slots') /\ Cardinality(Slots') = Cardinality(Slots) - 1
      /\ Cardinality(Slots) \in Nat /\ Cardinality(Slots') \in Nat
  BY <1>1, FS_RemoveElement, FS_CardinalityType DEF EInv
<1>3. \A u \in RunningTasks' : \E v \in IoWorkers : io_worker'[v] = u
  BY <1>0, <1>1 DEF EInv, RunningTasks, t
<1>4. /\ IsFiniteSet(RunningTasks')
      /\ Cardinality(RunningTasks') \in 0..Cardinality(IoWorkers)
  <2>1. /\ io_worker' \in [IoWorkers -> Tasks \cup {"dequeue", "exited"}]
        /\ RunningTasks' \in SUBSET Tasks
    BY <1>0 DEF EInv, TypeOK, RunningTasks
  <2> QED BY <1>3, <2>1, RunningIsBounded
<1>5. Cardinality(RunningTasks') = IF cancelled THEN Cardinality(RunningTasks)
                                               ELSE Cardinality(RunningTasks) + 1
  BY <1>1, FS_AddElement DEF EInv
<1>6. /\ exec.pending = Cardinality(Slots) /\ exec.pending > 0
      /\ exec.pending - 1 = Cardinality(Slots')
      /\ exec.pending - 1 \in 0..MaximumPendingTasks
      /\ exec.running = Cardinality(RunningTasks)
  <2>1. exec.pending = Cardinality(Slots) /\ exec.running = Cardinality(RunningTasks)
    BY DEF EInv
  <2>2. exec.pending \in 0..MaximumPendingTasks
    BY <1>0 DEF ExecType
  <2> QED BY <1>2, <2>1, <2>2, Bounds
<1>7. exec' = [exec EXCEPT !.pending = Cardinality(Slots'),
                           !.running = Cardinality(RunningTasks')]
  BY <1>0, <1>5, <1>6
<1>8. /\ exec' \in ExecType /\ exec'.pending = Cardinality(Slots')
      /\ exec'.running = Cardinality(RunningTasks') /\ exec'.state = exec.state
  BY <1>0, <1>4, <1>6, <1>7 DEF ExecType
<1>9. exec.state # "Stopped"
  BY <1>6 DEF EInv
<1>10. TypeOK'
  BY <1>0, <1>8 DEF EInv, TypeOK, ExecType
<1>11. /\ \A u \in Tasks : step'[u] # "none" => poster'[u] = "Accepted"
       /\ \A u \in Tasks : step'[u] = "running" =>
              \E v \in IoWorkers : io_worker'[v] = u
  BY <1>0, <1>3 DEF EInv, TypeOK, RunningTasks
<1> QED BY <1>2, <1>4, <1>8, <1>9, <1>10, <1>11 DEF EInv

\* ExecutePacket, second section: the task no longer runs; the last one of a
\* stopping executor makes it Stopped.
LEMMA EndPacketKeeps ==
    ASSUME ContextOptionsAreValid, ExecutorOptionsAreValid, EInv,
           NEW w \in IoWorkers, EndPacket(w)
    PROVE  EInv'
<1> DEFINE t == io_worker[w]
           e == IF step[t] = "running" THEN [exec EXCEPT !.running = @ - 1] ELSE exec
<1>0. /\ exec \in ExecType /\ t \in Tasks /\ step[t] \in {"running", "cancelled"}
      /\ poster[t] = "Accepted"
      /\ exec' = MoveToStoppedIfDrainedLocked(e)
      /\ step' = [step EXCEPT ![t] =
             IF step[t] = "running" THEN "completed" ELSE "discarded"]
      /\ io_worker' = [io_worker EXCEPT ![w] = "dequeue"]
      /\ UNCHANGED <<port, port_open, stopping, poster>>
  BY DEF EInv, TypeOK, ExecType, EndPacket
<1>1. /\ Slots' = Slots
      /\ RunningTasks' = RunningTasks \ {t}
      /\ t \in RunningTasks <=> step[t] = "running"
  BY <1>0 DEF EInv, TypeOK, Slots, RunningTasks
<1>2. \A u \in RunningTasks' : \E v \in IoWorkers : io_worker'[v] = u
  <2> SUFFICES ASSUME NEW u \in RunningTasks'
               PROVE  \E v \in IoWorkers : io_worker'[v] = u
    OBVIOUS
  <2>1. u \in Tasks /\ step[u] = "running" /\ u # t
    BY <1>0, <1>1 DEF RunningTasks
  <2>2. PICK v \in IoWorkers : io_worker[v] = u
    BY <2>1 DEF EInv
  <2>3. v # w
    BY <2>1, <2>2
  <2> QED BY <1>0, <2>2, <2>3 DEF EInv, TypeOK
<1>3. /\ IsFiniteSet(RunningTasks')
      /\ Cardinality(RunningTasks') \in 0..Cardinality(IoWorkers)
      /\ io_worker' \in [IoWorkers -> Tasks \cup {"dequeue", "exited"}]
  <2>1. /\ io_worker' \in [IoWorkers -> Tasks \cup {"dequeue", "exited"}]
        /\ RunningTasks' \in SUBSET Tasks
    BY <1>0, <1>1 DEF EInv, TypeOK, RunningTasks
  <2> QED BY <1>2, <2>1, RunningIsBounded
<1>4. exec.running = Cardinality(RunningTasks) /\ IsFiniteSet(RunningTasks)
  BY DEF EInv
<1>5. /\ e \in ExecType /\ e.pending = exec.pending /\ e.state = exec.state
      /\ e.running = Cardinality(RunningTasks')
  <2>1. CASE step[t] = "running"
    <3>1. Cardinality(RunningTasks') = exec.running - 1
      BY <1>1, <1>4, <2>1, FS_RemoveElement
    <3>2. exec.running - 1 \in 0..Cardinality(IoWorkers)
      BY <1>3, <3>1
    <3>3. e = [exec EXCEPT !.running = exec.running - 1]
      BY <2>1
    <3> QED BY <1>0, <3>1, <3>2, <3>3 DEF ExecType
  <2>2. CASE step[t] # "running"
    <3>1. RunningTasks' = RunningTasks
      BY <1>1, <2>2
    <3> QED BY <1>0, <1>4, <2>2, <3>1
  <2> QED BY <2>1, <2>2
<1> HIDE DEF e
<1>6. /\ exec' \in ExecType /\ exec'.pending = exec.pending
      /\ exec'.running = Cardinality(RunningTasks')
      /\ exec'.state = "Stopped" =>
            \/ exec'.pending = 0 /\ exec'.running = 0
            \/ exec.state = "Stopped"
  BY <1>0, <1>5, DrainedStops
<1>7. exec.state = "Stopped" => exec'.pending = 0 /\ exec'.running = 0
  <2> SUFFICES ASSUME exec.state = "Stopped" PROVE exec'.pending = 0 /\ exec'.running = 0
    OBVIOUS
  <2>1. exec.pending = 0 /\ RunningTasks = {}
    BY <1>4, FS_EmptySet DEF EInv
  <2>2. RunningTasks' = {}
    BY <1>1, <2>1
  <2> QED BY <1>6, <2>1, <2>2, FS_EmptySet
<1>8. TypeOK'
  BY <1>0, <1>3, <1>6 DEF EInv, TypeOK, ExecType
<1>9. /\ \A u \in Tasks : step'[u] # "none" => poster'[u] = "Accepted"
      /\ \A u \in Tasks : step'[u] = "running" =>
              \E v \in IoWorkers : io_worker'[v] = u
  BY <1>0, <1>2 DEF EInv, TypeOK, RunningTasks
<1> QED BY <1>1, <1>3, <1>6, <1>7, <1>8, <1>9 DEF EInv

\* Every step of the executor, its callers, its workers and its context keeps
\* the invariant.
LEMMA EInvInductive ==
    ASSUME ContextOptionsAreValid, ExecutorOptionsAreValid, EInv, [Next]_vars
    PROVE  EInv'
<1>1. CASE UNCHANGED vars
  <2>1. Slots' = Slots /\ RunningTasks' = RunningTasks
    BY <1>1 DEF vars, Slots, RunningTasks
  <2> QED BY <1>1, <2>1 DEF EInv, TypeOK, vars, contextVars
<1>2. CASE \E t \in Tasks : Reserve(t) \/ PostPacket(t) \/ RollBackSubmission(t)
  BY <1>2, ReserveKeeps, PostPacketKeeps, RollBackKeeps
<1>3. CASE \E mode \in StopModes : Stop(mode)
  BY <1>3, StopKeeps
<1>4. CASE /\ UNCHANGED <<exec, poster, step>>
           /\ \/ StopContext
              \/ \E w \in IoWorkers : WorkerDequeues(w) \/ WorkerLosesPort(w)
  BY <1>4, ContextKeeps
<1>5. CASE \E w \in IoWorkers : BeginPacket(w) \/ EndPacket(w)
  BY <1>5, BeginPacketKeeps, EndPacketKeeps
<1> QED BY <1>1, <1>2, <1>3, <1>4, <1>5 DEF Next

\* In a state of the invariant, Stopped means that no task holds a slot or runs.
LEMMA StoppedHoldsNothing ==
    ASSUME EInv, exec.state = "Stopped" PROVE Slots = {} /\ RunningTasks = {}
BY FS_EmptySet DEF EInv

------------------------------------------------------------------------------
(* The theorems *)

\* The counters of the executor, with what they count, and what Stopped means
\* hold in every state, whatever the number of threads and tasks.
THEOREM ExecutorInvariance ==
    ASSUME ContextOptionsAreValid, ExecutorOptionsAreValid PROVE Spec => []EInv
<1>1. Init => EInv
  BY InitEInv
<1>2. EInv /\ [Next]_vars => EInv'
  BY EInvInductive
<1> QED BY <1>1, <1>2, PTL DEF Spec

\* pending counts one slot per thread inside Post and per queued packet,
\* running one per worker in a task: Post's capacity check and
\* MoveToStoppedIfDrainedLocked never act on a wrong number.
THEOREM ExecutorCountsExactly ==
    ASSUME ContextOptionsAreValid, ExecutorOptionsAreValid
    PROVE  Spec => []CountersAreExact
<1>1. EInv => CountersAreExact
  BY DEF EInv, CountersAreExact, Slots, RunningTasks
<1> QED BY <1>1, ExecutorInvariance, PTL

\* Once the executor reports Stopped no packet of it is queued, no task runs
\* and no thread is inside Post with a slot.
THEOREM ExecutorStopsQuietly ==
    ASSUME ContextOptionsAreValid, ExecutorOptionsAreValid
    PROVE  Spec => []StoppedIsQuiet
<1>1. EInv => StoppedIsQuiet
  BY StoppedHoldsNothing DEF StoppedIsQuiet, Slots, RunningTasks
<1> QED BY <1>1, ExecutorInvariance, PTL

------------------------------------------------------------------------------
(* The refinement of ExecutorContract *)

Statuses == [t \in Tasks |-> Status(t)]

\* What became of a task depends on its packet and its caller alone.
LEMMA StatusOf ==
    ASSUME NEW t \in Tasks
    PROVE  /\ step[t] = "queued" => Status(t) = "accepted"
           /\ step[t] = "running" => Status(t) = "running"
           /\ step[t] = "completed" => Status(t) = "done"
           /\ step[t] \in {"cancelled", "discarded"} => Status(t) = "dropped"
           /\ step[t] = "none" /\ poster[t] \in {"reserved", "refused", "failed"} =>
                  Status(t) = "admitted"
           /\ step[t] = "none" /\ poster[t] \notin {"reserved", "refused", "failed"} =>
                  Status(t) = "new"
BY DEF Status

LEMMA StatusAfter ==
    ASSUME NEW t \in Tasks
    PROVE  /\ step'[t] = "queued" => Status(t)' = "accepted"
           /\ step'[t] = "running" => Status(t)' = "running"
           /\ step'[t] = "completed" => Status(t)' = "done"
           /\ step'[t] \in {"cancelled", "discarded"} => Status(t)' = "dropped"
           /\ step'[t] = "none" /\ poster'[t] \in {"reserved", "refused", "failed"} =>
                  Status(t)' = "admitted"
           /\ step'[t] = "none" /\ poster'[t] \notin {"reserved", "refused", "failed"} =>
                  Status(t)' = "new"
BY DEF Status

\* A step that touches one task changes the status of that task alone.
LEMMA OneStatusMoves ==
    ASSUME NEW t \in Tasks,
           \A u \in Tasks \ {t} : step'[u] = step[u] /\ poster'[u] = poster[u]
    PROVE  Statuses' = [Statuses EXCEPT ![t] = Status(t)']
<1>1. \A u \in Tasks \ {t} : Status(u)' = Status(u)
  BY DEF Status
<1> QED BY <1>1 DEF Statuses

\* Stopped is quiet in the words of the contract.
LEMMA StoppedContract ==
    ASSUME EInv, exec.state = "Stopped" PROVE Contract!Quiet(Statuses)
<1> SUFFICES ASSUME NEW t \in Tasks
             PROVE  Status(t) \notin {"admitted", "accepted", "running"}
  BY DEF Contract!Quiet, Statuses
<1>1. /\ step[t] \in {"none", "cancelled", "completed", "discarded"}
      /\ poster[t] \notin {"reserved", "refused", "failed"}
  BY StoppedHoldsNothing DEF Slots, RunningTasks, EInv, TypeOK
<1> QED BY <1>1, StatusOf

\* Stopped after a step is quiet after it.
LEMMA StoppedContractAfter ==
    ASSUME EInv', exec'.state = "Stopped" PROVE Contract!Quiet(Statuses')
<1> SUFFICES ASSUME NEW t \in Tasks
             PROVE  Status(t)' \notin {"admitted", "accepted", "running"}
  BY DEF Contract!Quiet, Statuses
<1>1. Slots' = {} /\ RunningTasks' = {}
  BY FS_EmptySet DEF EInv
<1>2. /\ step'[t] \in {"none", "cancelled", "completed", "discarded"}
      /\ poster'[t] \notin {"reserved", "refused", "failed"}
  BY <1>1 DEF Slots, RunningTasks, EInv, TypeOK
<1> QED BY <1>2, StatusAfter

\* Reserve admits the task or leaves it to its caller.
LEMMA ReserveImplements ==
    ASSUME EInv, NEW t \in Tasks, Reserve(t)
    PROVE  Contract!Admit(t) \/ UNCHANGED Contract!vars
<1>1. /\ poster[t] = "idle" /\ step[t] = "none" /\ step' = step
      /\ poster' = [poster EXCEPT ![t] = poster'[t]]
      /\ exec \in ExecType /\ poster \in [Tasks -> {"idle", "reserved", "refused",
             "failed", "thrown", "Accepted", "Stopped", "Saturated"}]
  BY DEF EInv, TypeOK, ExecType, Reserve
<1>2. Statuses' = [Statuses EXCEPT ![t] = Status(t)'] /\ Status(t) = "new"
  BY <1>1, OneStatusMoves, StatusOf
<1>3. CASE poster'[t] = "reserved"
  <2>1. exec.state = "Running" /\ exec' = [exec EXCEPT !.pending = @ + 1]
    BY <1>1, <1>3 DEF Reserve
  <2>2. exec'.state = exec.state /\ exec'.stop_mode = exec.stop_mode
    BY <1>1, <2>1 DEF ExecType
  <2>3. Status(t)' = "admitted"
    BY <1>1, <1>3, StatusAfter
  <2> QED BY <1>2, <2>1, <2>2, <2>3 DEF Contract!Admit, Statuses
<1>4. CASE poster'[t] # "reserved"
  <2>1. exec' = exec /\ poster'[t] \in {"Stopped", "Saturated"}
    BY <1>1, <1>4 DEF Reserve
  <2>2. Status(t)' = "new"
    BY <1>1, <2>1, StatusAfter
  <2>3. Statuses' = Statuses
    BY <1>2, <2>2 DEF Statuses
  <2> QED BY <2>1, <2>3 DEF Contract!vars, Statuses
<1> QED BY <1>3, <1>4

\* PostPacket accepts the task, or leaves it to RollBackSubmission.
LEMMA PostPacketImplements ==
    ASSUME EInv, NEW t \in Tasks, PostPacket(t)
    PROVE  Contract!Accept(t) \/ UNCHANGED Contract!vars
<1>1. /\ poster[t] = "reserved" /\ step[t] = "none" /\ exec' = exec
      /\ \/ /\ poster' = [poster EXCEPT ![t] = "Accepted"]
            /\ step' = [step EXCEPT ![t] = "queued"]
         \/ /\ step' = step
            /\ \E r \in {"refused", "failed"} : poster' = [poster EXCEPT ![t] = r]
      /\ step \in [Tasks -> {"none", "queued", "running", "cancelled",
                             "completed", "discarded"}]
      /\ poster \in [Tasks -> {"idle", "reserved", "refused",
             "failed", "thrown", "Accepted", "Stopped", "Saturated"}]
  BY DEF EInv, TypeOK, PostPacket
<1>2. Statuses' = [Statuses EXCEPT ![t] = Status(t)'] /\ Status(t) = "admitted"
  BY <1>1, OneStatusMoves, StatusOf
<1>3. CASE step'[t] = "queued"
  <2>1. Status(t)' = "accepted"
    BY <1>3, StatusAfter
  <2> QED BY <1>1, <1>2, <2>1 DEF Contract!Accept, Statuses
<1>4. CASE step' = step
  <2>1. Status(t)' = "admitted"
    BY <1>1, <1>4, StatusAfter
  <2>2. Statuses' = Statuses
    BY <1>2, <2>1 DEF Statuses
  <2> QED BY <1>1, <2>2 DEF Contract!vars, Statuses
<1> QED BY <1>1, <1>3, <1>4

\* RollBackSubmission takes the task out again; the context that refused it
\* stops the executor.
LEMMA RollBackImplements ==
    ASSUME EInv, EInv', NEW t \in Tasks, RollBackSubmission(t)
    PROVE  Contract!Refuse(t)
<1>1. /\ poster[t] \in {"refused", "failed"} /\ step[t] = "none" /\ step' = step
      /\ \E r \in {"Stopped", "thrown"} : poster' = [poster EXCEPT ![t] = r]
      /\ poster \in [Tasks -> {"idle", "reserved", "refused",
             "failed", "thrown", "Accepted", "Stopped", "Saturated"}]
      /\ exec \in ExecType /\ exec' \in ExecType
  BY DEF EInv, TypeOK, ExecType, RollBackSubmission
<1>2. Statuses' = [Statuses EXCEPT ![t] = Status(t)'] /\ Status(t) = "admitted"
  BY <1>1, OneStatusMoves, StatusOf
<1>3. Status(t)' = "new"
  BY <1>1, StatusAfter
<1>4. /\ exec'.stop_mode = exec.stop_mode
      /\ \/ exec'.state = exec.state
         \/ exec.state = "Running" /\ exec'.state = "Stopping"
         \/ exec'.state = "Stopped"
  BY <1>1 DEF RollBackSubmission, RolledBack, MoveToStoppedIfDrainedLocked, ExecType
<1>5. exec'.state = exec.state \/ Contract!StopMoves
  BY <1>4, StoppedContractAfter DEF Contract!StopMoves, Statuses
<1> QED BY <1>2, <1>3, <1>4, <1>5 DEF Contract!Refuse, Statuses

\* A step that moves the state towards Stopped and no task is a stop of the
\* contract.
LEMMA StopGivesNothingUp ==
    ASSUME exec.state # "Stopped", Contract!StopMoves, Statuses' = Statuses,
           \/ exec'.stop_mode = exec.stop_mode \/ exec'.stop_mode = "CancelPending"
           \/ exec.state = "Running",
           exec'.stop_mode \in {"Drain", "CancelPending"}
    PROVE  Contract!Stop
<1> DEFINE none == {}
<1>1. /\ none \in SUBSET {t \in Tasks : Statuses[t] = "accepted"} /\ none = {}
      /\ Statuses' = [t \in Tasks |-> IF t \in none THEN "dropped" ELSE Statuses[t]]
  BY DEF Statuses
<1> HIDE DEF none
<1>2. \E given_up \in SUBSET {t \in Tasks : Statuses[t] = "accepted"} :
        /\ given_up # {} => exec'.stop_mode = "CancelPending"
        /\ Statuses' = [t \in Tasks |->
                           IF t \in given_up THEN "dropped" ELSE Statuses[t]]
  BY <1>1
<1> QED BY <1>2 DEF Contract!Stop, Statuses

\* Stop is a stop of the contract that gives nothing up by itself.
LEMMA StopImplements ==
    ASSUME ExecutorOptionsAreValid, EInv, EInv', NEW m \in StopModes, Stop(m)
    PROVE  Contract!Stop
<1>1. /\ exec.state # "Stopped" /\ step' = step /\ poster' = poster
      /\ exec \in ExecType /\ exec' \in ExecType
  BY DEF EInv, TypeOK, ExecType, Stop
<1>2. /\ exec'.state \in {"Stopping", "Stopped"}
      /\ \/ exec'.stop_mode = exec.stop_mode \/ exec'.stop_mode = "CancelPending"
         \/ exec.state = "Running"
      /\ exec'.stop_mode \in {"Drain", "CancelPending"}
  BY <1>1 DEF Stop, MoveToStoppedIfDrainedLocked, ExecType
<1>3. Statuses' = Statuses
  BY <1>1 DEF Statuses, Status
<1>4. Contract!StopMoves
  BY <1>1, <1>2, StoppedContractAfter DEF Contract!StopMoves, Statuses
<1> QED BY <1>1, <1>2, <1>3, <1>4, StopGivesNothingUp

\* BeginPacket begins the task, or drops it under CancelPending.
LEMMA BeginPacketImplements ==
    ASSUME EInv, NEW w \in IoWorkers, BeginPacket(w)
    PROVE  \E t \in Tasks : Contract!Begin(t) \/ Contract!Drop(t)
<1>0. PICK t \in Tasks : t = io_worker[w]
  BY DEF BeginPacket
<1> DEFINE cancelled == exec.state # "Running" /\ exec.stop_mode = "CancelPending"
<1>1. /\ t \in Tasks /\ step[t] = "queued" /\ poster' = poster
      /\ step' = [step EXCEPT ![t] = IF cancelled THEN "cancelled" ELSE "running"]
      /\ step \in [Tasks -> {"none", "queued", "running", "cancelled",
                             "completed", "discarded"}]
  BY <1>0 DEF EInv, TypeOK, BeginPacket
<1>2. exec'.state = exec.state /\ exec'.stop_mode = exec.stop_mode
  <2>1. exec \in ExecType
    BY DEF EInv, TypeOK, ExecType
  <2> QED BY <2>1 DEF BeginPacket, ExecType
<1>3. Statuses' = [Statuses EXCEPT ![t] = Status(t)'] /\ Status(t) = "accepted"
  BY <1>1, OneStatusMoves, StatusOf
<1>4. CASE cancelled
  <2>1. Status(t)' = "dropped"
    BY <1>1, <1>4, StatusAfter
  <2>2. Contract!Drop(t)
    BY <1>1, <1>2, <1>3, <1>4, <2>1 DEF Contract!Drop, Statuses
  <2> QED BY <1>1, <2>2
<1>5. CASE ~cancelled
  <2>1. Status(t)' = "running"
    BY <1>1, <1>5, StatusAfter
  <2>2. Contract!Begin(t)
    BY <1>1, <1>2, <1>3, <2>1 DEF Contract!Begin, Statuses
  <2> QED BY <1>1, <2>2
<1> QED BY <1>4, <1>5

\* EndPacket returns the task; with a dropped one it may only complete the stop.
LEMMA EndPacketImplements ==
    ASSUME EInv, EInv', NEW w \in IoWorkers, EndPacket(w)
    PROVE  \/ \E t \in Tasks : Contract!Return(t)
           \/ Contract!Stop \/ UNCHANGED Contract!vars
<1>0. PICK t \in Tasks : t = io_worker[w]
  BY DEF EndPacket
<1>1. /\ t \in Tasks /\ step[t] \in {"running", "cancelled"} /\ poster' = poster
      /\ step' = [step EXCEPT ![t] =
             IF step[t] = "running" THEN "completed" ELSE "discarded"]
      /\ step \in [Tasks -> {"none", "queued", "running", "cancelled",
                             "completed", "discarded"}]
  BY <1>0 DEF EInv, TypeOK, EndPacket
<1>2. /\ exec'.stop_mode = exec.stop_mode
      /\ exec.stop_mode \in {"Drain", "CancelPending"}
      /\ \/ exec'.state = exec.state
         \/ exec.state = "Stopping" /\ exec'.state = "Stopped"
  <2>1. exec \in ExecType
    BY DEF EInv, TypeOK, ExecType
  <2> QED BY <2>1 DEF EndPacket, MoveToStoppedIfDrainedLocked, ExecType
<1>3. Statuses' = [Statuses EXCEPT ![t] = Status(t)']
  BY <1>1, OneStatusMoves
<1>4. CASE step[t] = "running"
  <2>1. Status(t) = "running" /\ Status(t)' = "done"
    BY <1>1, <1>4, StatusOf, StatusAfter
  <2>2. Contract!Return(t)
    BY <1>1, <1>2, <1>3, <2>1, StoppedContractAfter DEF Contract!Return, Statuses
  <2> QED BY <1>1, <2>2
<1>5. CASE step[t] = "cancelled"
  <2>1. Status(t) = "dropped" /\ Status(t)' = "dropped"
    BY <1>1, <1>5, StatusOf, StatusAfter
  <2>2. Statuses' = Statuses
    BY <1>3, <2>1 DEF Statuses
  <2>3. CASE exec'.state = exec.state
    BY <1>2, <2>2, <2>3 DEF Contract!vars, Statuses
  <2>4. CASE exec.state = "Stopping" /\ exec'.state = "Stopped"
    <3>1. Contract!StopMoves
      BY <2>4, StoppedContractAfter DEF Contract!StopMoves, Statuses
    <3> QED BY <1>2, <2>2, <2>4, <3>1, StopGivesNothingUp
  <2> QED BY <1>2, <2>3, <2>4
<1> QED BY <1>1, <1>4, <1>5

\* IocpExecutor keeps the promise of IExecutor: every step of Post, Stop and
\* the workers, also between the sections of Post, is a step of the contract
\* or none.
THEOREM RefinesContract ==
    ASSUME ContextOptionsAreValid, ExecutorOptionsAreValid
    PROVE  Spec => Contract!Spec
<1>1. Init => Contract!Init
  <2> SUFFICES ASSUME Init PROVE Contract!Init
    OBVIOUS
  <2>1. \A t \in Tasks : Status(t) = "new"
    BY StatusOf DEF Init
  <2> QED BY <2>1 DEF Init, Contract!Init
<1>2. EInv /\ EInv' /\ [Next]_vars => [Contract!Next]_(Contract!vars)
  <2> SUFFICES ASSUME EInv, EInv', [Next]_vars
               PROVE  Contract!Next \/ UNCHANGED Contract!vars
    OBVIOUS
  <2>1. CASE UNCHANGED <<exec, poster, step>>
    BY <2>1 DEF Contract!vars, Status
  <2>2. CASE \E t \in Tasks : Reserve(t) \/ PostPacket(t) \/ RollBackSubmission(t)
    BY <2>2, ReserveImplements, PostPacketImplements, RollBackImplements
    DEF Contract!Next
  <2>3. CASE \E m \in StopModes : Stop(m)
    BY <2>3, StopImplements DEF Contract!Next
  <2>4. CASE \E w \in IoWorkers : BeginPacket(w)
    BY <2>4, BeginPacketImplements DEF Contract!Next
  <2>5. CASE \E w \in IoWorkers : EndPacket(w)
    BY <2>5, EndPacketImplements DEF Contract!Next
  <2> QED BY <2>1, <2>2, <2>3, <2>4, <2>5 DEF Next, vars
<1> QED BY <1>1, <1>2, ExecutorInvariance, PTL DEF Spec, Contract!Spec
==============================================================================
