---------------------- MODULE ThreadPoolExecutor_proofs ----------------------
(***************************************************************************)
(* Proofs about ThreadPoolExecutor, for any threads, tasks and limit: what *)
(* the pool accepted is taken in order and once, or dropped by a           *)
(* CancelPending; Stopped, which the last thread to leave reports, means   *)
(* that nothing waits or runs; and the pool keeps the executor contract.   *)
(***************************************************************************)
EXTENDS ThreadPoolExecutor, FiniteSetTheorems, TLAPS

\* The threads that have not left.
Live == {w \in Workers : worker[w] # "exited"}

PoolType ==
    [state : {"Running", "Stopping", "Stopped"}, stop_mode : StopMode,
     tasks : Seq(Tasks), live_workers : 0..Cardinality(Workers)]

\* Where each task of a, the accepted ones, is: taken (k), waiting (q) or
\* dropped (d), in this order; o are the tasks offered.
PlacedOf(o, a, k, q, d) ==
    /\ \A i, j \in 1..Len(a) : a[i] = a[j] => i = j
    /\ \A i \in 1..Len(a) : a[i] \in o
    /\ Len(k) + Len(q) <= Len(a)
    /\ \A i \in 1..Len(k) : k[i] = a[i]
    /\ \A i \in 1..Len(q) : q[i] = a[Len(k) + i]
    /\ d = {a[i] : i \in Len(k) + Len(q) + 1..Len(a)}
Placed == PlacedOf(offered, accepted, taken, pool.tasks, dropped)

\* What runs was taken, and runs on one thread.
OneRuns ==
    /\ \A w \in Workers : worker[w] \in Tasks =>
           \E i \in 1..Len(taken) : taken[i] = worker[w]
    /\ \A v, w \in Workers : worker[v] = worker[w] /\ worker[v] \in Tasks => v = w

\* A pool that cancels has nothing waiting, and only such a pool dropped a
\* task; live_workers is exact, and zero exactly when the pool is Stopped.
Stopping ==
    /\ pool.state # "Running" /\ pool.stop_mode = "CancelPending" => pool.tasks = <<>>
    /\ dropped # {} => pool.state # "Running" /\ pool.stop_mode = "CancelPending"
    /\ pool.live_workers = Cardinality(Live)
    /\ pool.state = "Stopped" <=> pool.live_workers = 0
    /\ pool.state = "Stopped" => pool.tasks = <<>>

PInv == pool \in PoolType /\ TypeOK /\ Placed /\ OneRuns /\ Stopping

------------------------------------------------------------------------------
(* Sequences *)

LEMMA AppendSeq ==
    ASSUME NEW S, NEW a \in Seq(S), NEW x \in S
    PROVE  /\ Append(a, x) \in Seq(S) /\ Len(Append(a, x)) = Len(a) + 1
           /\ Len(a) \in Nat /\ DOMAIN a = 1..Len(a)
           /\ \A i \in 1..Len(a) : Append(a, x)[i] = a[i]
           /\ Append(a, x)[Len(a) + 1] = x
OBVIOUS

LEMMA TailSeq ==
    ASSUME NEW S, NEW a \in Seq(S), a # <<>>
    PROVE  /\ Tail(a) \in Seq(S) /\ Len(Tail(a)) = Len(a) - 1 /\ Len(a) \in Nat \ {0}
           /\ DOMAIN a = 1..Len(a)
           /\ \A i \in 1..(Len(a) - 1) : Tail(a)[i] = a[i + 1]
           /\ Head(a) \in S /\ Head(a) = a[1]
OBVIOUS

\* Post accepts a task that was not offered before: it is the last one.
LEMMA AcceptPlaces ==
    ASSUME NEW S, NEW a \in Seq(S), NEW k \in Seq(S), NEW q \in Seq(S), NEW o,
           NEW d, NEW t \in S, t \notin o, d = {}, PlacedOf(o, a, k, q, d)
    PROVE  PlacedOf(o \cup {t}, Append(a, t), k, Append(q, t), d)
<1> DEFINE b == Append(a, t)
           r == Append(q, t)
<1>1. Len(a) \in Nat /\ Len(k) \in Nat /\ Len(q) \in Nat
  OBVIOUS
<1>2. Len(k) + Len(q) = Len(a)
  <2>1. ASSUME Len(k) + Len(q) < Len(a) PROVE FALSE
    <3>1. Len(a) \in Len(k) + Len(q) + 1..Len(a)
      BY <1>1, <2>1
    <3>2. a[Len(a)] \in d
      BY <3>1 DEF PlacedOf
    <3> QED BY <3>2
  <2> QED BY <1>1, <2>1 DEF PlacedOf
<1>3. /\ Len(b) = Len(a) + 1 /\ b[Len(a) + 1] = t
      /\ \A i \in 1..Len(a) : b[i] = a[i]
      /\ Len(r) = Len(q) + 1 /\ r[Len(q) + 1] = t
      /\ \A i \in 1..Len(q) : r[i] = q[i]
  BY AppendSeq
<1> HIDE DEF b, r
<1>4. \A i \in 1..Len(b) :
          \/ i \in 1..Len(a) /\ b[i] = a[i]
          \/ i = Len(a) + 1 /\ b[i] = t
  BY <1>1, <1>3
<1>5. \A i, j \in 1..Len(b) : b[i] = b[j] => i = j
  <2>1. \A i \in 1..Len(a) : a[i] # t
    BY DEF PlacedOf
  <2>2. \A i, j \in 1..Len(a) : a[i] = a[j] => i = j
    BY DEF PlacedOf
  <2> QED BY <1>4, <2>1, <2>2
<1>6. \A i \in 1..Len(b) : b[i] \in o \cup {t}
  BY <1>4 DEF PlacedOf
<1>7. \A i \in 1..Len(k) : k[i] = b[i]
  BY <1>1, <1>2, <1>3 DEF PlacedOf
<1>8. \A i \in 1..Len(r) : r[i] = b[Len(k) + i]
  <2> SUFFICES ASSUME NEW i \in 1..Len(r) PROVE r[i] = b[Len(k) + i]
    OBVIOUS
  <2>1. CASE i \in 1..Len(q)
    <3>1. Len(k) + i \in 1..Len(a) /\ r[i] = q[i]
      BY <1>1, <1>2, <1>3, <2>1
    <3> QED BY <1>3, <2>1, <3>1 DEF PlacedOf
  <2>2. CASE i \notin 1..Len(q)
    <3>1. i \in 1..(Len(q) + 1)
      BY <1>3
    <3>2. i = Len(q) + 1
      BY <1>1, <2>2, <3>1
    <3>3. Len(k) + i = Len(a) + 1
      <4>1. PICK x, y, z : x = Len(k) /\ y = Len(q) /\ z = Len(a)
        OBVIOUS
      <4>2. x \in Nat /\ y \in Nat /\ x + y = z
        BY <1>1, <1>2, <4>1
      <4>3. x + (y + 1) = z + 1
        BY <4>2
      <4> QED BY <3>2, <4>1, <4>3
    <3> QED BY <1>3, <3>2, <3>3
  <2> QED BY <2>1, <2>2
<1>9. d = {b[i] : i \in Len(k) + Len(r) + 1..Len(b)}
  <2>1. Len(k) + Len(r) + 1..Len(b) = {}
    BY <1>1, <1>2, <1>3
  <2> QED BY <2>1
<1>10. Len(k) + Len(r) <= Len(b)
  BY <1>1, <1>2, <1>3
<1> QED BY <1>5, <1>6, <1>7, <1>8, <1>9, <1>10 DEF PlacedOf, b, r

\* A worker takes the oldest of the waiting tasks.
LEMMA TakePlaces ==
    ASSUME NEW S, NEW a \in Seq(S), NEW k \in Seq(S), NEW q \in Seq(S), q # <<>>,
           NEW o, NEW d, PlacedOf(o, a, k, q, d)
    PROVE  PlacedOf(o, a, Append(k, Head(q)), Tail(q), d)
<1> DEFINE m == Append(k, Head(q))
           r == Tail(q)
<1>1. Len(a) \in Nat /\ Len(k) \in Nat /\ Len(q) \in Nat \ {0}
  BY TailSeq
<1>2. /\ Len(m) = Len(k) + 1 /\ m[Len(k) + 1] = q[1]
      /\ \A i \in 1..Len(k) : m[i] = k[i]
      /\ Len(r) = Len(q) - 1 /\ \A i \in 1..(Len(q) - 1) : r[i] = q[i + 1]
  BY AppendSeq, TailSeq
<1> HIDE DEF m, r
<1>3. \A i \in 1..Len(m) : m[i] = a[i]
  <2>1. m[Len(k) + 1] = a[Len(k) + 1]
    BY <1>1, <1>2 DEF PlacedOf
  <2>2. \A i \in 1..Len(m) : i \in 1..Len(k) \/ i = Len(k) + 1
    BY <1>1, <1>2
  <2>3. \A i \in 1..Len(k) : m[i] = a[i]
    BY <1>2 DEF PlacedOf
  <2> QED BY <2>1, <2>2, <2>3
<1>4. \A i \in 1..Len(r) : r[i] = a[Len(m) + i]
  <2> SUFFICES ASSUME NEW i \in 1..Len(r) PROVE r[i] = a[Len(m) + i]
    OBVIOUS
  <2>1. i + 1 \in 1..Len(q) /\ Len(k) + (i + 1) = Len(m) + i /\ r[i] = q[i + 1]
    BY <1>1, <1>2
  <2> QED BY <2>1 DEF PlacedOf
<1>5. Len(m) + Len(r) = Len(k) + Len(q)
  BY <1>1, <1>2
<1> QED BY <1>3, <1>4, <1>5 DEF PlacedOf, m, r

\* CancelPending drops what waits.
LEMMA DropPlaces ==
    ASSUME NEW S, NEW a \in Seq(S), NEW k \in Seq(S), NEW q \in Seq(S),
           NEW o, NEW d, PlacedOf(o, a, k, q, d)
    PROVE  PlacedOf(o, a, k, <<>>, d \cup {q[i] : i \in DOMAIN q})
<1>1. /\ Len(a) \in Nat /\ Len(k) \in Nat /\ Len(q) \in Nat
      /\ DOMAIN q = 1..Len(q) /\ Len(<<>>) = 0
  OBVIOUS
<1> DEFINE e == d \cup {q[i] : i \in DOMAIN q}
<1>2. ASSUME NEW x \in e PROVE x \in {a[i] : i \in Len(k) + 1..Len(a)}
  <2>1. CASE x \in d
    <3>1. PICK i \in Len(k) + Len(q) + 1..Len(a) : x = a[i]
      BY <2>1 DEF PlacedOf
    <3>2. i \in Len(k) + 1..Len(a)
      BY <1>1, <3>1
    <3> QED BY <3>1, <3>2
  <2>2. CASE x \in {q[i] : i \in DOMAIN q}
    <3>1. PICK i \in 1..Len(q) : x = q[i]
      BY <1>1, <2>2
    <3>2. x = a[Len(k) + i] /\ Len(k) + i \in Len(k) + 1..Len(a)
      BY <1>1, <3>1 DEF PlacedOf
    <3> QED BY <3>2
  <2> QED BY <1>2, <2>1, <2>2
<1>3. ASSUME NEW i \in Len(k) + 1..Len(a) PROVE a[i] \in e
  <2>1. CASE i <= Len(k) + Len(q)
    <3>1. i - Len(k) \in 1..Len(q) /\ Len(k) + (i - Len(k)) = i
      BY <1>1, <2>1
    <3>2. a[i] = q[i - Len(k)]
      BY <3>1 DEF PlacedOf
    <3> QED BY <1>1, <3>1, <3>2
  <2>2. CASE i > Len(k) + Len(q)
    <3>1. i \in Len(k) + Len(q) + 1..Len(a)
      BY <1>1, <2>2
    <3> QED BY <3>1 DEF PlacedOf
  <2> QED BY <1>1, <2>1, <2>2
<1> HIDE DEF e
<1>4. e = {a[i] : i \in Len(k) + 1..Len(a)}
  BY <1>2, <1>3
<1>5. Len(k) + Len(<<>>) = Len(k)
  BY <1>1
<1>6. e = {a[i] : i \in Len(k) + Len(<<>>) + 1..Len(a)}
  BY <1>4, <1>5
<1>7. Len(k) + Len(<<>>) <= Len(a) /\ 1..Len(<<>>) = {}
  BY <1>1 DEF PlacedOf
<1> QED BY <1>6, <1>7 DEF PlacedOf, e

------------------------------------------------------------------------------
(* The invariant *)

LEMMA LiveIsFinite ==
    /\ IsFiniteSet(Live) /\ Cardinality(Live) \in 0..Cardinality(Workers)
    /\ IsFiniteSet(Workers) /\ Cardinality(Workers) \in Nat
BY PoolOptionsAreValid, FS_Subset, FS_CardinalityType DEF Live

LEMMA TypeParts ==
    TypeOK /\ pool \in PoolType <=>
        /\ pool \in PoolType /\ Len(pool.tasks) <= MaximumPendingTasks
        /\ worker \in [Workers -> Tasks \cup {"waiting", "exited"}]
        /\ offered \subseteq Tasks /\ dropped \subseteq Tasks
        /\ accepted \in Seq(Tasks) /\ taken \in Seq(Tasks)
BY DEF TypeOK, PoolType

LEMMA InitPInv == ASSUME PoolTasksAreValid, Init PROVE PInv
<1>1. Cardinality(Workers) \in Nat \ {0} /\ Live = Workers
  <2>1. Live = Workers
    BY DEF Init, PoolInit, Live
  <2> QED BY <2>1, PoolOptionsAreValid, FS_CardinalityType, FS_EmptySet
<1>2. <<>> \in Seq(Tasks) /\ Len(<<>>) = 0
  OBVIOUS
<1>3. /\ pool \in PoolType /\ pool.tasks = <<>> /\ pool.state = "Running"
      /\ pool.live_workers = Cardinality(Workers)
  BY <1>1, <1>2 DEF Init, PoolInit, PoolType, StopMode
<1>4. TypeOK
  BY <1>2, <1>3, TypeParts, PoolOptionsAreValid DEF Init, PoolInit
<1>5. Placed
  <2>1. 1..Len(<<>>) = {} /\ Len(<<>>) + Len(<<>>) + 1..Len(<<>>) = {}
    BY <1>2
  <2> QED BY <1>2, <1>3, <2>1 DEF Init, Placed, PlacedOf
<1>6. OneRuns
  <2>1. \A w \in Workers : worker[w] = "waiting"
    BY DEF Init, PoolInit
  <2> QED BY <2>1 DEF OneRuns, PoolTasksAreValid
<1>7. Stopping
  BY <1>1, <1>3 DEF Stopping, Init
<1> QED BY <1>3, <1>4, <1>5, <1>6, <1>7 DEF PInv

LEMMA PostKeeps ==
    ASSUME PoolTasksAreValid, PInv, NEW t \in Tasks, Post(t) PROVE PInv'
<1>0. /\ pool \in PoolType /\ Len(pool.tasks) <= MaximumPendingTasks
      /\ worker \in [Workers -> Tasks \cup {"waiting", "exited"}]
      /\ offered \subseteq Tasks /\ dropped \subseteq Tasks
      /\ accepted \in Seq(Tasks) /\ taken \in Seq(Tasks)
      /\ pool.tasks \in Seq(Tasks)
      /\ Placed /\ OneRuns /\ Stopping
  BY TypeParts DEF PInv, PoolType
<1>1. /\ t \notin offered /\ offered' = offered \cup {t}
      /\ UNCHANGED <<worker, taken, dropped>>
  BY DEF Post
<1> DEFINE q == pool.tasks
<1>2. CASE SubmitStatus(pool) = "Accepted"
  <2>1. /\ pool.state = "Running" /\ Len(q) < MaximumPendingTasks
        /\ accepted' = Append(accepted, t) /\ pool' = [pool EXCEPT !.tasks = Append(q, t)]
    BY <1>0, <1>2, PoolOptionsAreValid DEF Post, SubmitStatus, Submitted
  <2>2. /\ Append(q, t) \in Seq(Tasks) /\ Len(Append(q, t)) <= MaximumPendingTasks
        /\ accepted' \in Seq(Tasks)
    BY <1>0, <2>1, AppendSeq, PoolOptionsAreValid
  <2>3. /\ pool' \in PoolType /\ pool'.tasks = Append(q, t)
        /\ pool'.state = "Running" /\ pool'.stop_mode = pool.stop_mode
        /\ pool'.live_workers = pool.live_workers
    BY <1>0, <2>1, <2>2 DEF PoolType
  <2>4. dropped = {}
    BY <1>0, <2>1 DEF Stopping
  <2>5. Placed'
    <3>1. PlacedOf(offered, accepted, taken, q, dropped) /\ q \in Seq(Tasks)
      BY <1>0 DEF Placed
    <3> HIDE DEF q
    <3>2. PlacedOf(offered \cup {t}, Append(accepted, t), taken, Append(q, t), dropped)
      BY <1>0, <1>1, <2>4, <3>1, AcceptPlaces
    <3> QED BY <1>1, <2>1, <2>3, <3>2 DEF Placed
  <2>6. OneRuns'
    BY <1>0, <1>1 DEF OneRuns
  <2>7. Stopping'
    BY <1>0, <1>1, <2>1, <2>3, <2>4 DEF Stopping, Live
  <2>8. TypeOK'
    BY <1>0, <1>1, <2>2, <2>3 DEF TypeOK, PoolType
  <2> QED BY <2>3, <2>5, <2>6, <2>7, <2>8 DEF PInv
<1>3. CASE SubmitStatus(pool) # "Accepted"
  <2>1. UNCHANGED <<pool, accepted>>
    BY <1>3 DEF Post, Submitted
  <2>2. Placed'
    BY <1>0, <1>1, <2>1 DEF Placed, PlacedOf
  <2>3. OneRuns' /\ Stopping'
    BY <1>0, <1>1, <2>1 DEF OneRuns, Stopping, Live
  <2>4. TypeOK'
    BY <1>0, <1>1, <2>1 DEF TypeOK, PoolType
  <2> QED BY <1>0, <2>1, <2>2, <2>3, <2>4 DEF PInv
<1> QED BY <1>2, <1>3

\* What Stop does to a pool whose threads have not all left.
LEMMA StopLockedPool ==
    ASSUME PoolTasksAreValid, PInv, NEW mode \in StopModes, Stop(mode)
    PROVE  /\ pool' \in PoolType /\ pool'.state = "Stopping"
           /\ pool.live_workers # 0 /\ pool'.live_workers = pool.live_workers
           /\ \/ /\ pool'.stop_mode = "CancelPending" /\ pool'.tasks = <<>>
                 /\ dropped' = dropped \cup {pool.tasks[i] : i \in DOMAIN pool.tasks}
              \/ /\ pool'.stop_mode = "Drain" /\ pool'.tasks = pool.tasks
                 /\ dropped' = dropped
                 /\ pool.state = "Running" \/ pool.stop_mode = "Drain"
<1> DEFINE chosen == IF pool.state = "Running" \/ mode = "CancelPending"
                     THEN mode ELSE pool.stop_mode
<1>1. pool \in PoolType /\ pool.state # "Stopped" /\ pool.live_workers # 0
  BY DEF PInv, Stop, Stopping
<1>2. chosen \in StopMode /\ <<>> \in Seq(Tasks)
  BY <1>1 DEF PoolType, PoolTasksAreValid
<1>3. pool' = [pool EXCEPT !.state = "Stopping", !.stop_mode = chosen,
                     !.tasks = IF chosen = "CancelPending" THEN <<>> ELSE pool.tasks]
  BY <1>1 DEF Stop, StopLocked
<1>4. /\ pool' \in PoolType /\ pool'.state = "Stopping" /\ pool'.stop_mode = chosen
      /\ pool'.live_workers = pool.live_workers
      /\ pool'.tasks = IF chosen = "CancelPending" THEN <<>> ELSE pool.tasks
  <2> HIDE DEF chosen
  <2> QED BY <1>1, <1>2, <1>3 DEF PoolType
<1>5. chosen = "Drain" => pool.state = "Running" \/ pool.stop_mode = "Drain"
  OBVIOUS
<1>6. dropped' = IF chosen = "CancelPending"
                 THEN dropped \cup {pool.tasks[i] : i \in DOMAIN pool.tasks} ELSE dropped
  BY <1>4 DEF Stop
<1> QED BY <1>1, <1>2, <1>4, <1>5, <1>6 DEF StopMode

LEMMA StopKeeps ==
    ASSUME PoolTasksAreValid, PInv, NEW mode \in StopModes, Stop(mode) PROVE PInv'
<1>0. /\ pool \in PoolType /\ Len(pool.tasks) <= MaximumPendingTasks
      /\ worker \in [Workers -> Tasks \cup {"waiting", "exited"}]
      /\ offered \subseteq Tasks /\ dropped \subseteq Tasks
      /\ accepted \in Seq(Tasks) /\ taken \in Seq(Tasks)
      /\ pool.tasks \in Seq(Tasks)
      /\ Placed /\ OneRuns /\ Stopping
      /\ UNCHANGED <<worker, offered, accepted, taken>>
  BY TypeParts DEF PInv, PoolType, Stop
<1>1. /\ pool' \in PoolType /\ pool'.state = "Stopping"
      /\ pool.live_workers # 0 /\ pool'.live_workers = pool.live_workers
  BY StopLockedPool
<1>2. CASE /\ pool'.stop_mode = "CancelPending" /\ pool'.tasks = <<>>
           /\ dropped' = dropped \cup {pool.tasks[i] : i \in DOMAIN pool.tasks}
  <2>1. Placed'
    <3> DEFINE q == pool.tasks
    <3>1. PlacedOf(offered, accepted, taken, q, dropped) /\ q \in Seq(Tasks)
      BY <1>0 DEF Placed
    <3> HIDE DEF q
    <3>2. PlacedOf(offered, accepted, taken, <<>>, dropped \cup {q[i] : i \in DOMAIN q})
      BY <1>0, <3>1, DropPlaces
    <3> QED BY <1>0, <1>2, <3>2 DEF Placed, q
  <2>2. OneRuns'
    BY <1>0 DEF OneRuns
  <2>3. Stopping'
    BY <1>0, <1>1, <1>2 DEF Stopping, Live
  <2>4. dropped' \subseteq Tasks /\ Len(<<>>) <= MaximumPendingTasks
    BY <1>0, <1>2, PoolOptionsAreValid
  <2>5. TypeOK'
    BY <1>0, <1>1, <1>2, <2>4 DEF TypeOK, PoolType
  <2> QED BY <1>1, <2>1, <2>2, <2>3, <2>5 DEF PInv
<1>3. CASE /\ pool'.stop_mode = "Drain" /\ pool'.tasks = pool.tasks
           /\ dropped' = dropped
           /\ pool.state = "Running" \/ pool.stop_mode = "Drain"
  <2>1. Placed' /\ OneRuns'
    BY <1>0, <1>3 DEF Placed, OneRuns
  <2>2. dropped = {}
    BY <1>0, <1>3 DEF Stopping
  <2>3. Stopping'
    BY <1>0, <1>1, <1>3, <2>2 DEF Stopping, Live
  <2>4. TypeOK'
    BY <1>0, <1>1, <1>3 DEF TypeOK, PoolType
  <2> QED BY <1>1, <2>1, <2>3, <2>4 DEF PInv
<1> QED BY <1>2, <1>3, StopLockedPool

\* A thread that has not left and does not leave.
LEMMA LiveStays ==
    ASSUME worker \in [Workers -> Tasks \cup {"waiting", "exited"}], NEW w \in Workers,
           NEW z, z # "exited", worker[w] # "exited", worker' = [worker EXCEPT ![w] = z]
    PROVE  Live' = Live
BY DEF Live

LEMMA TakeKeeps ==
    ASSUME PoolTasksAreValid, PInv, NEW w \in Workers, Take(w) PROVE PInv'
<1> DEFINE q == pool.tasks
           h == Head(q)
<1>0. /\ pool \in PoolType /\ Len(q) <= MaximumPendingTasks
      /\ worker \in [Workers -> Tasks \cup {"waiting", "exited"}]
      /\ offered \subseteq Tasks /\ dropped \subseteq Tasks
      /\ accepted \in Seq(Tasks) /\ taken \in Seq(Tasks) /\ q \in Seq(Tasks)
      /\ Placed /\ OneRuns /\ Stopping
  BY TypeParts DEF PInv, PoolType
<1>1. /\ worker[w] = "waiting" /\ q # <<>>
      /\ pool.state = "Running" \/ pool.stop_mode = "Drain"
      /\ worker' = [worker EXCEPT ![w] = h] /\ pool' = [pool EXCEPT !.tasks = Tail(q)]
      /\ taken' = Append(taken, h) /\ UNCHANGED <<offered, accepted, dropped>>
  BY DEF Take, WorkerTakes, MayTake
<1>2. /\ h \in Tasks /\ Tail(q) \in Seq(Tasks) /\ Len(Tail(q)) <= MaximumPendingTasks
      /\ h = q[1] /\ 1 \in 1..Len(q) /\ taken' \in Seq(Tasks)
  <2>1. MaximumPendingTasks \in Nat
    BY PoolOptionsAreValid
  <2> HIDE DEF q
  <2> QED BY <1>0, <1>1, <2>1, TailSeq, AppendSeq
<1>3. /\ pool' \in PoolType /\ pool'.tasks = Tail(q) /\ pool'.state = pool.state
      /\ pool'.stop_mode = pool.stop_mode /\ pool'.live_workers = pool.live_workers
  <2> HIDE DEF q
  <2> QED BY <1>0, <1>1, <1>2 DEF PoolType
<1>4. Placed'
  <2>1. PlacedOf(offered, accepted, taken, q, dropped)
    BY <1>0 DEF Placed
  <2>2. PlacedOf(offered, accepted, Append(taken, Head(q)), Tail(q), dropped)
    <3> HIDE DEF q
    <3> QED BY <1>0, <1>1, <2>1, TakePlaces
  <2> QED BY <1>1, <1>3, <2>2 DEF Placed
<1>5. \A i \in 1..Len(taken) : taken[i] # h
  <2> SUFFICES ASSUME NEW i \in 1..Len(taken), taken[i] = h PROVE FALSE
    OBVIOUS
  <2>1. /\ Len(taken) \in Nat /\ Len(accepted) \in Nat /\ Len(q) \in Nat
    BY <1>0
  <2>2. accepted[i] = accepted[Len(taken) + 1]
    BY <1>0, <1>2 DEF Placed, PlacedOf
  <2>3. i \in 1..Len(accepted) /\ Len(taken) + 1 \in 1..Len(accepted)
    <3>1. Len(taken) + Len(q) <= Len(accepted)
      BY <1>0 DEF Placed, PlacedOf
    <3> HIDE DEF q
    <3> QED BY <1>2, <2>1, <3>1
  <2>4. i = Len(taken) + 1
    BY <1>0, <2>2, <2>3 DEF Placed, PlacedOf
  <2> QED BY <2>1, <2>4
<1> HIDE DEF h, q
<1>6. OneRuns'
  <2>1. /\ Len(taken') = Len(taken) + 1 /\ Len(taken) \in Nat
        /\ \A i \in 1..Len(taken) : taken'[i] = taken[i]
        /\ taken'[Len(taken) + 1] = h
    BY <1>0, <1>1, <1>2, AppendSeq
  <2>2. Len(taken) + 1 \in 1..Len(taken') /\ 1..Len(taken) \subseteq 1..Len(taken')
    BY <2>1
  <2>3. \A v \in Workers : worker'[v] = IF v = w THEN h ELSE worker[v]
    BY <1>0, <1>1
  <2>4. \A v \in Workers : worker[v] # h
    BY <1>0, <1>2, <1>5 DEF OneRuns
  <2>5. \A v \in Workers : worker'[v] \in Tasks =>
            \E i \in 1..Len(taken') : taken'[i] = worker'[v]
    BY <1>0, <2>1, <2>2, <2>3 DEF OneRuns
  <2>6. \A u, v \in Workers : worker'[u] = worker'[v] /\ worker'[u] \in Tasks => u = v
    BY <1>0, <2>3, <2>4 DEF OneRuns
  <2> QED BY <2>5, <2>6 DEF OneRuns
<1>7. Stopping'
  <2>1. Live' = Live
    BY <1>0, <1>1, <1>2, LiveStays DEF PoolTasksAreValid
  <2>2. pool.state # "Stopped" /\ ~(pool.state # "Running" /\ pool.stop_mode = "CancelPending")
    BY <1>0, <1>1 DEF Stopping, q
  <2> QED BY <1>0, <1>1, <1>3, <2>1, <2>2 DEF Stopping
<1>8. TypeOK'
  BY <1>0, <1>1, <1>2, <1>3 DEF TypeOK, PoolType
<1> QED BY <1>3, <1>4, <1>6, <1>7, <1>8 DEF PInv

LEMMA FinishKeeps ==
    ASSUME PoolTasksAreValid, PInv, NEW w \in Workers, Finish(w) PROVE PInv'
<1>0. /\ worker \in [Workers -> Tasks \cup {"waiting", "exited"}]
      /\ Placed /\ OneRuns /\ Stopping /\ TypeOK /\ pool \in PoolType
  BY TypeParts DEF PInv
<1>1. /\ worker[w] \in Tasks /\ worker' = [worker EXCEPT ![w] = "waiting"]
      /\ UNCHANGED <<pool, offered, accepted, taken, dropped>>
  BY DEF Finish, Release
<1>2. \A v \in Workers : worker'[v] = IF v = w THEN "waiting" ELSE worker[v]
  BY <1>0, <1>1
<1>3. OneRuns'
  BY <1>0, <1>1, <1>2 DEF OneRuns, PoolTasksAreValid
<1>4. Live' = Live
  BY <1>0, <1>1, LiveStays DEF PoolTasksAreValid
<1>5. Stopping' /\ Placed'
  BY <1>0, <1>1, <1>4 DEF Stopping, Placed
<1>6. TypeOK'
  BY <1>0, <1>1 DEF TypeOK
<1> QED BY <1>0, <1>1, <1>3, <1>5, <1>6 DEF PInv

\* A thread leaves; the last one finds nothing waiting.
LEMMA ExitKeeps ==
    ASSUME PoolTasksAreValid, PInv, NEW w \in Workers, Exit(w)
    PROVE  /\ PInv' /\ UNCHANGED <<offered, accepted, taken, dropped>>
           /\ pool'.tasks = pool.tasks /\ pool'.stop_mode = pool.stop_mode
           /\ pool.state = "Stopping"
           /\ pool'.state = "Stopping" \/ pool'.state = "Stopped"
           /\ \A v \in Workers : worker'[v] \in Tasks <=> worker[v] \in Tasks
           /\ \A v \in Workers : worker[v] \in Tasks => worker'[v] = worker[v]
<1> DEFINE live == pool.live_workers - 1
<1>0. /\ pool \in PoolType /\ Len(pool.tasks) <= MaximumPendingTasks
      /\ worker \in [Workers -> Tasks \cup {"waiting", "exited"}]
      /\ offered \subseteq Tasks /\ dropped \subseteq Tasks
      /\ accepted \in Seq(Tasks) /\ taken \in Seq(Tasks)
      /\ Placed /\ OneRuns /\ Stopping
  BY TypeParts DEF PInv
<1>1. /\ worker[w] = "waiting" /\ worker' = [worker EXCEPT ![w] = "exited"]
      /\ pool.state # "Running" /\ ~MayTake(pool)
      /\ UNCHANGED <<offered, accepted, taken, dropped>>
  BY DEF Exit, WorkerExits, MayExit
<1>2. pool.tasks = <<>>
  BY <1>0, <1>1 DEF MayTake, Stopping, PoolType, StopMode
<1>3. w \in Live /\ Live' = Live \ {w}
  BY <1>0, <1>1 DEF Live
<1>4. Cardinality(Live') = Cardinality(Live) - 1 /\ pool.live_workers = Cardinality(Live)
  BY <1>0, <1>3, LiveIsFinite, FS_RemoveElement DEF Stopping
<1>5. /\ pool.live_workers \in 1..Cardinality(Workers)
      /\ live \in 0..Cardinality(Workers) /\ live = Cardinality(Live')
      /\ Cardinality(Workers) \in Nat
  <2>1. Cardinality(Live') \in Nat
    BY <1>3, LiveIsFinite, FS_RemoveElement, FS_CardinalityType
  <2> QED BY <1>4, <2>1, LiveIsFinite
<1>6. pool' = [pool EXCEPT !.live_workers = live,
                           !.state = IF live = 0 THEN "Stopped" ELSE pool.state]
  <2>1. (IF pool.live_workers > 0 THEN pool.live_workers - 1 ELSE 0) = live
    BY <1>5
  <2> HIDE DEF live
  <2> QED BY <2>1 DEF Exit, WorkerExits
<1>7. pool.state = "Stopping"
  BY <1>0, <1>1, <1>5 DEF Stopping, PoolType
<1> HIDE DEF live
<1>8. /\ pool' \in PoolType /\ pool'.live_workers = live /\ pool'.tasks = pool.tasks
      /\ pool'.stop_mode = pool.stop_mode
      /\ pool'.state = IF live = 0 THEN "Stopped" ELSE "Stopping"
  BY <1>0, <1>5, <1>6, <1>7 DEF PoolType
<1>9. \A v \in Workers : worker'[v] = IF v = w THEN "exited" ELSE worker[v]
  BY <1>0, <1>1
<1>10. OneRuns'
  BY <1>0, <1>1, <1>9 DEF OneRuns, PoolTasksAreValid
<1>11. Placed'
  BY <1>0, <1>1, <1>8 DEF Placed
<1>12. Stopping'
  BY <1>0, <1>1, <1>2, <1>5, <1>7, <1>8 DEF Stopping
<1>13. TypeOK'
  BY <1>0, <1>1, <1>8 DEF TypeOK, PoolType
<1>14. /\ \A v \in Workers : worker'[v] \in Tasks <=> worker[v] \in Tasks
       /\ \A v \in Workers : worker[v] \in Tasks => worker'[v] = worker[v]
  BY <1>1, <1>9 DEF PoolTasksAreValid
<1> QED BY <1>1, <1>7, <1>8, <1>10, <1>11, <1>12, <1>13, <1>14 DEF PInv

------------------------------------------------------------------------------
(* The theorems *)

\* PInv holds in every reachable state.
THEOREM PoolInvariance == ASSUME PoolTasksAreValid PROVE Spec => []PInv
<1>1. Init => PInv
  BY InitPInv
<1>2. PInv /\ [Next]_vars => PInv'
  <2> SUFFICES ASSUME PInv, [Next]_vars PROVE PInv'
    OBVIOUS
  <2>1. CASE \E task \in Tasks : Post(task)
    BY <2>1, PostKeeps
  <2>2. CASE \E mode \in StopModes : Stop(mode)
    BY <2>2, StopKeeps
  <2>3. CASE \E w \in Workers : Take(w) \/ Finish(w) \/ Exit(w)
    BY <2>3, TakeKeeps, FinishKeeps, ExitKeeps
  <2>4. CASE UNCHANGED vars
    BY <2>4 DEF vars, PInv, PoolType, TypeOK, Placed, OneRuns, Stopping, Live
  <2> QED BY <2>1, <2>2, <2>3, <2>4 DEF Next
<1> QED BY <1>1, <1>2, PTL DEF Spec

\* What PlacedOf says of the parts of the accepted tasks, put together again.
LEMMA PlacedIsPrefix ==
    ASSUME NEW S, NEW a \in Seq(S), NEW k \in Seq(S), NEW q \in Seq(S), NEW o, NEW d,
           PlacedOf(o, a, k, q, d)
    PROVE  /\ Len(k \o q) <= Len(a) /\ k \o q = SubSeq(a, 1, Len(k \o q))
           /\ d = {a[i] : i \in Len(k \o q) + 1..Len(a)}
<1> DEFINE r == k \o q
           p == SubSeq(a, 1, Len(r))
<1>1. /\ Len(a) \in Nat /\ Len(k) \in Nat /\ Len(q) \in Nat /\ r \in Seq(S)
      /\ Len(r) = Len(k) + Len(q)
  OBVIOUS
<1>2. Len(r) <= Len(a)
  BY <1>1 DEF PlacedOf
<1>3. p \in Seq(S) /\ Len(p) = Len(r) /\ \A i \in 1..Len(r) : p[i] = a[i]
  <2> HIDE DEF r
  <2> QED BY <1>1, <1>2
<1>4. \A i \in 1..Len(r) : r[i] = a[i]
  <2> SUFFICES ASSUME NEW i \in 1..Len(r) PROVE r[i] = a[i]
    OBVIOUS
  <2>1. CASE i <= Len(k)
    <3>1. r[i] = k[i] /\ i \in 1..Len(k)
      BY <1>1, <2>1
    <3> QED BY <3>1 DEF PlacedOf
  <2>2. CASE i > Len(k)
    <3>1. /\ r[i] = q[i - Len(k)] /\ i - Len(k) \in 1..Len(q)
          /\ Len(k) + (i - Len(k)) = i
      BY <1>1, <2>2
    <3>2. q[i - Len(k)] = a[Len(k) + (i - Len(k))]
      BY <3>1 DEF PlacedOf
    <3> QED BY <3>1, <3>2
  <2> QED BY <1>1, <2>1, <2>2
<1> HIDE DEF r, p
<1>5. r = p
  BY <1>1, <1>3, <1>4
<1>6. d = {a[i] : i \in Len(r) + 1..Len(a)}
  BY <1>1 DEF PlacedOf
<1> QED BY <1>2, <1>5, <1>6 DEF r, p

\* ThreadPoolExecutor: an accepted task runs exactly once, in the order of
\* acceptance, unless CancelPending dropped it, whichever threads take the
\* tasks and however often Stop is called.
THEOREM PoolRunsAcceptedOnce ==
    ASSUME PoolTasksAreValid PROVE Spec => []AcceptedRunsOnce
<1>1. PInv => AcceptedRunsOnce
  <2> SUFFICES ASSUME PInv PROVE AcceptedRunsOnce
    OBVIOUS
  <2> DEFINE q == pool.tasks
             kept == taken \o q
  <2>1. /\ PlacedOf(offered, accepted, taken, q, dropped) /\ TypeOK
        /\ accepted \in Seq(Tasks) /\ taken \in Seq(Tasks) /\ q \in Seq(Tasks)
    BY DEF PInv, Placed, TypeOK
  <2>2. /\ Len(kept) <= Len(accepted) /\ kept = SubSeq(accepted, 1, Len(kept))
        /\ dropped = {accepted[i] : i \in Len(kept) + 1..Len(accepted)}
    <3> HIDE DEF q
    <3> QED BY <2>1, PlacedIsPrefix
  <2>3. DOMAIN accepted = 1..Len(accepted)
    BY <2>1
  <2>4. \A i, j \in DOMAIN accepted : accepted[i] = accepted[j] => i = j
    BY <2>1, <2>3 DEF PlacedOf
  <2>5. dropped # {} => pool.stop_mode = "CancelPending"
    BY DEF PInv, Stopping
  <2> HIDE DEF kept
  <2> QED BY <2>1, <2>2, <2>4, <2>5 DEF AcceptedRunsOnce, kept
<1> QED BY <1>1, PoolInvariance, PTL

\* ThreadPoolContext: Stopped, which the last thread out of WorkerMain reports,
\* means that every thread has left and nothing waits in the queue.
THEOREM PoolStopsQuietly == ASSUME PoolTasksAreValid PROVE Spec => []StoppedIsQuiet
<1>1. PInv => StoppedIsQuiet
  <2> SUFFICES ASSUME PInv, pool.state = "Stopped"
               PROVE  pool.tasks = <<>> /\ \A w \in Workers : worker[w] = "exited"
    BY DEF StoppedIsQuiet
  <2>1. pool.tasks = <<>> /\ Cardinality(Live) = 0
    BY DEF PInv, Stopping
  <2>2. Live = {}
    BY <2>1, LiveIsFinite, FS_EmptySet
  <2> QED BY <2>1, <2>2 DEF Live
<1> QED BY <1>1, PoolInvariance, PTL

------------------------------------------------------------------------------
(* The refinement of ExecutorContract *)

Statuses == [t \in Tasks |-> Status(t)]

\* Every accepted task is in exactly one of its three places.
LEMMA PlacedApart ==
    ASSUME NEW S, NEW a \in Seq(S), NEW k \in Seq(S), NEW q \in Seq(S), NEW o, NEW d,
           PlacedOf(o, a, k, q, d)
    PROVE  /\ Elements(a) = Elements(k) \cup Elements(q) \cup d
           /\ Elements(k) \cap Elements(q) = {} /\ Elements(k) \cap d = {}
           /\ Elements(q) \cap d = {} /\ Elements(a) \subseteq o
<1>1. /\ Len(a) \in Nat /\ Len(k) \in Nat /\ Len(q) \in Nat
      /\ DOMAIN a = 1..Len(a) /\ DOMAIN k = 1..Len(k) /\ DOMAIN q = 1..Len(q)
      /\ Len(k) + Len(q) <= Len(a)
  BY DEF PlacedOf
<1>2. \A x \in Elements(k) : \E i \in 1..Len(a) : a[i] = x /\ i <= Len(k)
  <2> SUFFICES ASSUME NEW x \in Elements(k)
               PROVE  \E i \in 1..Len(a) : a[i] = x /\ i <= Len(k)
    OBVIOUS
  <2>1. PICK i \in 1..Len(k) : k[i] = x
    BY <1>1 DEF Elements
  <2>2. i \in 1..Len(a) /\ i <= Len(k)
    BY <1>1
  <2> QED BY <2>1, <2>2 DEF PlacedOf
<1>3. \A x \in Elements(q) :
          \E i \in 1..Len(a) : a[i] = x /\ i > Len(k) /\ i <= Len(k) + Len(q)
  <2> SUFFICES ASSUME NEW x \in Elements(q)
               PROVE  \E i \in 1..Len(a) :
                          a[i] = x /\ i > Len(k) /\ i <= Len(k) + Len(q)
    OBVIOUS
  <2>1. PICK i \in 1..Len(q) : q[i] = x
    BY <1>1 DEF Elements
  <2>2. Len(k) + i \in 1..Len(a) /\ Len(k) + i > Len(k) /\ Len(k) + i <= Len(k) + Len(q)
    BY <1>1
  <2>3. a[Len(k) + i] = x
    BY <2>1 DEF PlacedOf
  <2> QED BY <2>2, <2>3
<1>4. \A x \in d : \E i \in 1..Len(a) : a[i] = x /\ i > Len(k) + Len(q)
  <2> SUFFICES ASSUME NEW x \in d
               PROVE  \E i \in 1..Len(a) : a[i] = x /\ i > Len(k) + Len(q)
    OBVIOUS
  <2>1. PICK i \in Len(k) + Len(q) + 1..Len(a) : a[i] = x
    BY DEF PlacedOf
  <2>2. i \in 1..Len(a) /\ i > Len(k) + Len(q)
    BY <1>1
  <2> QED BY <2>1, <2>2
<1>5. \A i, j \in 1..Len(a) : a[i] = a[j] => i = j
  BY DEF PlacedOf
<1>6. Elements(k) \cap Elements(q) = {}
  <2> SUFFICES ASSUME NEW x \in Elements(k), x \in Elements(q) PROVE FALSE
    OBVIOUS
  <2>1. PICK i \in 1..Len(a) : a[i] = x /\ i <= Len(k)
    BY <1>2
  <2>2. PICK j \in 1..Len(a) : a[j] = x /\ j > Len(k)
    BY <1>3
  <2> QED BY <1>1, <1>5, <2>1, <2>2
<1>7. d \cap (Elements(k) \cup Elements(q)) = {}
  <2> SUFFICES ASSUME NEW x \in d, x \in Elements(k) \cup Elements(q) PROVE FALSE
    OBVIOUS
  <2>1. PICK i \in 1..Len(a) : a[i] = x /\ i <= Len(k) + Len(q)
    BY <1>1, <1>2, <1>3
  <2>2. PICK j \in 1..Len(a) : a[j] = x /\ j > Len(k) + Len(q)
    BY <1>4
  <2> QED BY <1>1, <1>5, <2>1, <2>2
<1>8. ASSUME NEW i \in 1..Len(a) PROVE a[i] \in Elements(k) \cup Elements(q) \cup d
  <2>1. CASE i <= Len(k)
    <3>1. i \in 1..Len(k)
      BY <1>1, <2>1
    <3>2. k[i] = a[i]
      BY <3>1 DEF PlacedOf
    <3> QED BY <1>1, <3>1, <3>2 DEF Elements
  <2>2. CASE i > Len(k) /\ i <= Len(k) + Len(q)
    <3>1. i - Len(k) \in 1..Len(q) /\ Len(k) + (i - Len(k)) = i
      BY <1>1, <2>2
    <3>2. q[i - Len(k)] = a[i]
      BY <3>1 DEF PlacedOf
    <3> QED BY <1>1, <3>1, <3>2 DEF Elements
  <2>3. CASE i > Len(k) + Len(q)
    <3>1. i \in Len(k) + Len(q) + 1..Len(a)
      BY <1>1, <2>3
    <3> QED BY <3>1 DEF PlacedOf
  <2> QED BY <1>1, <2>1, <2>2, <2>3
<1>9. Elements(a) \subseteq Elements(k) \cup Elements(q) \cup d
  BY <1>1, <1>8 DEF Elements
<1>10. Elements(k) \cup Elements(q) \cup d \subseteq Elements(a)
  BY <1>1, <1>2, <1>3, <1>4 DEF Elements
<1>11. Elements(a) \subseteq o
  BY <1>1 DEF Elements, PlacedOf
<1> QED BY <1>6, <1>7, <1>9, <1>10, <1>11

\* The places of the tasks of the pool.
LEMMA Places ==
    ASSUME PInv
    PROVE  /\ Elements(accepted) = Elements(taken) \cup Elements(pool.tasks) \cup dropped
           /\ Elements(taken) \cap Elements(pool.tasks) = {}
           /\ Elements(taken) \cap dropped = {} /\ Elements(pool.tasks) \cap dropped = {}
           /\ Elements(accepted) \subseteq offered
           /\ \A w \in Workers : worker[w] \in Tasks => worker[w] \in Elements(taken)
<1> DEFINE q == pool.tasks
<1>1. /\ PlacedOf(offered, accepted, taken, q, dropped) /\ OneRuns
      /\ accepted \in Seq(Tasks) /\ taken \in Seq(Tasks) /\ q \in Seq(Tasks)
  BY DEF PInv, Placed, TypeOK
<1>2. \A w \in Workers : worker[w] \in Tasks => worker[w] \in Elements(taken)
  BY <1>1 DEF OneRuns, Elements
<1> HIDE DEF q
<1>3. /\ Elements(accepted) = Elements(taken) \cup Elements(q) \cup dropped
      /\ Elements(taken) \cap Elements(q) = {} /\ Elements(taken) \cap dropped = {}
      /\ Elements(q) \cap dropped = {} /\ Elements(accepted) \subseteq offered
  BY <1>1, PlacedApart
<1> QED BY <1>2, <1>3 DEF q

LEMMA ElementsAppend ==
    ASSUME NEW S, NEW a \in Seq(S), NEW x \in S
    PROVE  Elements(Append(a, x)) = Elements(a) \cup {x}
<1> DEFINE b == Append(a, x)
<1>1. /\ DOMAIN b = 1..Len(a) + 1 /\ DOMAIN a = 1..Len(a) /\ Len(a) \in Nat
      /\ \A i \in 1..Len(a) : b[i] = a[i]
      /\ b[Len(a) + 1] = x
  BY AppendSeq
<1>2. \A i \in 1..Len(a) + 1 : i \in 1..Len(a) \/ i = Len(a) + 1
  BY <1>1
<1>3. 1..Len(a) \subseteq 1..Len(a) + 1 /\ Len(a) + 1 \in 1..Len(a) + 1
  BY <1>1
<1> HIDE DEF b
<1> QED BY <1>1, <1>2, <1>3 DEF Elements, b

\* Only one task has moved.
LEMMA OneStatusMoves ==
    ASSUME NEW t \in Tasks, \A u \in Tasks \ {t} : Status(u)' = Status(u)
    PROVE  Statuses' = [Statuses EXCEPT ![t] = Status(t)'] /\ Statuses[t] = Status(t)
BY DEF Statuses

LEMMA PostImplements ==
    ASSUME PInv, NEW t \in Tasks, Post(t) PROVE Contract!Admit(t) \/ UNCHANGED Contract!vars
<1>1. /\ t \notin offered /\ UNCHANGED <<worker, taken, dropped>>
      /\ accepted \in Seq(Tasks) /\ pool \in PoolType
  BY DEF Post, PInv, TypeOK
<1>2. CASE SubmitStatus(pool) = "Accepted"
  <2>1. /\ pool.state = "Running" /\ accepted' = Append(accepted, t)
        /\ pool' = [pool EXCEPT !.tasks = Append(pool.tasks, t)]
    BY <1>2 DEF Post, SubmitStatus, Submitted
  <2>2. pool'.state = pool.state /\ pool'.stop_mode = pool.stop_mode
    BY <1>1, <2>1 DEF PoolType
  <2>3. Elements(accepted') = Elements(accepted) \cup {t}
    BY <1>1, <2>1, ElementsAppend
  <2>4. /\ t \notin Elements(accepted) /\ t \notin Elements(taken) /\ t \notin dropped
    BY <1>1, Places
  <2>5. Status(t) = "new" /\ Status(t)' = "accepted"
    BY <1>1, <2>3, <2>4 DEF Status
  <2>6. \A u \in Tasks \ {t} : Status(u)' = Status(u)
    BY <1>1, <2>3 DEF Status
  <2>7. Statuses' = [Statuses EXCEPT ![t] = "accepted"] /\ Statuses[t] = "new"
    BY <2>5, <2>6, OneStatusMoves
  <2> QED BY <2>1, <2>2, <2>7 DEF Contract!Admit, Statuses
<1>3. CASE SubmitStatus(pool) # "Accepted"
  <2>1. UNCHANGED <<pool, accepted>>
    BY <1>3 DEF Post, Submitted
  <2> QED BY <1>1, <2>1 DEF Contract!vars, Status
<1> QED BY <1>2, <1>3

LEMMA StopImplements ==
    ASSUME PoolTasksAreValid, PInv, NEW m \in StopModes, Stop(m) PROVE Contract!Stop
<1>1. /\ pool.state # "Stopped" /\ pool \in PoolType /\ pool' \in PoolType
      /\ pool'.state = "Stopping" /\ UNCHANGED <<worker, offered, accepted, taken>>
  BY StopLockedPool DEF Stop, PInv
<1>2. /\ Contract!StopMoves /\ pool'.stop_mode \in {"Drain", "CancelPending"}
      /\ \/ pool'.stop_mode = pool.stop_mode \/ pool'.stop_mode = "CancelPending"
         \/ pool.state = "Running"
  BY <1>1, StopLockedPool DEF Contract!StopMoves
<1> DEFINE gone == IF pool'.stop_mode = "CancelPending" THEN Elements(pool.tasks) ELSE {}
<1>3. dropped' = dropped \cup gone /\ (gone # {} => pool'.stop_mode = "CancelPending")
  BY StopLockedPool DEF Elements
<1>4. gone \subseteq Elements(pool.tasks) /\ gone \subseteq Tasks
  <2>1. pool.tasks \in Seq(Tasks)
    BY <1>1 DEF PoolType
  <2> QED BY <2>1 DEF Elements
<1> HIDE DEF gone
<1>5. \A t \in gone : Status(t) = "accepted" /\ Status(t)' = "dropped"
  <2> SUFFICES ASSUME NEW t \in gone PROVE Status(t) = "accepted" /\ Status(t)' = "dropped"
    OBVIOUS
  <2>1. t \notin Elements(taken) /\ t \notin dropped /\ t \in Elements(accepted)
    BY <1>4, Places
  <2> QED BY <1>1, <1>3, <2>1 DEF Status
<1>6. \A t \in Tasks \ gone : Status(t)' = Status(t)
  BY <1>1, <1>3 DEF Status
<1>7. /\ gone \in SUBSET {t \in Tasks : Statuses[t] = "accepted"}
      /\ Statuses' = [t \in Tasks |-> IF t \in gone THEN "dropped" ELSE Statuses[t]]
  BY <1>4, <1>5, <1>6 DEF Statuses
<1>8. \E given_up \in SUBSET {t \in Tasks : Statuses[t] = "accepted"} :
        /\ given_up # {} => pool'.stop_mode = "CancelPending"
        /\ Statuses' = [t \in Tasks |->
                           IF t \in given_up THEN "dropped" ELSE Statuses[t]]
  BY <1>3, <1>7
<1> QED BY <1>1, <1>2, <1>8 DEF Contract!Stop, Statuses

LEMMA TakeImplements ==
    ASSUME PoolTasksAreValid, PInv, NEW w \in Workers, Take(w)
    PROVE  \E t \in Tasks : Contract!Begin(t)
<1>0. /\ pool \in PoolType /\ pool.tasks \in Seq(Tasks) /\ taken \in Seq(Tasks)
      /\ worker \in [Workers -> Tasks \cup {"waiting", "exited"}]
  BY DEF PInv, TypeOK, PoolType
<1>1. /\ pool.tasks # <<>> /\ worker[w] = "waiting"
      /\ worker' = [worker EXCEPT ![w] = Head(pool.tasks)]
      /\ pool' = [pool EXCEPT !.tasks = Tail(pool.tasks)]
      /\ taken' = Append(taken, Head(pool.tasks)) /\ UNCHANGED <<accepted, dropped>>
  BY DEF Take, WorkerTakes, MayTake
<1>2. PICK t \in Tasks : t = Head(pool.tasks) /\ t \in Elements(pool.tasks)
  <2>1. /\ Head(pool.tasks) \in Tasks /\ 1 \in DOMAIN pool.tasks
        /\ Head(pool.tasks) = pool.tasks[1]
    BY <1>0, <1>1
  <2> QED BY <2>1 DEF Elements
<1>3. Elements(taken') = Elements(taken) \cup {t} /\ worker' = [worker EXCEPT ![w] = t]
  BY <1>0, <1>1, <1>2, ElementsAppend
<1>4. t \notin Elements(taken) /\ t \notin dropped /\ t \in Elements(accepted)
  BY <1>2, Places
<1>5. \A v \in Workers : worker'[v] = IF v = w THEN t ELSE worker[v]
  BY <1>0, <1>3
<1>6. Status(t) = "accepted" /\ Status(t)' = "running"
  BY <1>3, <1>4, <1>5 DEF Status
<1>7. \A u \in Tasks \ {t} : Status(u)' = Status(u)
  <2> SUFFICES ASSUME NEW u \in Tasks \ {t} PROVE Status(u)' = Status(u)
    OBVIOUS
  <2>1. (\E v \in Workers : worker'[v] = u) <=> (\E v \in Workers : worker[v] = u)
    BY <1>1, <1>5 DEF PoolTasksAreValid
  <2> QED BY <1>1, <1>3, <2>1 DEF Status
<1>8. Statuses' = [Statuses EXCEPT ![t] = "running"] /\ Statuses[t] = "accepted"
  BY <1>6, <1>7, OneStatusMoves
<1>9. pool'.state = pool.state /\ pool'.stop_mode = pool.stop_mode
  BY <1>0, <1>1 DEF PoolType
<1> QED BY <1>8, <1>9 DEF Contract!Begin, Statuses

LEMMA FinishImplements ==
    ASSUME PoolTasksAreValid, PInv, NEW w \in Workers, Finish(w)
    PROVE  \E t \in Tasks : Contract!Return(t)
<1>1. PICK t \in Tasks : t = worker[w]
  BY DEF Finish
<1>2. /\ worker' = [worker EXCEPT ![w] = "waiting"]
      /\ UNCHANGED <<pool, accepted, taken, dropped>>
      /\ worker \in [Workers -> Tasks \cup {"waiting", "exited"}] /\ OneRuns
  BY DEF Finish, Release, PInv, TypeOK
<1>3. \A v \in Workers : worker'[v] = IF v = w THEN "waiting" ELSE worker[v]
  BY <1>2
<1>4. t \in Elements(taken) /\ \A v \in Workers : worker[v] = t => v = w
  BY <1>1, <1>2, Places DEF OneRuns
<1>5. Status(t) = "running" /\ Status(t)' = "done"
  BY <1>1, <1>2, <1>3, <1>4 DEF Status, PoolTasksAreValid
<1>6. \A u \in Tasks \ {t} : Status(u)' = Status(u)
  <2> SUFFICES ASSUME NEW u \in Tasks \ {t} PROVE Status(u)' = Status(u)
    OBVIOUS
  <2>1. (\E v \in Workers : worker'[v] = u) <=> (\E v \in Workers : worker[v] = u)
    BY <1>1, <1>3 DEF PoolTasksAreValid
  <2> QED BY <1>2, <2>1 DEF Status
<1>7. Statuses' = [Statuses EXCEPT ![t] = "done"] /\ Statuses[t] = "running"
  BY <1>5, <1>6, OneStatusMoves
<1> QED BY <1>2, <1>7 DEF Contract!Return, Statuses

\* A Stopped pool has no task under way.
LEMMA StoppedContractAfter ==
    ASSUME PoolTasksAreValid, PInv', pool'.state = "Stopped"
    PROVE  Contract!Quiet(Statuses')
<1>1. pool'.tasks = <<>> /\ Cardinality(Live') = 0 /\ PInv'
  BY DEF PInv, Stopping
<1>2. Live' = {}
  <2>1. IsFiniteSet(Live')
    BY PoolOptionsAreValid, FS_Subset DEF Live
  <2> QED BY <1>1, <2>1, FS_EmptySet
<1>3. \A w \in Workers : worker'[w] = "exited"
  BY <1>2 DEF Live
<1>4. Elements(accepted') = Elements(taken') \cup dropped'
  <2> DEFINE q == pool'.tasks
             k == taken'
             a == accepted'
             d == dropped'
             o == offered'
  <2>1. PlacedOf(o, a, k, q, d) /\ a \in Seq(Tasks) /\ k \in Seq(Tasks) /\ q \in Seq(Tasks)
    BY DEF PInv, Placed, TypeOK
  <2>2. q = <<>>
    BY <1>1
  <2> HIDE DEF q, k, a, d, o
  <2>3. Elements(a) = Elements(k) \cup Elements(q) \cup d
    BY <2>1, PlacedApart
  <2>4. Elements(q) = {}
    BY <2>2 DEF Elements
  <2>5. Elements(a) = Elements(k) \cup d
    BY <2>3, <2>4
  <2> QED BY <2>5 DEF k, a, d
<1>5. \A t \in Tasks : Status(t)' \in {"done", "dropped", "new"}
  BY <1>3, <1>4 DEF Status, PoolTasksAreValid
<1> QED BY <1>5 DEF Contract!Quiet, Statuses

LEMMA ExitImplements ==
    ASSUME PoolTasksAreValid, PInv, NEW w \in Workers, Exit(w)
    PROVE  Contract!Stop \/ UNCHANGED Contract!vars
<1>1. /\ PInv' /\ UNCHANGED <<offered, accepted, taken, dropped>>
      /\ pool'.stop_mode = pool.stop_mode /\ pool.state = "Stopping"
      /\ pool'.state = "Stopping" \/ pool'.state = "Stopped"
      /\ \A v \in Workers : worker'[v] \in Tasks <=> worker[v] \in Tasks
      /\ \A v \in Workers : worker[v] \in Tasks => worker'[v] = worker[v]
  BY ExitKeeps
<1>2. \A u \in Tasks : Status(u)' = Status(u)
  <2> SUFFICES ASSUME NEW u \in Tasks PROVE Status(u)' = Status(u)
    OBVIOUS
  <2>1. (\E v \in Workers : worker'[v] = u) <=> (\E v \in Workers : worker[v] = u)
    BY <1>1
  <2> QED BY <1>1, <2>1 DEF Status
<1>3. Statuses' = Statuses
  BY <1>2 DEF Statuses
<1>4. CASE pool'.state = "Stopping"
  BY <1>1, <1>3, <1>4 DEF Contract!vars, Statuses
<1>5. CASE pool'.state = "Stopped"
  <2>1. Contract!StopMoves /\ pool'.stop_mode \in {"Drain", "CancelPending"}
    BY <1>1, <1>5, StoppedContractAfter
    DEF Contract!StopMoves, Statuses, PInv, PoolType, StopMode
  <2> DEFINE none == {}
  <2>2. /\ none \in SUBSET {t \in Tasks : Statuses[t] = "accepted"} /\ none = {}
        /\ Statuses' = [t \in Tasks |-> IF t \in none THEN "dropped" ELSE Statuses[t]]
    BY <1>3 DEF Statuses
  <2> HIDE DEF none
  <2>3. \E given_up \in SUBSET {t \in Tasks : Statuses[t] = "accepted"} :
          /\ given_up # {} => pool'.stop_mode = "CancelPending"
          /\ Statuses' = [t \in Tasks |->
                             IF t \in given_up THEN "dropped" ELSE Statuses[t]]
    BY <2>2
  <2> QED BY <1>1, <2>1, <2>3 DEF Contract!Stop, Statuses
<1> QED BY <1>1, <1>4, <1>5

\* ThreadPoolExecutor keeps the promise of IExecutor: every step of Post, Stop
\* and the worker loops is a step of the contract or none.
THEOREM RefinesContract == ASSUME PoolTasksAreValid PROVE Spec => Contract!Spec
<1>1. Init => Contract!Init
  <2> SUFFICES ASSUME Init PROVE Contract!Init
    OBVIOUS
  <2>1. Elements(<<>>) = {}
    BY DEF Elements
  <2>2. \A t \in Tasks : Status(t) = "new"
    BY <2>1 DEF Init, Status
  <2> QED BY <2>2 DEF Init, PoolInit, Contract!Init
<1>2. PInv /\ [Next]_vars => [Contract!Next]_(Contract!vars)
  <2> SUFFICES ASSUME PInv, [Next]_vars
               PROVE  Contract!Next \/ UNCHANGED Contract!vars
    OBVIOUS
  <2>1. CASE UNCHANGED vars
    BY <2>1 DEF vars, Contract!vars, Status
  <2>2. CASE \E task \in Tasks : Post(task)
    BY <2>2, PostImplements DEF Contract!Next
  <2>3. CASE \E mode \in StopModes : Stop(mode)
    BY <2>3, StopImplements DEF Contract!Next
  <2>4. CASE \E w \in Workers : Take(w) \/ Finish(w) \/ Exit(w)
    BY <2>4, TakeImplements, FinishImplements, ExitImplements DEF Contract!Next
  <2> QED BY <2>1, <2>2, <2>3, <2>4 DEF Next
<1> QED BY <1>1, <1>2, PoolInvariance, PTL DEF Spec, Contract!Spec
==============================================================================
