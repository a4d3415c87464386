------------------------ MODULE SerialExecutor_proofs -------------------------
(***************************************************************************)
(* Proofs about SerialExecutor, for any number of pool threads, serial     *)
(* executors and tasks.  Nothing in the pool knows that two tasks belong   *)
(* to one serial executor: that no two threads are in its Drain rests on   *)
(* the flag drain_scheduled alone, and the invariant says where the one    *)
(* drain task of a scheduled executor can be.                              *)
(***************************************************************************)
EXTENDS SerialExecutor, FiniteSetTheorems, TLAPS

\* The drain task of s is in the pool's queue once, or on one worker, or (lost
\* to a CancelPending of the pool) nowhere; and nowhere unless it is scheduled.
Placed(s) ==
    /\ \A i, j \in DOMAIN pool.tasks :
           pool.tasks[i] = s /\ pool.tasks[j] = s => i = j
    /\ \A v, w \in Workers : worker[v] = s /\ worker[w] = s => v = w
    /\ \A i \in DOMAIN pool.tasks, w \in Workers :
           ~(pool.tasks[i] = s /\ worker[w] = s)
    /\ ~serial[s].drain_scheduled =>
           /\ \A i \in DOMAIN pool.tasks : pool.tasks[i] # s
           /\ \A w \in Workers : worker[w] # s

\* running counts the task that the worker in Drain executes.
Counted(s) ==
    /\ \A w \in Workers :
           worker[w] = s => serial[s].running = (IF executing[w] = 0 THEN 0 ELSE 1)
    /\ (\A w \in Workers : worker[w] # s) => serial[s].running = 0
    /\ \A i \in DOMAIN serial[s].tasks : serial[s].tasks[i] # 0
    /\ ~serial[s].drain_scheduled => serial[s].tasks = <<>>
    /\ serial[s].state = "Stopped" =>
           serial[s].tasks = <<>> /\ serial[s].running = 0

\* c is a followed by b.
IsConcat(a, b, c) == c = a \o b

\* What began and what waits is what was accepted, until CancelPending drops
\* what waits.
Ordered(s) ==
    /\ serial[s].stop_mode = "Drain" => IsConcat(begun[s], serial[s].tasks, accepted[s])
    /\ serial[s].stop_mode = "CancelPending" =>
           serial[s].tasks = <<>> /\ serial[s].state # "Running"
    /\ Len(begun[s]) <= Len(accepted[s])
    /\ begun[s] = SubSeq(accepted[s], 1, Len(begun[s]))

SInv ==
    /\ TypeOK
    /\ \A w \in Workers : worker[w] \notin Serials => executing[w] = 0
    /\ \A s \in Serials : Placed(s) /\ Counted(s) /\ Ordered(s)

------------------------------------------------------------------------------
(* Sequences *)

LEMMA AppendSeq ==
    ASSUME NEW S, NEW a \in Seq(S), NEW x \in S
    PROVE  /\ Append(a, x) \in Seq(S) /\ Len(Append(a, x)) = Len(a) + 1
           /\ DOMAIN Append(a, x) = 1..Len(a) + 1 /\ DOMAIN a = 1..Len(a)
           /\ \A i \in 1..Len(a) : Append(a, x)[i] = a[i]
           /\ Append(a, x)[Len(a) + 1] = x
           /\ Len(a) \in Nat
OBVIOUS

LEMMA TailSeq ==
    ASSUME NEW S, NEW a \in Seq(S), a # <<>>
    PROVE  /\ Tail(a) \in Seq(S) /\ Len(Tail(a)) = Len(a) - 1 /\ Len(a) \in Nat \ {0}
           /\ DOMAIN Tail(a) = 1..(Len(a) - 1) /\ DOMAIN a = 1..Len(a)
           /\ \A i \in 1..(Len(a) - 1) : Tail(a)[i] = a[i + 1]
           /\ Head(a) \in S /\ Head(a) = a[1]
OBVIOUS

\* What is appended to the second part is appended to the whole.
LEMMA ConcatAppend ==
    ASSUME NEW S, NEW a \in Seq(S), NEW b \in Seq(S), NEW c, NEW x \in S,
           IsConcat(a, b, c)
    PROVE  IsConcat(a, Append(b, x), Append(c, x))
<1> DEFINE l == a \o Append(b, x)
           r == Append(a \o b, x)
<1>1. l \in Seq(S) /\ r \in Seq(S) /\ Len(l) = Len(r)
  OBVIOUS
<1>2. \A i \in 1..Len(l) : l[i] = r[i]
  OBVIOUS
<1> HIDE DEF l, r
<1>3. l = r
  BY <1>1, <1>2
<1> QED BY <1>3 DEF l, r, IsConcat

\* Moving the head of the second part to the end of the first leaves the whole.
LEMMA ConcatShift ==
    ASSUME NEW S, NEW a \in Seq(S), NEW b \in Seq(S), b # <<>>, NEW c,
           IsConcat(a, b, c)
    PROVE  IsConcat(Append(a, Head(b)), Tail(b), c)
<1> DEFINE l == Append(a, Head(b)) \o Tail(b)
           r == a \o b
<1>1. l \in Seq(S) /\ r \in Seq(S) /\ Len(l) = Len(r)
  BY TailSeq
<1>2. \A i \in 1..Len(l) : l[i] = r[i]
  BY TailSeq
<1> HIDE DEF l, r
<1>3. l = r
  BY <1>1, <1>2
<1> QED BY <1>3 DEF l, r, IsConcat

\* The first part of a whole is a prefix of it.
LEMMA ConcatPrefix ==
    ASSUME NEW S, NEW a \in Seq(S), NEW b \in Seq(S), NEW c, IsConcat(a, b, c)
    PROVE  Len(a) <= Len(c) /\ a = SubSeq(c, 1, Len(a))
<1> DEFINE p == SubSeq(a \o b, 1, Len(a))
<1>1. /\ Len(a) \in Nat /\ Len(b) \in Nat /\ a \o b \in Seq(S)
      /\ Len(a \o b) = Len(a) + Len(b)
  OBVIOUS
<1>2. p \in Seq(S) /\ Len(p) = Len(a)
  BY <1>1
<1>3. \A i \in 1..Len(a) : p[i] = a[i]
  BY <1>1
<1> HIDE DEF p
<1>4. p = a
  BY <1>2, <1>3
<1> QED BY <1>1, <1>4 DEF p, IsConcat

\* A prefix stays one when the whole grows.
LEMMA PrefixAppend ==
    ASSUME NEW S, NEW a \in Seq(S), NEW c \in Seq(S), NEW x \in S,
           Len(a) <= Len(c), a = SubSeq(c, 1, Len(a))
    PROVE  Len(a) <= Len(Append(c, x)) /\ a = SubSeq(Append(c, x), 1, Len(a))
<1> DEFINE p == SubSeq(Append(c, x), 1, Len(a))
<1>1. Len(a) \in Nat /\ Len(c) \in Nat
  OBVIOUS
<1>2. p \in Seq(S) /\ Len(p) = Len(a)
  BY <1>1, AppendSeq
<1>3. \A i \in 1..Len(a) : a[i] = c[i]
  BY <1>1
<1>4. \A i \in 1..Len(a) : p[i] = Append(c, x)[i] /\ Append(c, x)[i] = c[i]
  BY <1>1, AppendSeq
<1> HIDE DEF p
<1>5. p = a
  BY <1>2, <1>3, <1>4
<1> QED BY <1>1, <1>5, AppendSeq DEF p

------------------------------------------------------------------------------
(* The critical sections *)

\* MoveToStoppedIfDrainedLocked changes the state alone, from Stopping to
\* Stopped, with nothing queued and nothing running.
LEMMA DrainedStops ==
    ASSUME NEW e \in SerialType
    PROVE  LET d == MoveToStoppedIfDrainedLocked(e)
           IN  /\ d \in SerialType /\ d.stop_mode = e.stop_mode
               /\ d.tasks = e.tasks /\ d.running = e.running
               /\ d.drain_scheduled = e.drain_scheduled
               /\ \/ d.state = e.state
                  \/ /\ e.state = "Stopping" /\ d.state = "Stopped"
                     /\ e.tasks = <<>> /\ e.running = 0
BY DEF MoveToStoppedIfDrainedLocked, SerialType

\* The invariant holds initially.
LEMMA InitSInv == Init => SInv
<1> SUFFICES ASSUME Init PROVE SInv
  OBVIOUS
<1>1. Cardinality(Workers) \in Nat
  BY PoolOptionsAreValid, FS_CardinalityType
<1>2. <<>> \in Seq(Nat) /\ <<>> \in Seq(Serials \cup DirectTasks)
  OBVIOUS
<1>3. TypeOK
  BY <1>1, <1>2, PoolOptionsAreValid, SerialOptionsAreValid
  DEF Init, PoolInit, TypeOK, SerialType, StopMode
<1>4. ASSUME NEW s \in Serials PROVE Placed(s) /\ Counted(s) /\ Ordered(s)
  <2>1. /\ pool.tasks = <<>> /\ \A w \in Workers : worker[w] = "waiting"
        /\ serial[s] = [state |-> "Running", stop_mode |-> "Drain", tasks |-> <<>>,
                        drain_scheduled |-> FALSE, running |-> 0]
        /\ begun[s] = <<>> /\ accepted[s] = <<>>
    BY DEF Init, PoolInit
  <2>2. s # "waiting"
    BY SerialOptionsAreValid
  <2>3. Placed(s)
    BY <2>1, <2>2 DEF Placed
  <2>4. Counted(s)
    BY <2>1, <2>2 DEF Counted
  <2>5. Ordered(s)
    BY <2>1 DEF Ordered, IsConcat
  <2> QED BY <2>3, <2>4, <2>5
<1> QED BY <1>3, <1>4 DEF SInv, Init

\* A task of another owner that joins the pool's queue does not move the drain
\* task of s; nor does one of s that is not yet scheduled make two.
LEMMA SubmitPlaces ==
    ASSUME SInv, NEW s \in Serials, NEW x \in Serials \cup DirectTasks,
           pool'.tasks = Append(pool.tasks, x), worker' = worker,
           \/ x # s /\ serial'[s].drain_scheduled = serial[s].drain_scheduled
           \/ x = s /\ ~serial[s].drain_scheduled /\ serial'[s].drain_scheduled
    PROVE  Placed(s)'
<1> DEFINE q == pool.tasks
           r == pool'.tasks
<1>1. q \in Seq(Serials \cup DirectTasks) /\ Placed(s)
  BY DEF SInv, TypeOK
<1>2. /\ DOMAIN r = 1..Len(q) + 1 /\ DOMAIN q = 1..Len(q) /\ Len(q) \in Nat
      /\ \A i \in 1..Len(q) : r[i] = q[i]
      /\ r[Len(q) + 1] = x
  BY <1>1, AppendSeq
<1>3. \A i \in DOMAIN r :
          \/ i \in DOMAIN q /\ r[i] = q[i]
          \/ i = Len(q) + 1 /\ r[i] = x
  BY <1>2
<1> HIDE DEF q, r
<1>4. CASE x # s
  <2>1. \A i \in DOMAIN r : r[i] = s => i \in DOMAIN q /\ q[i] = s
    BY <1>3, <1>4
  <2> QED BY <1>1, <1>4, <2>1 DEF Placed, q, r
<1>5. CASE x = s
  <2>1. /\ \A i \in DOMAIN q : q[i] # s
        /\ \A w \in Workers : worker[w] # s
        /\ serial'[s].drain_scheduled
    BY <1>1, <1>5 DEF Placed, q
  <2>2. \A i \in DOMAIN r : r[i] = s => i = Len(q) + 1
    BY <1>3, <2>1
  <2>3. /\ \A i, j \in DOMAIN r : r[i] = s /\ r[j] = s => i = j
        /\ \A w \in Workers : worker'[w] # s
    BY <2>1, <2>2
  <2> QED BY <2>1, <2>3 DEF Placed, r
<1> QED BY <1>4, <1>5

\* The pool's record after Submit: the queue grew by the task, or nothing.
LEMMA SubmittedPool ==
    ASSUME SInv, NEW x \in Serials \cup DirectTasks
    PROVE  LET p == Submitted(pool, x)
           IN  /\ p \in [state : {"Running", "Stopping", "Stopped"},
                          stop_mode : StopMode, tasks : Seq(Serials \cup DirectTasks),
                          live_workers : 0..Cardinality(Workers)]
               /\ Len(p.tasks) <= MaximumPendingTasks
               /\ \/ p = pool /\ SubmitStatus(pool) # "Accepted"
                  \/ p.tasks = Append(pool.tasks, x)
<1> DEFINE q == pool.tasks
<1>1. /\ q \in Seq(Serials \cup DirectTasks) /\ Len(q) <= MaximumPendingTasks
      /\ pool \in [state : {"Running", "Stopping", "Stopped"},
                   stop_mode : StopMode, tasks : Seq(Serials \cup DirectTasks),
                   live_workers : 0..Cardinality(Workers)]
  BY DEF SInv, TypeOK
<1>2. CASE SubmitStatus(pool) = "Accepted"
  <2>1. Len(q) < MaximumPendingTasks
    BY <1>1, <1>2, PoolOptionsAreValid DEF SubmitStatus
  <2>2. Append(q, x) \in Seq(Serials \cup DirectTasks)
        /\ Len(Append(q, x)) <= MaximumPendingTasks
    BY <1>1, <2>1, AppendSeq, PoolOptionsAreValid
  <2>3. Submitted(pool, x) = [pool EXCEPT !.tasks = Append(q, x)]
    BY <1>2 DEF Submitted
  <2> QED BY <1>1, <2>2, <2>3
<1>3. CASE SubmitStatus(pool) # "Accepted"
  BY <1>1, <1>3 DEF Submitted
<1> QED BY <1>2, <1>3

\* A task that joins the serial queue: what was accepted grows with it.
LEMMA PushKeeps ==
    ASSUME SInv, NEW s \in Serials, NEW task \in Nat, task # 0,
           serial[s].state = "Running", Len(serial[s].tasks) < MaximumSerialTasks,
           accepted' = [accepted EXCEPT ![s] = Append(@, task)],
           serial' = [serial EXCEPT ![s] =
                          [serial[s] EXCEPT !.tasks = Append(serial[s].tasks, task),
                                            !.drain_scheduled = TRUE]],
           UNCHANGED <<worker, executing, begun>>
    PROVE  /\ serial' \in [Serials -> SerialType]
           /\ \A u \in Serials : Len(serial'[u].tasks) <= MaximumSerialTasks
           /\ accepted' \in [Serials -> Seq(Nat)]
           /\ \A u \in Serials : Counted(u)' /\ Ordered(u)'
           /\ \A u \in Serials \ {s} : serial'[u] = serial[u]
           /\ serial'[s].drain_scheduled = TRUE
<1> DEFINE q == serial[s].tasks
           d == serial'[s]
<1>1. /\ serial \in [Serials -> SerialType] /\ serial[s] \in SerialType
      /\ q \in Seq(Nat) /\ accepted \in [Serials -> Seq(Nat)]
      /\ begun[s] \in Seq(Nat) /\ accepted[s] \in Seq(Nat)
      /\ \A u \in Serials : Len(serial[u].tasks) <= MaximumSerialTasks
  BY DEF SInv, TypeOK, SerialType
<1>2. /\ Append(q, task) \in Seq(Nat) /\ Len(Append(q, task)) <= MaximumSerialTasks
      /\ \A i \in DOMAIN Append(q, task) :
             \/ Append(q, task)[i] = task
             \/ i \in DOMAIN q /\ Append(q, task)[i] = q[i]
  <2>1. q \in Seq(Nat) /\ Len(q) < MaximumSerialTasks /\ Len(q) \in Nat
    BY <1>1
  <2> HIDE DEF q
  <2> QED BY <2>1, AppendSeq, SerialOptionsAreValid
<1>3. /\ d \in SerialType /\ d.tasks = Append(q, task) /\ d.state = "Running"
      /\ d.drain_scheduled = TRUE /\ d.running = serial[s].running
      /\ d.stop_mode = serial[s].stop_mode
  BY <1>1, <1>2 DEF SerialType
<1>4. /\ \A u \in Serials \ {s} : serial'[u] = serial[u] /\ accepted'[u] = accepted[u]
      /\ accepted'[s] = Append(accepted[s], task)
      /\ DOMAIN serial' = Serials /\ serial' = [u \in Serials |-> serial'[u]]
  BY <1>1
<1> HIDE DEF q, d
<1>5. Counted(s)'
  <2>1. Counted(s)
    BY DEF SInv
  <2>2. \A i \in DOMAIN d.tasks : d.tasks[i] # 0
    BY <1>2, <1>3, <2>1 DEF Counted, q
  <2> QED BY <1>3, <2>1, <2>2 DEF Counted, d
<1>6. Ordered(s)'
  <2>1. Ordered(s) /\ serial[s].stop_mode = "Drain"
    BY <1>1 DEF SInv, Ordered, SerialType, StopMode
  <2> DEFINE b == begun[s]
             a == accepted[s]
  <2>2. /\ b \in Seq(Nat) /\ a \in Seq(Nat) /\ q \in Seq(Nat) /\ IsConcat(b, q, a)
        /\ Len(b) <= Len(a) /\ b = SubSeq(a, 1, Len(b))
    BY <1>1, <2>1 DEF Ordered, q
  <2> HIDE DEF b, a
  <2>3. IsConcat(b, Append(q, task), Append(a, task))
    BY <2>2, ConcatAppend
  <2>4. Len(b) <= Len(Append(a, task)) /\ b = SubSeq(Append(a, task), 1, Len(b))
    BY <2>2, PrefixAppend
  <2>5. accepted'[s] = Append(a, task) /\ begun'[s] = b
    BY <1>4 DEF a, b
  <2> QED BY <1>3, <2>1, <2>3, <2>4, <2>5 DEF Ordered, d
<1>7. \A u \in Serials \ {s} : Counted(u)' /\ Ordered(u)'
  <2> SUFFICES ASSUME NEW u \in Serials \ {s} PROVE Counted(u)' /\ Ordered(u)'
    OBVIOUS
  <2>1. serial'[u] = serial[u] /\ accepted'[u] = accepted[u] /\ begun' = begun
    BY <1>4
  <2>2. Counted(u) /\ Ordered(u)
    BY DEF SInv
  <2>3. Counted(u)'
    BY <2>1, <2>2 DEF Counted
  <2>4. Ordered(u)'
    BY <2>1, <2>2 DEF Ordered
  <2> QED BY <2>3, <2>4
<1>8. serial' \in [Serials -> SerialType]
  BY <1>1, <1>3, <1>4 DEF d
<1>9. \A u \in Serials : Len(serial'[u].tasks) <= MaximumSerialTasks
  BY <1>1, <1>2, <1>3, <1>4 DEF d
<1>10. accepted' \in [Serials -> Seq(Nat)]
  BY <1>1, AppendSeq
<1> QED BY <1>3, <1>4, <1>5, <1>6, <1>7, <1>8, <1>9, <1>10 DEF d

\* A step that changes neither the pool nor a worker, nor the flag of s, leaves
\* the drain task of s where it is.
LEMMA PlacedStays ==
    ASSUME SInv, NEW s \in Serials, pool' = pool, worker' = worker,
           serial'[s].drain_scheduled = serial[s].drain_scheduled
    PROVE  Placed(s)'
BY DEF SInv, Placed

------------------------------------------------------------------------------
(* The steps *)

\* A step that changes only the record of s, to d, keeps the invariant when d
\* has the flag of s and fits what runs and what was accepted.
LEMMA RecordKeeps ==
    ASSUME SInv, NEW s \in Serials, NEW d \in SerialType,
           serial' = [serial EXCEPT ![s] = d],
           d.drain_scheduled = serial[s].drain_scheduled,
           Len(d.tasks) <= MaximumSerialTasks,
           UNCHANGED <<pool, worker, executing, accepted, begun, direct>>,
           offered' \in [Serials -> Nat], Counted(s)', Ordered(s)'
    PROVE  SInv'
<1>1. serial \in [Serials -> SerialType]
  BY DEF SInv, TypeOK
<1>2. serial'[s] = d /\ \A u \in Serials \ {s} : serial'[u] = serial[u]
  BY <1>1
<1>3. TypeOK'
  <2>1. serial' \in [Serials -> SerialType]
    BY <1>1
  <2>2. \A u \in Serials : Len(serial'[u].tasks) <= MaximumSerialTasks
    BY <1>2 DEF SInv, TypeOK
  <2> QED BY <2>1, <2>2 DEF SInv, TypeOK
<1>4. \A u \in Serials : Placed(u)'
  <2> SUFFICES ASSUME NEW u \in Serials PROVE Placed(u)'
    OBVIOUS
  <2>1. serial'[u].drain_scheduled = serial[u].drain_scheduled
    BY <1>2
  <2> QED BY <2>1, PlacedStays
<1>5. ASSUME NEW u \in Serials, u # s PROVE Counted(u)' /\ Ordered(u)'
  <2>1. Counted(u) /\ Ordered(u) /\ serial'[u] = serial[u]
    BY <1>2, <1>5 DEF SInv
  <2>2. Counted(u)'
    BY <2>1 DEF Counted
  <2>3. Ordered(u)'
    BY <2>1 DEF Ordered
  <2> QED BY <2>2, <2>3
<1> QED BY <1>3, <1>4, <1>5 DEF SInv

\* Post.
LEMMA PostKeeps ==
    ASSUME SInv, NEW s \in Serials, Post(s) PROVE SInv'
<1> DEFINE e == serial[s]
           task == offered[s] + 1
<1>1. /\ offered \in [Serials -> Nat] /\ offered[s] \in Nat
      /\ serial \in [Serials -> SerialType] /\ e \in SerialType
      /\ e.tasks \in Seq(Nat) /\ e.drain_scheduled \in BOOLEAN
      /\ Placed(s) /\ Counted(s) /\ Ordered(s)
  BY DEF SInv, TypeOK, SerialType
<1>2. task \in Nat /\ task # 0 /\ offered' = [offered EXCEPT ![s] = task]
      /\ offered' \in [Serials -> Nat]
  BY <1>1 DEF Post
<1>3. /\ e.state = "Running" /\ Len(e.tasks) < MaximumSerialTasks
      /\ UNCHANGED <<worker, executing, begun, direct>>
  BY DEF Post
<1> DEFINE pushed == [e EXCEPT !.tasks = Append(e.tasks, task), !.drain_scheduled = TRUE]
<1>4. ASSUME serial' = [serial EXCEPT ![s] = pushed],
             accepted' = [accepted EXCEPT ![s] = Append(@, task)],
             \/ pool' = pool /\ e.drain_scheduled
             \/ /\ ~e.drain_scheduled /\ SubmitStatus(pool) = "Accepted"
                /\ pool' = Submitted(pool, s)
      PROVE  SInv'
  <2> HIDE DEF task
  <2>1. /\ serial' \in [Serials -> SerialType]
        /\ \A u \in Serials : Len(serial'[u].tasks) <= MaximumSerialTasks
        /\ accepted' \in [Serials -> Seq(Nat)]
        /\ \A u \in Serials : Counted(u)' /\ Ordered(u)'
        /\ \A u \in Serials \ {s} : serial'[u] = serial[u]
        /\ serial'[s].drain_scheduled = TRUE
    BY <1>2, <1>3, <1>4, PushKeeps
  <2>2. /\ pool' \in [state : {"Running", "Stopping", "Stopped"},
                     stop_mode : StopMode, tasks : Seq(Serials \cup DirectTasks),
                     live_workers : 0..Cardinality(Workers)]
        /\ Len(pool'.tasks) <= MaximumPendingTasks
        /\ \/ pool' = pool /\ e.drain_scheduled
           \/ pool'.tasks = Append(pool.tasks, s) /\ ~e.drain_scheduled
    <3>1. CASE pool' = pool /\ e.drain_scheduled
      BY <3>1 DEF SInv, TypeOK
    <3>2. CASE /\ ~e.drain_scheduled /\ SubmitStatus(pool) = "Accepted"
               /\ pool' = Submitted(pool, s)
      BY <3>2, SubmittedPool
    <3> QED BY <1>4, <3>1, <3>2
  <2>3. \A u \in Serials : Placed(u)'
    <3> SUFFICES ASSUME NEW u \in Serials PROVE Placed(u)'
      OBVIOUS
    <3>1. CASE pool' = pool /\ e.drain_scheduled
      <4>1. serial'[u].drain_scheduled = serial[u].drain_scheduled
        BY <1>1, <2>1, <3>1
      <4> QED BY <1>3, <3>1, <4>1, PlacedStays
    <3>2. CASE pool'.tasks = Append(pool.tasks, s) /\ ~e.drain_scheduled
      BY <1>1, <1>3, <2>1, <3>2, SubmitPlaces
    <3> QED BY <2>2, <3>1, <3>2
  <2>4. TypeOK'
    BY <1>2, <1>3, <2>1, <2>2 DEF SInv, TypeOK
  <2> QED BY <1>3, <2>1, <2>3, <2>4 DEF SInv
<1>5. CASE ~NeedsDrain(e) /\ serial' = [serial EXCEPT ![s] = Pushed(e, task)]
           /\ accepted' = [accepted EXCEPT ![s] = Append(@, task)] /\ UNCHANGED pool
  <2>1. Pushed(e, task) = pushed
    BY <1>1, <1>5 DEF NeedsDrain, Pushed, SerialType
  <2> HIDE DEF pushed
  <2> QED BY <1>4, <1>5, <2>1 DEF NeedsDrain
<1>6. CASE /\ NeedsDrain(e) /\ SubmitStatus(pool) = "Accepted"
           /\ serial' = [serial EXCEPT ![s] =
                  [Pushed(e, task) EXCEPT !.drain_scheduled = TRUE]]
           /\ accepted' = [accepted EXCEPT ![s] = Append(@, task)]
           /\ pool' = Submitted(pool, s)
  <2>1. [Pushed(e, task) EXCEPT !.drain_scheduled = TRUE] = pushed
    BY <1>1 DEF Pushed, SerialType
  <2> HIDE DEF pushed
  <2> QED BY <1>4, <1>6, <2>1 DEF NeedsDrain, Pushed
<1>7. CASE UNCHANGED <<serial, accepted, pool>>
  <2>1. TypeOK'
    BY <1>2, <1>3, <1>7 DEF SInv, TypeOK
  <2>2. ASSUME NEW u \in Serials PROVE Placed(u)' /\ Counted(u)' /\ Ordered(u)'
    BY <1>3, <1>7 DEF SInv, Placed, Counted, Ordered
  <2> QED BY <1>3, <1>7, <2>1, <2>2 DEF SInv
<1>8. CASE /\ NeedsDrain(e) /\ serial' = [serial EXCEPT ![s].state = "Stopped"]
           /\ UNCHANGED <<accepted, pool>>
  <2> DEFINE d == [e EXCEPT !.state = "Stopped"]
  <2>1. serial' = [serial EXCEPT ![s] = d] /\ serial'[s] = d
    BY <1>1, <1>8
  <2>2. /\ d \in SerialType /\ d.tasks = e.tasks /\ d.running = e.running
        /\ d.drain_scheduled = e.drain_scheduled /\ d.stop_mode = e.stop_mode
        /\ d.state = "Stopped"
    BY <1>1 DEF SerialType
  <2> HIDE DEF d
  <2>3. e.tasks = <<>> /\ \A w \in Workers : worker[w] # s
    BY <1>1, <1>8 DEF NeedsDrain, Counted, Placed
  <2>4. Counted(s)'
    BY <1>1, <1>3, <2>1, <2>2, <2>3 DEF Counted
  <2>5. Ordered(s)'
    BY <1>1, <1>3, <1>8, <2>1, <2>2 DEF Ordered
  <2> QED BY <1>2, <1>3, <1>8, <2>1, <2>2, <2>4, <2>5, RecordKeeps DEF SInv, TypeOK
<1> QED BY <1>5, <1>6, <1>7, <1>8 DEF Post

\* Stop of a serial executor.
LEMMA StopKeeps ==
    ASSUME SInv, NEW s \in Serials, NEW mode \in StopModes, Stop(s, mode)
    PROVE  SInv'
<1> DEFINE e == serial[s]
           chosen == IF e.state = "Running" \/ mode = "CancelPending"
                     THEN mode ELSE e.stop_mode
           f == [e EXCEPT !.state = "Stopping", !.stop_mode = chosen,
                          !.tasks = IF chosen = "CancelPending" THEN <<>> ELSE @]
           d == MoveToStoppedIfDrainedLocked(f)
<1>1. /\ serial \in [Serials -> SerialType] /\ e \in SerialType
      /\ Len(e.tasks) <= MaximumSerialTasks
      /\ offered \in [Serials -> Nat] /\ Counted(s) /\ Ordered(s)
      /\ <<>> \in Seq(Nat) /\ Len(<<>>) <= MaximumSerialTasks
  BY SerialOptionsAreValid DEF SInv, TypeOK
<1>2. chosen \in StopMode
  BY <1>1, SerialOptionsAreValid DEF SerialType
<1>3. serial' = [serial EXCEPT ![s] = d] /\ serial'[s] = d
      /\ UNCHANGED <<pool, worker, executing, offered, accepted, begun, direct>>
  BY <1>1 DEF Stop, SerialStopLocked
<1>4. e.stop_mode = "CancelPending" => chosen = "CancelPending"
  BY <1>1 DEF Ordered
<1> HIDE DEF chosen
<1>5. /\ f \in SerialType /\ f.state = "Stopping" /\ f.stop_mode = chosen
      /\ f.running = e.running /\ f.drain_scheduled = e.drain_scheduled
      /\ f.tasks = IF chosen = "CancelPending" THEN <<>> ELSE e.tasks
  BY <1>1, <1>2 DEF SerialType
<1> HIDE DEF f
<1>6. /\ d \in SerialType /\ d.stop_mode = chosen /\ d.tasks = f.tasks
      /\ d.running = e.running /\ d.drain_scheduled = e.drain_scheduled
      /\ \/ d.state = "Stopping"
         \/ d.state = "Stopped" /\ d.tasks = <<>> /\ d.running = 0
  BY <1>5, DrainedStops
<1> HIDE DEF d
<1>7. Counted(s)'
  <2>1. /\ \A i \in DOMAIN d.tasks : d.tasks[i] # 0
        /\ ~d.drain_scheduled => d.tasks = <<>>
    BY <1>1, <1>5, <1>6 DEF Counted
  <2> QED BY <1>1, <1>3, <1>6, <2>1 DEF Counted
<1>8. Ordered(s)'
  <2>1. chosen = "Drain" => e.stop_mode = "Drain" /\ d.tasks = e.tasks
    BY <1>1, <1>4, <1>5, <1>6 DEF SerialType, StopMode
  <2>2. chosen = "CancelPending" => d.tasks = <<>>
    BY <1>5, <1>6
  <2> QED BY <1>1, <1>3, <1>6, <2>1, <2>2 DEF Ordered
<1>9. Len(d.tasks) <= MaximumSerialTasks
  BY <1>1, <1>5, <1>6
<1> QED BY <1>1, <1>3, <1>6, <1>7, <1>8, <1>9, RecordKeeps

\* A step of the pool, or of a direct task, that leaves the serial executors.
LEMMA PoolSideKeeps ==
    ASSUME SInv, TypeOK', UNCHANGED <<serial, executing, accepted, begun>>,
           \A w \in Workers : worker'[w] \notin Serials => executing[w] = 0,
           \A s \in Serials : Placed(s)',
           \A s \in Serials, w \in Workers : worker[w] = s => worker'[w] = s,
           \A s \in Serials, w \in Workers :
               worker'[w] = s /\ worker[w] # s => executing[w] = 0 /\ serial[s].running = 0
    PROVE  SInv'
<1>1. ASSUME NEW s \in Serials PROVE Counted(s)' /\ Ordered(s)'
  <2>1. Counted(s) /\ Ordered(s)
    BY DEF SInv
  <2>2. Ordered(s)'
    BY <2>1 DEF Ordered
  <2>3. \A w \in Workers :
           worker'[w] = s => serial[s].running = (IF executing[w] = 0 THEN 0 ELSE 1)
    BY <2>1 DEF Counted
  <2>4. (\A w \in Workers : worker'[w] # s) => serial[s].running = 0
    BY <2>1 DEF Counted
  <2>5. Counted(s)'
    BY <2>1, <2>3, <2>4 DEF Counted
  <2> QED BY <2>2, <2>5
<1> QED BY <1>1 DEF SInv

\* A task posted to the pool directly.
LEMMA PostDirectKeeps ==
    ASSUME SInv, NEW task \in DirectTasks, PostDirect(task) PROVE SInv'
<1>1. /\ pool' = Submitted(pool, task) /\ task \notin Serials
      /\ direct' = direct \cup {task}
      /\ UNCHANGED <<worker, serial, executing, offered, accepted, begun>>
  BY SerialOptionsAreValid DEF PostDirect
<1>2. TypeOK'
  BY <1>1, SubmittedPool DEF SInv, TypeOK
<1>3. ASSUME NEW s \in Serials PROVE Placed(s)'
  <2>1. CASE pool' = pool
    BY <1>1, <2>1, PlacedStays
  <2>2. CASE pool'.tasks = Append(pool.tasks, task)
    BY <1>1, <2>2, SubmitPlaces
  <2> QED BY <1>1, <2>1, <2>2, SubmittedPool
<1>4. \A w \in Workers : worker'[w] \notin Serials => executing[w] = 0
  BY <1>1 DEF SInv
<1> QED BY <1>1, <1>2, <1>3, <1>4, PoolSideKeeps

\* Stop of the pool: the queue stays or is dropped.
LEMMA StopPoolKeeps ==
    ASSUME SInv, NEW mode \in PoolStopModes, StopPool(mode) PROVE SInv'
<1> DEFINE chosen == IF pool.state = "Running" \/ mode = "CancelPending"
                     THEN mode ELSE pool.stop_mode
<1>1. /\ pool' = [pool EXCEPT !.state = IF pool.live_workers = 0 THEN "Stopped"
                                                                ELSE "Stopping",
                              !.stop_mode = chosen,
                              !.tasks = IF chosen = "CancelPending" THEN <<>> ELSE @]
      /\ UNCHANGED <<worker, serial, executing, offered, accepted, begun, direct>>
  BY DEF StopPool, StopLocked
<1>2. pool \in [state : {"Running", "Stopping", "Stopped"},
               stop_mode : StopMode, tasks : Seq(Serials \cup DirectTasks),
               live_workers : 0..Cardinality(Workers)]
      /\ <<>> \in Seq(Serials \cup DirectTasks)
  BY DEF SInv, TypeOK
<1>3. chosen \in StopMode
  BY <1>2, SerialOptionsAreValid
<1> HIDE DEF chosen
<1>4. /\ pool' \in [state : {"Running", "Stopping", "Stopped"},
               stop_mode : StopMode, tasks : Seq(Serials \cup DirectTasks),
               live_workers : 0..Cardinality(Workers)]
      /\ pool'.tasks = <<>> \/ pool'.tasks = pool.tasks
  BY <1>1, <1>2, <1>3
<1>5. Len(pool'.tasks) <= MaximumPendingTasks
  BY <1>4, PoolOptionsAreValid DEF SInv, TypeOK
<1>6. TypeOK'
  BY <1>1, <1>4, <1>5 DEF SInv, TypeOK
<1>7. ASSUME NEW s \in Serials PROVE Placed(s)'
  <2>1. Placed(s)
    BY DEF SInv
  <2>2. CASE pool'.tasks = <<>>
    BY <1>1, <2>1, <2>2 DEF Placed
  <2>3. CASE pool'.tasks = pool.tasks
    BY <1>1, <2>1, <2>3 DEF Placed
  <2> QED BY <1>4, <2>2, <2>3
<1>8. \A w \in Workers : worker'[w] \notin Serials => executing[w] = 0
  BY <1>1 DEF SInv
<1> QED BY <1>1, <1>6, <1>7, <1>8, PoolSideKeeps

\* A worker takes the oldest task of the pool: the drain task of a serial
\* executor moves from the queue to the worker.
LEMMA WorkerTakesKeeps ==
    ASSUME SInv, NEW w \in Workers, WorkerTakes(w),
           UNCHANGED <<serial, executing, offered, accepted, begun, direct>>
    PROVE  SInv'
<1> DEFINE q == pool.tasks
           r == pool'.tasks
           x == Head(pool.tasks)
<1>1. /\ worker[w] = "waiting" /\ q # <<>> /\ worker' = [worker EXCEPT ![w] = x]
      /\ pool' = [pool EXCEPT !.tasks = Tail(@)]
      /\ pool \in [state : {"Running", "Stopping", "Stopped"},
               stop_mode : StopMode, tasks : Seq(Serials \cup DirectTasks),
               live_workers : 0..Cardinality(Workers)]
      /\ worker \in [Workers -> Serials \cup DirectTasks \cup {"waiting", "exited"}]
      /\ q \in Seq(Serials \cup DirectTasks) /\ Len(q) <= MaximumPendingTasks
  BY DEF SInv, TypeOK, WorkerTakes, MayTake
<1>2. r = Tail(q)
  BY <1>1
<1>3. /\ r \in Seq(Serials \cup DirectTasks) /\ x \in Serials \cup DirectTasks
      /\ DOMAIN r = 1..(Len(q) - 1) /\ DOMAIN q = 1..Len(q) /\ Len(q) \in Nat \ {0}
      /\ \A i \in 1..(Len(q) - 1) : r[i] = q[i + 1]
      /\ x = q[1] /\ Len(r) = Len(q) - 1
  BY <1>1, <1>2, TailSeq
<1>4. /\ worker'[w] = x /\ \A v \in Workers \ {w} : worker'[v] = worker[v]
      /\ worker' \in [Workers -> Serials \cup DirectTasks \cup {"waiting", "exited"}]
  BY <1>1, <1>3
<1>5. TypeOK'
  <2>1. pool' \in [state : {"Running", "Stopping", "Stopped"},
               stop_mode : StopMode, tasks : Seq(Serials \cup DirectTasks),
               live_workers : 0..Cardinality(Workers)]
    BY <1>1, <1>2, <1>3
  <2>2. Len(r) <= MaximumPendingTasks
    BY <1>1, <1>3, PoolOptionsAreValid
  <2> QED BY <1>4, <2>1, <2>2 DEF SInv, TypeOK
<1>6. \A i \in DOMAIN r : i + 1 \in DOMAIN q /\ i + 1 # 1 /\ r[i] = q[i + 1]
  BY <1>3
<1>7. 1 \in DOMAIN q /\ q[1] = x
  BY <1>3
<1>8. \A i, j \in DOMAIN r : i + 1 = j + 1 => i = j
  BY <1>3
<1>9. "waiting" \notin Serials
  BY SerialOptionsAreValid
<1> HIDE DEF q, r, x
<1>10. ASSUME NEW s \in Serials PROVE Placed(s)'
  <2>1. Placed(s)
    BY DEF SInv
  <2>2. \A i, j \in DOMAIN r : r[i] = s /\ r[j] = s => i = j
    BY <1>6, <1>8, <2>1 DEF Placed, q
  <2>3. \A i \in DOMAIN r : r[i] = s => x # s
    BY <1>6, <1>7, <2>1 DEF Placed, q
  <2>4. \A u \in Workers : worker[u] = s => x # s
    BY <1>7, <2>1 DEF Placed, q
  <2>5. ~serial[s].drain_scheduled => x # s /\ \A i \in DOMAIN r : r[i] # s
    BY <1>6, <1>7, <2>1 DEF Placed, q
  <2>6. \A u, v \in Workers : worker'[u] = s /\ worker'[v] = s => u = v
    BY <1>4, <2>1, <2>4 DEF Placed
  <2>7. \A i \in DOMAIN r, u \in Workers : ~(r[i] = s /\ worker'[u] = s)
    <3> SUFFICES ASSUME NEW i \in DOMAIN r, NEW u \in Workers, r[i] = s, worker'[u] = s
                 PROVE  FALSE
      OBVIOUS
    <3>1. u # w
      BY <1>4, <2>3
    <3>2. worker[u] = s
      BY <1>4, <3>1
    <3> QED BY <1>6, <2>1, <3>2 DEF Placed, q
  <2>8. ~serial[s].drain_scheduled => \A u \in Workers : worker'[u] # s
    BY <1>4, <2>1, <2>5 DEF Placed
  <2> QED BY <2>2, <2>5, <2>6, <2>7, <2>8 DEF Placed, r
<1>11. \A v \in Workers : worker'[v] \notin Serials => executing[v] = 0
  BY <1>1, <1>4, <1>9 DEF SInv
<1>12. \A s \in Serials, v \in Workers : worker[v] = s => worker'[v] = s
  BY <1>1, <1>4, <1>9
<1>13. ASSUME NEW s \in Serials, NEW v \in Workers, worker'[v] = s, worker[v] # s
       PROVE  executing[v] = 0 /\ serial[s].running = 0
  <2>1. v = w /\ x = s
    BY <1>4, <1>13
  <2>2. Placed(s) /\ Counted(s) /\ executing[w] = 0
    BY <1>1, <1>9 DEF SInv
  <2>3. \A u \in Workers : worker[u] # s
    BY <1>7, <2>1, <2>2 DEF Placed, q
  <2> QED BY <2>1, <2>2, <2>3 DEF Counted
<1> QED BY <1>5, <1>10, <1>11, <1>12, <1>13, PoolSideKeeps

\* A worker with no serial work goes from y to z: it leaves the pool, or
\* returns from a direct task.
LEMMA IdleWorkerKeeps ==
    ASSUME SInv, TypeOK', NEW w \in Workers, NEW z, z \notin Serials,
           worker[w] \notin Serials, worker' = [worker EXCEPT ![w] = z],
           pool'.tasks = pool.tasks,
           UNCHANGED <<serial, executing, accepted, begun>>
    PROVE  SInv'
<1>1. \A v \in Workers : worker'[v] = IF v = w THEN z ELSE worker[v]
  BY DEF SInv, TypeOK
<1>2. \A v \in Workers, s \in Serials : worker'[v] = s <=> worker[v] = s
  BY <1>1
<1>3. ASSUME NEW s \in Serials PROVE Placed(s)'
  <2>1. Placed(s)
    BY DEF SInv
  <2> QED BY <1>2, <2>1 DEF Placed
<1>4. \A v \in Workers : worker'[v] \notin Serials => executing[v] = 0
  BY <1>1 DEF SInv
<1> QED BY <1>2, <1>3, <1>4, PoolSideKeeps

\* A worker leaves the pool.
LEMMA WorkerExitsKeeps ==
    ASSUME SInv, NEW w \in Workers, WorkerExits(w),
           UNCHANGED <<serial, executing, offered, accepted, begun, direct>>
    PROVE  SInv'
<1> DEFINE live == IF pool.live_workers > 0 THEN pool.live_workers - 1 ELSE 0
<1>1. /\ worker[w] = "waiting" /\ worker' = [worker EXCEPT ![w] = "exited"]
      /\ pool' = [pool EXCEPT !.live_workers = live,
                              !.state = IF live = 0 THEN "Stopped" ELSE @]
      /\ "waiting" \notin Serials /\ "exited" \notin Serials
  BY SerialOptionsAreValid DEF WorkerExits
<1>2. pool \in [state : {"Running", "Stopping", "Stopped"},
               stop_mode : StopMode, tasks : Seq(Serials \cup DirectTasks),
               live_workers : 0..Cardinality(Workers)]
  BY DEF SInv, TypeOK
<1>3. live \in 0..Cardinality(Workers)
  <2>1. pool.live_workers \in 0..Cardinality(Workers) /\ Cardinality(Workers) \in Nat
    BY <1>2, PoolOptionsAreValid, FS_CardinalityType
  <2> QED BY <2>1
<1> HIDE DEF live
<1>4. /\ pool' \in [state : {"Running", "Stopping", "Stopped"},
               stop_mode : StopMode, tasks : Seq(Serials \cup DirectTasks),
               live_workers : 0..Cardinality(Workers)]
      /\ pool'.tasks = pool.tasks
  BY <1>1, <1>2, <1>3
<1>5. TypeOK'
  BY <1>1, <1>4 DEF SInv, TypeOK
<1> QED BY <1>1, <1>4, <1>5, IdleWorkerKeeps

\* A direct task returns.
LEMMA DirectReturnsKeeps ==
    ASSUME SInv, NEW w \in Workers, DirectReturns(w) PROVE SInv'
<1>1. /\ worker[w] \notin Serials /\ "waiting" \notin Serials
      /\ worker' = [worker EXCEPT ![w] = "waiting"]
      /\ UNCHANGED <<pool, serial, executing, offered, accepted, begun, direct>>
  BY SerialOptionsAreValid DEF DirectReturns, Release
<1>2. TypeOK'
  BY <1>1 DEF SInv, TypeOK
<1> QED BY <1>1, <1>2, IdleWorkerKeeps

\* A step of the worker in Drain of s changes only the record of s and what
\* the worker executes.
LEMMA DrainStepKeeps ==
    ASSUME SInv, NEW w \in Workers, NEW s \in Serials, worker[w] = s,
           NEW d \in SerialType, serial' = [serial EXCEPT ![s] = d],
           d.drain_scheduled = TRUE,
           NEW n \in Nat, executing' = [executing EXCEPT ![w] = n],
           Len(d.tasks) <= MaximumSerialTasks, d.running = (IF n = 0 THEN 0 ELSE 1),
           \A i \in DOMAIN d.tasks : d.tasks[i] # 0,
           d.state = "Stopped" => d.tasks = <<>> /\ d.running = 0,
           begun' \in [Serials -> Seq(Nat)],
           \A u \in Serials \ {s} : begun'[u] = begun[u], Ordered(s)',
           UNCHANGED <<pool, worker, offered, accepted, direct>>
    PROVE  SInv'
<1>1. serial \in [Serials -> SerialType] /\ executing \in [Workers -> Nat]
  BY DEF SInv, TypeOK
<1>2. /\ serial'[s] = d /\ \A u \in Serials \ {s} : serial'[u] = serial[u]
      /\ executing'[w] = n /\ \A v \in Workers \ {w} : executing'[v] = executing[v]
      /\ serial' \in [Serials -> SerialType] /\ executing' \in [Workers -> Nat]
  BY <1>1
<1>3. TypeOK'
  <2>1. \A u \in Serials : Len(serial'[u].tasks) <= MaximumSerialTasks
    BY <1>2 DEF SInv, TypeOK
  <2> QED BY <1>2, <2>1 DEF SInv, TypeOK
<1>4. Placed(s) /\ Counted(s) /\ serial[s].drain_scheduled
      /\ \A v \in Workers : worker[v] = s => v = w
  BY <1>1 DEF SInv, Placed, SerialType
<1>5. ASSUME NEW u \in Serials PROVE Placed(u)'
  <2>1. serial'[u].drain_scheduled = serial[u].drain_scheduled
    <3>1. serial[u] \in SerialType /\ serial[s] \in SerialType
      BY <1>1
    <3>2. serial[s].drain_scheduled = TRUE
      BY <1>4, <3>1 DEF SerialType
    <3> QED BY <1>2, <3>2
  <2> QED BY <2>1, PlacedStays
<1>6. Counted(s)'
  <2>1. \A v \in Workers : worker[v] = s =>
            d.running = (IF executing'[v] = 0 THEN 0 ELSE 1)
    BY <1>2, <1>4
  <2> QED BY <1>2, <2>1 DEF Counted
<1>7. ASSUME NEW u \in Serials, u # s PROVE Counted(u)' /\ Ordered(u)'
  <2>1. /\ Counted(u) /\ Ordered(u) /\ serial'[u] = serial[u]
        /\ begun'[u] = begun[u] /\ accepted'[u] = accepted[u]
    BY <1>2, <1>7 DEF SInv
  <2>2. \A v \in Workers : worker[v] = u => executing'[v] = executing[v]
    BY <1>2, <1>7
  <2>3. Counted(u)'
    BY <2>1, <2>2 DEF Counted
  <2>4. Ordered(u)'
    BY <2>1 DEF Ordered
  <2> QED BY <2>3, <2>4
<1>8. \A v \in Workers : worker'[v] \notin Serials => executing'[v] = 0
  BY <1>2 DEF SInv
<1> QED BY <1>3, <1>5, <1>6, <1>7, <1>8 DEF SInv

\* Drain takes the oldest task.
LEMMA DrainTakesKeeps ==
    ASSUME SInv, NEW w \in Workers, DrainTakes(w) PROVE SInv'
<1>0. PICK s \in Serials : worker[w] = s
  BY DEF DrainTakes
<1> DEFINE e == serial[s]
           q == serial[s].tasks
           b == begun[s]
           x == Head(q)
           d == [e EXCEPT !.tasks = Tail(q), !.running = e.running + 1]
<1>1. /\ executing[w] = 0 /\ q # <<>>
      /\ executing' = [executing EXCEPT ![w] = x]
      /\ begun' = [begun EXCEPT ![s] = Append(b, x)]
      /\ UNCHANGED <<pool, worker, offered, accepted, direct>>
      /\ serial \in [Serials -> SerialType] /\ begun \in [Serials -> Seq(Nat)]
      /\ e \in SerialType /\ q \in Seq(Nat) /\ Len(q) <= MaximumSerialTasks
      /\ b \in Seq(Nat)
  BY <1>0 DEF DrainTakes, SInv, TypeOK, SerialType
<1>2. serial' = [serial EXCEPT ![s] = d]
  BY <1>0, <1>1 DEF DrainTakes
<1>3. Placed(s) /\ Counted(s) /\ Ordered(s)
  BY DEF SInv
<1>4. e.running = 0
  BY <1>0, <1>1, <1>3 DEF Counted
<1>5. e.drain_scheduled = TRUE
  BY <1>0, <1>1, <1>3 DEF Placed, SerialType
<1>6. e.stop_mode = "Drain" /\ e.state # "Stopped"
  BY <1>1, <1>3 DEF Ordered, Counted, SerialType, StopMode
<1>7. IsConcat(b, q, accepted[s])
  BY <1>3, <1>6 DEF Ordered
<1>8. \A i \in DOMAIN q : q[i] # 0
  BY <1>3 DEF Counted
<1> HIDE DEF q, b
<1>9. /\ x \in Nat /\ x # 0 /\ Tail(q) \in Seq(Nat) /\ Len(Tail(q)) <= MaximumSerialTasks
      /\ \A i \in DOMAIN Tail(q) : Tail(q)[i] # 0
  <2>1. /\ Tail(q) \in Seq(Nat) /\ Len(Tail(q)) = Len(q) - 1 /\ Len(q) \in Nat \ {0}
        /\ DOMAIN Tail(q) = 1..(Len(q) - 1) /\ DOMAIN q = 1..Len(q)
        /\ \A i \in 1..(Len(q) - 1) : Tail(q)[i] = q[i + 1]
        /\ Head(q) \in Nat /\ Head(q) = q[1]
    BY <1>1, TailSeq
  <2>2. 1 \in DOMAIN q /\ \A i \in DOMAIN Tail(q) : i + 1 \in DOMAIN q
    BY <2>1
  <2>3. \A i \in DOMAIN Tail(q) : Tail(q)[i] # 0
    BY <1>8, <2>1, <2>2
  <2>4. Len(Tail(q)) <= MaximumSerialTasks
    BY <1>1, <2>1, SerialOptionsAreValid
  <2> QED BY <1>8, <2>1, <2>2, <2>3, <2>4
<1>10. /\ d \in SerialType /\ d.tasks = Tail(q) /\ d.running = 1 /\ d.state = e.state
       /\ d.drain_scheduled = TRUE /\ d.stop_mode = "Drain"
  <2> DEFINE r == Tail(q)
  <2>1. d = [e EXCEPT !.tasks = r, !.running = 1] /\ r \in Seq(Nat) /\ r = Tail(q)
    BY <1>4, <1>9
  <2> HIDE DEF r, d
  <2>2. 1 \in Nat
    OBVIOUS
  <2> QED BY <1>1, <1>5, <1>6, <2>1, <2>2 DEF SerialType
<1>11. IsConcat(Append(b, x), Tail(q), accepted[s])
  BY <1>1, <1>7, ConcatShift
<1>12. Append(b, x) \in Seq(Nat)
  BY <1>1, <1>9, AppendSeq
<1> HIDE DEF x, d
<1> DEFINE bx == Append(b, x)
           a == accepted[s]
<1>13. begun' = [begun EXCEPT ![s] = bx] /\ begun'[s] = bx /\ serial'[s] = d
       /\ begun' \in [Serials -> Seq(Nat)]
       /\ \A u \in Serials \ {s} : begun'[u] = begun[u]
  BY <1>1, <1>2, <1>12
<1>14. Ordered(s)'
  <2>1. bx \in Seq(Nat) /\ Tail(q) \in Seq(Nat) /\ IsConcat(bx, Tail(q), a)
    BY <1>9, <1>11, <1>12
  <2> HIDE DEF bx, a
  <2>2. Len(bx) <= Len(a) /\ bx = SubSeq(a, 1, Len(bx))
    BY <2>1, ConcatPrefix
  <2>3. accepted'[s] = a
    BY <1>1 DEF a
  <2> QED BY <1>10, <1>13, <2>1, <2>2, <2>3 DEF Ordered
<1>15. /\ Len(d.tasks) <= MaximumSerialTasks /\ d.running = (IF x = 0 THEN 0 ELSE 1)
       /\ \A i \in DOMAIN d.tasks : d.tasks[i] # 0
       /\ d.state # "Stopped"
  BY <1>6, <1>9, <1>10
<1> HIDE DEF e
<1> QED BY <1>0, <1>1, <1>2, <1>9, <1>10, <1>13, <1>14, <1>15, DrainStepKeeps

\* The task that Drain executes returns.
LEMMA TaskReturnsKeeps ==
    ASSUME SInv, NEW w \in Workers, TaskReturns(w) PROVE SInv'
<1>0. PICK s \in Serials : worker[w] = s
  BY DEF TaskReturns
<1> DEFINE e == serial[s]
           f == [e EXCEPT !.running = e.running - 1]
           d == MoveToStoppedIfDrainedLocked(f)
<1>1. /\ executing[w] # 0 /\ executing' = [executing EXCEPT ![w] = 0]
      /\ UNCHANGED <<pool, worker, offered, accepted, begun, direct>>
      /\ serial \in [Serials -> SerialType] /\ begun \in [Serials -> Seq(Nat)]
      /\ e \in SerialType /\ Len(e.tasks) <= MaximumSerialTasks
      /\ Placed(s) /\ Counted(s) /\ Ordered(s)
  BY <1>0 DEF TaskReturns, SInv, TypeOK
<1>2. serial' = [serial EXCEPT ![s] = d] /\ serial'[s] = d
  BY <1>0, <1>1 DEF TaskReturns
<1>3. e.running = 1 /\ e.state # "Stopped"
  BY <1>0, <1>1 DEF Counted
<1>4. e.drain_scheduled = TRUE
  BY <1>0, <1>1 DEF Placed, SerialType
<1>5. /\ f \in SerialType /\ f.running = 0 /\ f.tasks = e.tasks /\ f.state = e.state
      /\ f.drain_scheduled = TRUE /\ f.stop_mode = e.stop_mode
  <2>1. f = [e EXCEPT !.running = 0]
    BY <1>3
  <2> HIDE DEF f
  <2> QED BY <1>1, <1>4, <2>1 DEF SerialType
<1> HIDE DEF f
<1>6. /\ d \in SerialType /\ d.running = 0 /\ d.tasks = e.tasks
      /\ d.drain_scheduled = TRUE /\ d.stop_mode = e.stop_mode
      /\ d.state = "Stopped" => d.tasks = <<>> /\ d.running = 0
      /\ d.state = e.state \/ d.state = "Stopped"
  BY <1>3, <1>5, DrainedStops
<1> HIDE DEF d
<1>7. Ordered(s)'
  BY <1>1, <1>2, <1>6 DEF Ordered
<1>8. Len(d.tasks) <= MaximumSerialTasks /\ \A i \in DOMAIN d.tasks : d.tasks[i] # 0
  BY <1>1, <1>6 DEF Counted
<1> HIDE DEF e
<1>9. 0 \in Nat /\ d.running = (IF 0 = 0 THEN 0 ELSE 1)
  BY <1>6
<1> QED BY <1>0, <1>1, <1>2, <1>6, <1>7, <1>8, <1>9, DrainStepKeeps

\* Drain finds nothing queued: the flag is cleared and the worker released in
\* one critical section, so the next Post may schedule another drain task.
LEMMA DrainReturnsKeeps ==
    ASSUME SInv, NEW w \in Workers, DrainReturns(w) PROVE SInv'
<1>0. PICK s \in Serials : worker[w] = s
  BY DEF DrainReturns
<1> DEFINE e == serial[s]
           f == [e EXCEPT !.drain_scheduled = FALSE]
           d == MoveToStoppedIfDrainedLocked(f)
<1>1. /\ executing[w] = 0 /\ e.tasks = <<>>
      /\ worker' = [worker EXCEPT ![w] = "waiting"]
      /\ UNCHANGED <<pool, executing, offered, accepted, begun, direct>>
      /\ serial \in [Serials -> SerialType] /\ e \in SerialType
      /\ worker \in [Workers -> Serials \cup DirectTasks \cup {"waiting", "exited"}]
      /\ Placed(s) /\ Counted(s) /\ Ordered(s) /\ "waiting" \notin Serials
  BY <1>0, SerialOptionsAreValid DEF DrainReturns, Release, SInv, TypeOK
<1>2. /\ serial' = [serial EXCEPT ![s] = d] /\ serial'[s] = d
      /\ \A u \in Serials \ {s} : serial'[u] = serial[u]
  BY <1>0, <1>1 DEF DrainReturns, Drained
<1>3. e.running = 0
  BY <1>0, <1>1 DEF Counted
<1>4. /\ f \in SerialType /\ f.running = 0 /\ f.tasks = <<>> /\ f.state = e.state
      /\ f.drain_scheduled = FALSE /\ f.stop_mode = e.stop_mode
  BY <1>1, <1>3 DEF SerialType
<1> HIDE DEF f
<1>5. /\ d \in SerialType /\ d.running = 0 /\ d.tasks = <<>>
      /\ d.drain_scheduled = FALSE /\ d.stop_mode = e.stop_mode
      /\ d.state = e.state \/ d.state = "Stopped"
  BY <1>4, DrainedStops
<1> HIDE DEF d
<1>6. /\ worker'[w] = "waiting" /\ \A v \in Workers \ {w} : worker'[v] = worker[v]
      /\ worker' \in [Workers -> Serials \cup DirectTasks \cup {"waiting", "exited"}]
  BY <1>1
<1>7. TypeOK'
  <2>1. serial' \in [Serials -> SerialType]
    BY <1>1, <1>2, <1>5
  <2>2. Len(<<>>) <= MaximumSerialTasks
    BY SerialOptionsAreValid
  <2>3. \A u \in Serials : Len(serial'[u].tasks) <= MaximumSerialTasks
    BY <1>2, <1>5, <2>2 DEF SInv, TypeOK
  <2> QED BY <1>1, <1>6, <2>1, <2>3 DEF SInv, TypeOK
<1>8. /\ \A v \in Workers : worker'[v] # s
      /\ \A i \in DOMAIN pool.tasks : pool.tasks[i] # s
  <2>1. \A v \in Workers : worker[v] = s => v = w
    BY <1>0, <1>1 DEF Placed
  <2> QED BY <1>0, <1>1, <1>6, <2>1 DEF Placed
<1>9. Placed(s)' /\ Counted(s)' /\ Ordered(s)'
  <2>1. Placed(s)'
    BY <1>1, <1>8 DEF Placed
  <2>2. Counted(s)'
    BY <1>2, <1>5, <1>8 DEF Counted
  <2>3. Ordered(s)'
    BY <1>1, <1>2, <1>5 DEF Ordered
  <2> QED BY <2>1, <2>2, <2>3
<1>10. ASSUME NEW u \in Serials, u # s PROVE Placed(u)' /\ Counted(u)' /\ Ordered(u)'
  <2>1. /\ Placed(u) /\ Counted(u) /\ Ordered(u) /\ serial'[u] = serial[u]
        /\ \A v \in Workers : worker'[v] = u <=> worker[v] = u
    BY <1>0, <1>1, <1>2, <1>6, <1>10 DEF SInv
  <2>2. Placed(u)'
    BY <1>1, <2>1 DEF Placed
  <2>3. Counted(u)'
    BY <1>1, <2>1 DEF Counted
  <2>4. Ordered(u)'
    BY <1>1, <2>1 DEF Ordered
  <2> QED BY <2>2, <2>3, <2>4
<1>11. \A v \in Workers : worker'[v] \notin Serials => executing'[v] = 0
  BY <1>1, <1>6 DEF SInv
<1> QED BY <1>7, <1>9, <1>10, <1>11 DEF SInv

\* Every step of the callers, the pool and its workers keeps the invariant.
LEMMA SInvInductive ==
    ASSUME SInv, [Next]_vars PROVE SInv'
<1>1. CASE UNCHANGED vars
  <2>1. UNCHANGED <<pool, worker, serial, executing, offered, accepted, begun, direct>>
    BY <1>1 DEF vars
  <2>2. TypeOK'
    BY <2>1 DEF SInv, TypeOK
  <2>3. ASSUME NEW s \in Serials PROVE Placed(s)' /\ Counted(s)' /\ Ordered(s)'
    <3>1. Placed(s)'
      BY <2>1 DEF SInv, Placed
    <3>2. Counted(s)'
      BY <2>1 DEF SInv, Counted
    <3>3. Ordered(s)'
      BY <2>1 DEF SInv, Ordered
    <3> QED BY <3>1, <3>2, <3>3
  <2>4. \A w \in Workers : worker'[w] \notin Serials => executing'[w] = 0
    BY <2>1 DEF SInv
  <2> QED BY <2>2, <2>3, <2>4 DEF SInv
<1>2. CASE \E s \in Serials : Post(s) \/ \E mode \in StopModes : Stop(s, mode)
  BY <1>2, PostKeeps, StopKeeps
<1>3. CASE \E task \in DirectTasks : PostDirect(task)
  BY <1>3, PostDirectKeeps
<1>4. CASE \E mode \in PoolStopModes : StopPool(mode)
  BY <1>4, StopPoolKeeps
<1>5. CASE \E w \in Workers : PoolStep(w)
  BY <1>5, WorkerTakesKeeps, WorkerExitsKeeps DEF PoolStep
<1>6. CASE \E w \in Workers : DirectReturns(w)
  BY <1>6, DirectReturnsKeeps
<1>7. CASE \E w \in Workers : DrainTakes(w) \/ TaskReturns(w) \/ DrainReturns(w)
  BY <1>7, DrainTakesKeeps, TaskReturnsKeeps, DrainReturnsKeeps
<1> QED BY <1>1, <1>2, <1>3, <1>4, <1>5, <1>6, <1>7 DEF Next

------------------------------------------------------------------------------
(* The theorems *)

\* Where the drain task of every serial executor is, what running counts and
\* what began hold in every state.
THEOREM SerialInvariance == Spec => []SInv
<1>1. SInv /\ [Next]_vars => SInv'
  BY SInvInductive
<1> QED BY <1>1, InitSInv, PTL DEF Spec

\* "Non-overlapping execution": however many threads the pool has, two of them
\* are never in Drain of the same serial executor.
THEOREM SerialNeverOverlaps == Spec => []NonOverlapping
<1>1. SInv => NonOverlapping
  BY DEF SInv, NonOverlapping, Placed
<1> QED BY <1>1, SerialInvariance, PTL

\* "FIFO": tasks begin in the order in which Post accepted them, each once, and
\* none is lost until CancelPending.
THEOREM SerialBeginsInOrder == Spec => []BeginsInOrder
<1>1. SInv => BeginsInOrder
  BY DEF SInv, BeginsInOrder, Ordered, IsConcat
<1> QED BY <1>1, SerialInvariance, PTL

\* A serial executor reports Stopped only when no thread executes one of its
\* tasks and none waits.
THEOREM SerialStopsQuietly == Spec => []StoppedIsQuiet
<1>1. SInv => StoppedIsQuiet
  <2> SUFFICES ASSUME SInv, NEW s \in Serials, serial[s].state = "Stopped"
               PROVE  /\ serial[s].tasks = <<>>
                      /\ \A w \in Workers : worker[w] = s => executing[w] = 0
    BY DEF StoppedIsQuiet
  <2>1. Counted(s)
    BY DEF SInv
  <2> QED BY <2>1 DEF Counted
<1> QED BY <1>1, SerialInvariance, PTL

------------------------------------------------------------------------------
(* The refinement of ExecutorContract *)

\* The tasks of s that a worker executes.
Runs(s) == {n \in 1..MaxPosts : \E w \in Workers : worker[w] = s /\ executing[w] = n}

\* A task is accepted once, under the number it was offered with; what is
\* executed has begun.
Numbered(s) ==
    /\ offered[s] \in 0..MaxPosts
    /\ \A i \in 1..Len(accepted[s]) : accepted[s][i] \in 1..offered[s]
    /\ \A i, j \in 1..Len(accepted[s]) : accepted[s][i] = accepted[s][j] => i = j
    /\ \A w \in Workers : worker[w] = s /\ executing[w] # 0 =>
           executing[w] \in Elements(begun[s])

NInv == SInv /\ \A s \in Serials : Numbered(s)

LEMMA ElementsAppend ==
    ASSUME NEW a \in Seq(Nat), NEW x \in Nat
    PROVE  Elements(Append(a, x)) = Elements(a) \cup {x}
<1> DEFINE b == Append(a, x)
<1>1. /\ DOMAIN b = 1..Len(a) + 1 /\ DOMAIN a = 1..Len(a) /\ Len(a) \in Nat
      /\ \A i \in 1..Len(a) : b[i] = a[i]
      /\ b[Len(a) + 1] = x
  BY AppendSeq
<1>2. \A i \in 1..Len(a) + 1 : i \in 1..Len(a) \/ i = Len(a) + 1
  BY <1>1
<1>3. 1..Len(a) \subseteq 1..Len(a) + 1 /\ Len(a) + 1 \in 1..Len(a) + 1
  BY <1>1
<1> HIDE DEF b
<1> QED BY <1>1, <1>2, <1>3 DEF Elements, b

LEMMA ElementsTail ==
    ASSUME NEW a \in Seq(Nat), a # <<>>
    PROVE  Elements(a) = Elements(Tail(a)) \cup {Head(a)}
<1> DEFINE b == Tail(a)
           n == Len(a)
<1>1. /\ DOMAIN b = 1..(n - 1) /\ DOMAIN a = 1..n /\ n \in Nat \ {0}
      /\ \A i \in 1..(n - 1) : b[i] = a[i + 1]
      /\ Head(a) = a[1]
  BY TailSeq
<1> HIDE DEF b, n
<1>2. ASSUME NEW i \in 1..n PROVE a[i] \in Elements(b) \cup {Head(a)}
  <2>1. CASE i = 1
    BY <1>1, <2>1
  <2>2. CASE i # 1
    <3>1. i - 1 \in 1..(n - 1) /\ (i - 1) + 1 = i
      BY <1>1, <2>2
    <3>2. b[i - 1] = a[i]
      BY <1>1, <3>1
    <3> QED BY <1>1, <3>1, <3>2 DEF Elements
  <2> QED BY <2>1, <2>2
<1>3. ASSUME NEW i \in 1..(n - 1) PROVE b[i] \in Elements(a)
  <2>1. i + 1 \in 1..n
    BY <1>1
  <2> QED BY <1>1, <2>1 DEF Elements
<1>4. Head(a) \in Elements(a)
  <2>1. 1 \in 1..n
    BY <1>1
  <2> QED BY <1>1, <2>1 DEF Elements
<1>5. Elements(a) \subseteq Elements(b) \cup {Head(a)}
  BY <1>1, <1>2 DEF Elements
<1>6. Elements(b) \subseteq Elements(a)
  BY <1>1, <1>3 DEF Elements
<1> QED BY <1>4, <1>5, <1>6 DEF b

\* A step that leaves the history of s alone and gives it no running task.
LEMMA HistoryStays ==
    ASSUME NEW s \in Serials, Numbered(s), begun'[s] = begun[s],
           accepted'[s] = accepted[s], offered'[s] \in offered[s]..MaxPosts,
           \A w \in Workers : worker'[w] = s /\ executing'[w] # 0 =>
               worker[w] = s /\ executing'[w] = executing[w]
    PROVE  Numbered(s)'
<1>1. offered'[s] \in 0..MaxPosts /\ 1..offered[s] \subseteq 1..offered'[s]
  BY SerialOptionsAreValid DEF Numbered
<1>2. \A i \in 1..Len(accepted'[s]) : accepted'[s][i] \in 1..offered'[s]
  BY <1>1 DEF Numbered
<1> QED BY <1>1, <1>2 DEF Numbered

LEMMA PostNumbers ==
    ASSUME NInv, NEW s \in Serials, Post(s), NEW u \in Serials PROVE Numbered(u)'
<1> DEFINE task == offered[s] + 1
<1>1. /\ offered' = [offered EXCEPT ![s] = task] /\ offered[s] < MaxPosts
      /\ UNCHANGED <<worker, executing, begun>>
      /\ accepted' = accepted \/ accepted' = [accepted EXCEPT ![s] = Append(accepted[s], task)]
  BY DEF Post
<1>2. /\ offered \in [Serials -> Nat] /\ accepted \in [Serials -> Seq(Nat)]
      /\ Numbered(u) /\ Numbered(s)
  BY DEF NInv, SInv, TypeOK
<1>3. CASE accepted'[u] = accepted[u]
  <2>1. offered'[u] \in offered[u]..MaxPosts
    BY <1>1, <1>2, SerialOptionsAreValid DEF Numbered
  <2> QED BY <1>1, <1>2, <1>3, <2>1, HistoryStays
<1>4. CASE accepted'[u] # accepted[u]
  <2>1. u = s /\ accepted'[s] = Append(accepted[s], task)
    BY <1>1, <1>2, <1>4
  <2> DEFINE a == accepted[s]
             b == Append(a, task)
             n == offered[s]
  <2>2. /\ n \in Nat /\ a \in Seq(Nat) /\ task \in Nat /\ task = n + 1
        /\ n < MaxPosts /\ MaxPosts \in Nat
        /\ \A i \in 1..Len(a) : a[i] \in 1..n
        /\ \A i, j \in 1..Len(a) : a[i] = a[j] => i = j
    BY <1>1, <1>2, SerialOptionsAreValid DEF Numbered
  <2> HIDE DEF a, n, task
  <2>3. /\ Len(b) = Len(a) + 1 /\ Len(a) \in Nat /\ b[Len(a) + 1] = task
        /\ \A i \in 1..Len(a) : b[i] = a[i]
    BY <2>2, AppendSeq
  <2> HIDE DEF b
  <2>4. \A i \in 1..Len(b) :
            \/ i \in 1..Len(a) /\ b[i] = a[i]
            \/ i = Len(a) + 1 /\ b[i] = task
    BY <2>3
  <2>5. \A i \in 1..Len(a) : a[i] # task
    BY <2>2
  <2>6. \A i, j \in 1..Len(b) : b[i] = b[j] => i = j
    BY <2>2, <2>4, <2>5
  <2>7. 1..n \subseteq 1..task /\ task \in 1..task /\ task \in 0..MaxPosts
    BY <2>2
  <2>8. \A i \in 1..Len(b) : b[i] \in 1..task
    BY <2>2, <2>4, <2>7
  <2>9. offered'[s] = task /\ accepted'[s] = b
    BY <1>1, <1>2, <2>1 DEF task, b, a
  <2> QED BY <1>1, <1>2, <2>1, <2>6, <2>7, <2>8, <2>9 DEF Numbered
<1> QED BY <1>3, <1>4

LEMMA DrainTakesNumbers ==
    ASSUME NInv, NEW w \in Workers, DrainTakes(w), NEW u \in Serials PROVE Numbered(u)'
<1>0. PICK s \in Serials : worker[w] = s
  BY DEF DrainTakes
<1> DEFINE h == Head(serial[s].tasks)
<1>1. /\ executing' = [executing EXCEPT ![w] = h]
      /\ begun' = [begun EXCEPT ![s] = Append(begun[s], h)]
      /\ UNCHANGED <<worker, offered, accepted>> /\ serial[s].tasks # <<>>
  BY <1>0 DEF DrainTakes
<1>2. /\ executing \in [Workers -> Nat] /\ begun \in [Serials -> Seq(Nat)]
      /\ serial[s].tasks \in Seq(Nat) /\ offered \in [Serials -> Nat]
      /\ Numbered(u) /\ Placed(s)
  BY DEF NInv, SInv, TypeOK, SerialType
<1>3. h \in Nat
  BY <1>1, <1>2, TailSeq
<1> HIDE DEF h
<1>4. CASE u # s
  <2>1. /\ begun'[u] = begun[u] /\ offered'[u] \in offered[u]..MaxPosts
        /\ \A v \in Workers : worker[v] = u => executing'[v] = executing[v]
    BY <1>0, <1>1, <1>2, <1>4, SerialOptionsAreValid DEF Numbered
  <2> QED BY <1>1, <1>2, <2>1, HistoryStays
<1>5. CASE u = s
  <2>1. begun'[s] = Append(begun[s], h) /\ begun[s] \in Seq(Nat)
    BY <1>1, <1>2
  <2>2. Elements(begun'[s]) = Elements(begun[s]) \cup {h}
    BY <1>3, <2>1, ElementsAppend
  <2>3. \A v \in Workers : worker'[v] = s /\ executing'[v] # 0 =>
            executing'[v] \in Elements(begun'[s])
    BY <1>0, <1>1, <1>2, <2>2 DEF Placed
  <2> QED BY <1>1, <1>2, <1>5, <2>3 DEF Numbered
<1> QED BY <1>4, <1>5

LEMMA NInvInductive == ASSUME NInv, [Next]_vars PROVE NInv'
<1>0. SInv /\ SInv'
  BY SInvInductive DEF NInv
<1> SUFFICES ASSUME NEW u \in Serials PROVE Numbered(u)'
  BY <1>0 DEF NInv
<1>1. Numbered(u) /\ offered[u] \in Nat /\ offered[u] \in offered[u]..MaxPosts
  BY SerialOptionsAreValid DEF NInv, SInv, TypeOK, Numbered
<1>2. CASE \E s \in Serials : Post(s)
  BY <1>2, PostNumbers
<1>3. CASE \E w \in Workers : DrainTakes(w)
  BY <1>3, DrainTakesNumbers
<1>4. CASE /\ UNCHANGED <<begun, accepted, offered>>
           /\ \A w \in Workers : worker'[w] = u /\ executing'[w] # 0 =>
                  worker[w] = u /\ executing'[w] = executing[w]
  BY <1>1, <1>4, HistoryStays
<1>5. CASE \/ UNCHANGED vars
           \/ \E s \in Serials, mode \in StopModes : Stop(s, mode)
           \/ \E task \in DirectTasks : PostDirect(task)
           \/ \E mode \in PoolStopModes : StopPool(mode)
  BY <1>4, <1>5 DEF vars, Stop, PostDirect, StopPool
<1>6. ASSUME NEW w \in Workers,
             PoolStep(w) \/ DirectReturns(w) \/ TaskReturns(w) \/ DrainReturns(w)
      PROVE  Numbered(u)'
  <2>1. /\ worker \in [Workers -> Serials \cup DirectTasks \cup {"waiting", "exited"}]
        /\ executing \in [Workers -> Nat]
        /\ \A v \in Workers : worker[v] \notin Serials => executing[v] = 0
        /\ "waiting" \notin Serials /\ "exited" \notin Serials
    BY <1>0, SerialOptionsAreValid DEF SInv, TypeOK
  <2>2. CASE PoolStep(w)
    <3>1. /\ worker[w] = "waiting" /\ \E z : worker' = [worker EXCEPT ![w] = z]
          /\ UNCHANGED <<executing, begun, accepted, offered>>
      BY <2>2 DEF PoolStep, WorkerTakes, WorkerExits
    <3>2. executing'[w] = 0
      BY <2>1, <3>1
    <3>3. \A v \in Workers \ {w} : worker'[v] = worker[v]
      BY <2>1, <3>1
    <3> QED BY <1>4, <3>1, <3>2, <3>3
  <2>3. CASE DirectReturns(w) \/ DrainReturns(w)
    <3>1. /\ worker' = [worker EXCEPT ![w] = "waiting"]
          /\ UNCHANGED <<executing, begun, accepted, offered>>
      BY <2>3 DEF DirectReturns, DrainReturns, Release
    <3> QED BY <1>4, <2>1, <3>1
  <2>4. CASE TaskReturns(w)
    <3>1. /\ executing' = [executing EXCEPT ![w] = 0]
          /\ UNCHANGED <<worker, begun, accepted, offered>>
      BY <2>4 DEF TaskReturns
    <3> QED BY <1>4, <2>1, <3>1
  <2> QED BY <1>6, <2>2, <2>3, <2>4
<1> QED BY <1>2, <1>3, <1>5, <1>6 DEF Next

LEMMA NumberedInvariance == Spec => []NInv
<1>1. Init => NInv
  <2> SUFFICES ASSUME Init, NEW s \in Serials PROVE Numbered(s)
    BY InitSInv DEF NInv
  <2>1. /\ offered[s] = 0 /\ accepted[s] = <<>>
        /\ \A w \in Workers : executing[w] = 0
    BY DEF Init
  <2>2. 1..Len(<<>>) = {} /\ 0 \in 0..MaxPosts
    BY SerialOptionsAreValid
  <2> QED BY <2>1, <2>2 DEF Numbered
<1>2. NInv /\ [Next]_vars => NInv'
  BY NInvInductive
<1> QED BY <1>1, <1>2, PTL DEF Spec

\* The status of task n when B began, R run, Q wait and A were accepted.
StatusIn(B, R, Q, A, n) ==
    IF n \in B THEN IF n \in R THEN "running" ELSE "done"
    ELSE IF n \in Q THEN "accepted" ELSE IF n \in A THEN "dropped" ELSE "new"

Statuses(s) == [n \in 1..MaxPosts |-> Status(s, n)]

LEMMA StatusIsIn ==
    ASSUME NEW s, NEW n \in 1..MaxPosts
    PROVE  Statuses(s)[n] = StatusIn(Elements(begun[s]), Runs(s),
                                     Elements(serial[s].tasks), Elements(accepted[s]), n)
BY DEF Statuses, Status, StatusIn, Runs

LEMMA StatusIsInPrime ==
    ASSUME NEW s, NEW n \in 1..MaxPosts
    PROVE  Statuses(s)'[n] = StatusIn(Elements(begun'[s]), Runs(s)',
                                      Elements(serial'[s].tasks), Elements(accepted'[s]), n)
BY DEF Statuses, Status, StatusIn, Runs

\* What waits has been accepted and has not begun; what runs has begun.
LEMMA TasksArePlaced ==
    ASSUME NInv, NEW s \in Serials
    PROVE  /\ Elements(begun[s]) \subseteq Elements(accepted[s])
           /\ Elements(serial[s].tasks) \subseteq Elements(accepted[s])
           /\ Elements(begun[s]) \cap Elements(serial[s].tasks) = {}
           /\ Runs(s) \subseteq Elements(begun[s])
           /\ Elements(accepted[s]) \subseteq 1..offered[s]
           /\ Elements(accepted[s]) \subseteq 1..MaxPosts
<1> DEFINE a == accepted[s]
           b == begun[s]
           q == serial[s].tasks
<1>1. /\ a \in Seq(Nat) /\ b \in Seq(Nat) /\ q \in Seq(Nat) /\ offered[s] \in 0..MaxPosts
      /\ q = <<>> \/ IsConcat(b, q, a)
      /\ Len(b) <= Len(a) /\ b = SubSeq(a, 1, Len(b))
      /\ \A i \in 1..Len(a) : a[i] \in 1..offered[s]
      /\ \A i, j \in 1..Len(a) : a[i] = a[j] => i = j
  BY DEF NInv, SInv, TypeOK, SerialType, StopMode, Ordered, Numbered
<1>2. Runs(s) \subseteq Elements(begun[s])
  BY DEF NInv, Numbered, Runs
<1> HIDE DEF a, b, q
<1>3. Len(a) \in Nat /\ Len(b) \in Nat /\ DOMAIN a = 1..Len(a) /\ DOMAIN b = 1..Len(b)
  BY <1>1
<1>4. \A i \in 1..Len(b) : i \in 1..Len(a) /\ b[i] = a[i]
  BY <1>1, <1>3
<1>5. Elements(b) \subseteq Elements(a)
  BY <1>3, <1>4 DEF Elements
<1>6. Elements(q) \subseteq Elements(a) /\ Elements(b) \cap Elements(q) = {}
  <2>1. CASE q = <<>>
    <3>1. Elements(q) = {}
      BY <2>1 DEF Elements
    <3> QED BY <3>1
  <2>2. CASE IsConcat(b, q, a)
    <3>1. /\ DOMAIN q = 1..Len(q)
          /\ \A i \in 1..Len(q) : Len(b) + i \in 1..Len(a) /\ a[Len(b) + i] = q[i]
      BY <1>1, <2>2 DEF IsConcat
    <3>2. \A i \in 1..Len(q), j \in 1..Len(b) : Len(b) + i # j
      BY <1>1
    <3>3. \A i \in 1..Len(q), j \in 1..Len(b) : q[i] # b[j]
      <4> SUFFICES ASSUME NEW i \in 1..Len(q), NEW j \in 1..Len(b), q[i] = b[j]
                   PROVE  FALSE
        OBVIOUS
      <4>1. /\ Len(b) + i \in 1..Len(a) /\ a[Len(b) + i] = q[i]
            /\ j \in 1..Len(a) /\ b[j] = a[j]
        BY <1>4, <3>1
      <4>2. Len(b) + i = j
        BY <1>1, <4>1
      <4> QED BY <3>2, <4>2
    <3> QED BY <1>3, <3>1, <3>3 DEF Elements
  <2> QED BY <1>1, <2>1, <2>2
<1>7. Elements(a) \subseteq 1..offered[s]
  BY <1>1, <1>3 DEF Elements
<1>8. 1..offered[s] \subseteq 1..MaxPosts
  BY <1>1, SerialOptionsAreValid
<1> QED BY <1>2, <1>5, <1>6, <1>7, <1>8 DEF a, b, q

LEMMA SameStatuses ==
    ASSUME NEW s, serial'[s].tasks = serial[s].tasks, begun'[s] = begun[s],
           accepted'[s] = accepted[s], Runs(s)' = Runs(s)
    PROVE  /\ \A n \in 1..MaxPosts : Statuses(s)'[n] = Statuses(s)[n]
           /\ Statuses(s)' = Statuses(s)
<1>1. \A n \in 1..MaxPosts : Statuses(s)'[n] = Statuses(s)[n]
  BY StatusIsIn, StatusIsInPrime
<1> QED BY <1>1 DEF Statuses

\* A step that touches nothing of s is none of its contract.
LEMMA SameContract ==
    ASSUME NEW s, serial'[s].state = serial[s].state,
           serial'[s].stop_mode = serial[s].stop_mode,
           serial'[s].tasks = serial[s].tasks, begun'[s] = begun[s],
           accepted'[s] = accepted[s], Runs(s)' = Runs(s)
    PROVE  UNCHANGED Contract(s)!vars
<1>1. Statuses(s)' = Statuses(s)
  BY SameStatuses
<1> QED BY <1>1 DEF Contract!vars, Statuses

\* Stopped is reported when no task of s waits or runs.
LEMMA StoppedContract ==
    ASSUME NInv', NEW s \in Serials, serial'[s].state = "Stopped"
    PROVE  \A n \in 1..MaxPosts :
               Statuses(s)'[n] \notin {"admitted", "accepted", "running"}
<1>1. serial'[s].tasks = <<>> /\ serial'[s].running = 0
  BY DEF NInv, SInv, Counted
<1>2. Elements(serial'[s].tasks) = {}
  BY <1>1 DEF Elements
<1>3. \A w \in Workers : worker'[w] = s => executing'[w] = 0
  BY <1>1 DEF NInv, SInv, Counted
<1>4. Runs(s)' = {}
  BY <1>3, SerialOptionsAreValid DEF Runs
<1> QED BY <1>2, <1>4, StatusIsInPrime DEF StatusIn

LEMMA PostContract ==
    ASSUME NInv, NInv', NEW u \in Serials, NEW s \in Serials, Post(s)
    PROVE  Contract(u)!Next \/ UNCHANGED Contract(u)!vars
<1> DEFINE task == offered[s] + 1
           e == serial[s]
<1>1. /\ serial \in [Serials -> SerialType] /\ accepted \in [Serials -> Seq(Nat)]
      /\ e \in SerialType /\ accepted[s] \in Seq(Nat) /\ offered[s] \in Nat
      /\ offered[s] < MaxPosts /\ e.state = "Running"
      /\ UNCHANGED <<worker, executing, begun>>
  BY DEF Post, NInv, SInv, TypeOK
<1>2. Runs(u)' = Runs(u)
  BY <1>1 DEF Runs
<1>3. \/ serial' = serial /\ accepted' = accepted
      \/ serial' = [serial EXCEPT ![s].state = "Stopped"] /\ accepted' = accepted
      \/ /\ accepted' = [accepted EXCEPT ![s] = Append(accepted[s], task)]
         /\ \/ serial' = [serial EXCEPT ![s] = Pushed(e, task)]
            \/ serial' = [serial EXCEPT ![s] =
                             [Pushed(e, task) EXCEPT !.drain_scheduled = TRUE]]
  BY DEF Post
<1>4. CASE \/ u # s
           \/ serial' = serial /\ accepted' = accepted
  <2>1. serial'[u] = serial[u] /\ accepted'[u] = accepted[u]
    BY <1>1, <1>3, <1>4
  <2> QED BY <1>1, <1>2, <2>1, SameContract
<1>5. CASE u = s /\ serial' = [serial EXCEPT ![s].state = "Stopped"] /\ accepted' = accepted
  <2>1. /\ serial'[s].state = "Stopped" /\ serial'[s].stop_mode = e.stop_mode
        /\ serial'[s].tasks = e.tasks
    BY <1>1, <1>5 DEF SerialType
  <2>2. \A n \in 1..MaxPosts : Statuses(s)'[n] = Statuses(s)[n]
    <3>1. /\ serial'[s].tasks = serial[s].tasks /\ begun'[s] = begun[s]
          /\ accepted'[s] = accepted[s] /\ Runs(s)' = Runs(s)
      BY <1>1, <1>2, <1>5, <2>1
    <3> QED BY <3>1, SameStatuses
  <2>3. Contract(s)!Quiet(Statuses(s)')
    BY <2>1, StoppedContract DEF Contract!Quiet
  <2>4. PICK none : none = {}
    OBVIOUS
  <2>5. Statuses(s)' = [n \in 1..MaxPosts |->
                            IF n \in none THEN "dropped" ELSE Statuses(s)[n]]
    BY <2>2, <2>4 DEF Statuses
  <2>6. e.stop_mode \in {"Drain", "CancelPending"}
    BY <1>1 DEF SerialType, StopMode
  <2>7. none \in SUBSET {n \in 1..MaxPosts : Statuses(s)[n] = "accepted"}
    BY <2>4
  <2>8. Contract(s)!Stop
    BY <1>1, <2>1, <2>3, <2>4, <2>5, <2>6, <2>7 DEF Contract!Stop, Contract!StopMoves, Statuses
  <2> QED BY <1>5, <2>8 DEF Contract!Next
<1>6. CASE /\ u = s
           /\ accepted' = [accepted EXCEPT ![s] = Append(accepted[s], task)]
           /\ \/ serial' = [serial EXCEPT ![s] = Pushed(e, task)]
              \/ serial' = [serial EXCEPT ![s] =
                               [Pushed(e, task) EXCEPT !.drain_scheduled = TRUE]]
  <2>1. /\ serial'[s].state = "Running" /\ serial'[s].stop_mode = e.stop_mode
        /\ serial'[s].tasks = Append(e.tasks, task)
        /\ accepted'[s] = Append(accepted[s], task)
    <3>1. /\ Pushed(e, task).state = e.state /\ Pushed(e, task).stop_mode = e.stop_mode
          /\ Pushed(e, task).tasks = Append(e.tasks, task)
          /\ Pushed(e, task) = [e EXCEPT !.tasks = Append(e.tasks, task)]
      BY <1>1 DEF SerialType, Pushed
    <3>2. \/ serial'[s] = Pushed(e, task)
          \/ serial'[s] = [Pushed(e, task) EXCEPT !.drain_scheduled = TRUE]
      BY <1>1, <1>6
    <3>3. accepted'[s] = Append(accepted[s], task)
      BY <1>1, <1>6
    <3> QED BY <1>1, <3>1, <3>2, <3>3 DEF SerialType
  <2>2. /\ task \in Nat /\ task \in 1..MaxPosts /\ task \notin 1..offered[s]
        /\ e.tasks \in Seq(Nat)
    <3>1. e.tasks \in Seq(Nat)
      BY <1>1 DEF SerialType
    <3>2. MaxPosts \in Nat
      BY SerialOptionsAreValid
    <3> QED BY <1>1, <3>1, <3>2
  <2> HIDE DEF task
  <2>3. /\ Elements(serial'[s].tasks) = Elements(e.tasks) \cup {task}
        /\ Elements(accepted'[s]) = Elements(accepted[s]) \cup {task}
    <3>1. /\ Elements(Append(e.tasks, task)) = Elements(e.tasks) \cup {task}
          /\ Elements(Append(accepted[s], task)) = Elements(accepted[s]) \cup {task}
      BY <1>1, <2>2, ElementsAppend
    <3> QED BY <2>1, <3>1
  <2>4. task \notin Elements(begun[s]) \cup Elements(e.tasks) \cup Elements(accepted[s])
    BY <2>2, TasksArePlaced
  <2>5. Statuses(s)[task] = "new" /\ Statuses(s)'[task] = "accepted"
    BY <1>1, <2>2, <2>3, <2>4, StatusIsIn, StatusIsInPrime DEF StatusIn
  <2>6. \A n \in 1..MaxPosts : n # task => Statuses(s)'[n] = Statuses(s)[n]
    <3> SUFFICES ASSUME NEW n \in 1..MaxPosts, n # task
                 PROVE  Statuses(s)'[n] = Statuses(s)[n]
      OBVIOUS
    <3>1. begun'[s] = begun[s] /\ Runs(s)' = Runs(s)
      BY <1>1, <1>2, <1>6
    <3>2. Statuses(s)'[n] = StatusIn(Elements(begun[s]), Runs(s), Elements(e.tasks) \cup {task},
                                     Elements(accepted[s]) \cup {task}, n)
      BY <2>3, <3>1, StatusIsInPrime
    <3>3. Statuses(s)[n] = StatusIn(Elements(begun[s]), Runs(s), Elements(e.tasks),
                                    Elements(accepted[s]), n)
      BY StatusIsIn
    <3> QED BY <3>2, <3>3 DEF StatusIn
  <2>7. Statuses(s)' = [Statuses(s) EXCEPT ![task] = "accepted"]
    BY <2>2, <2>5, <2>6 DEF Statuses
  <2>8. Contract(s)!Admit(task)
    BY <1>1, <2>1, <2>5, <2>7 DEF Contract!Admit, Statuses
  <2> QED BY <1>6, <2>2, <2>8 DEF Contract!Next
<1> HIDE DEF task, e
<1> QED BY <1>3, <1>4, <1>5, <1>6

LEMMA DrainTakesContract ==
    ASSUME NInv, NEW u \in Serials, NEW w \in Workers, DrainTakes(w)
    PROVE  Contract(u)!Next \/ UNCHANGED Contract(u)!vars
<1>0. PICK s \in Serials : worker[w] = s
  BY DEF DrainTakes
<1> DEFINE h == Head(serial[s].tasks)
<1>1. /\ executing[w] = 0 /\ executing' = [executing EXCEPT ![w] = h]
      /\ begun' = [begun EXCEPT ![s] = Append(begun[s], h)]
      /\ serial' = [serial EXCEPT ![s].tasks = Tail(serial[s].tasks),
                                  ![s].running = serial[s].running + 1]
      /\ UNCHANGED <<worker, accepted>> /\ serial[s].tasks # <<>>
  BY <1>0 DEF DrainTakes
<1>2. /\ executing \in [Workers -> Nat] /\ begun \in [Serials -> Seq(Nat)]
      /\ serial \in [Serials -> SerialType] /\ serial[s] \in SerialType
      /\ serial[s].tasks \in Seq(Nat) /\ begun[s] \in Seq(Nat)
  BY DEF NInv, SInv, TypeOK, SerialType
<1>3. /\ h \in Nat
      /\ Elements(serial[s].tasks) = Elements(Tail(serial[s].tasks)) \cup {h}
  BY <1>1, <1>2, TailSeq, ElementsTail
<1> HIDE DEF h
<1>4. CASE u # s
  <2>1. serial'[u] = serial[u] /\ begun'[u] = begun[u]
    BY <1>1, <1>2, <1>4
  <2>2. Runs(u)' = Runs(u)
    BY <1>0, <1>1, <1>2, <1>4 DEF Runs
  <2> QED BY <1>1, <2>1, <2>2, SameContract
<1>5. CASE u = s
  <2>1. /\ serial'[s].state = serial[s].state
        /\ serial'[s].stop_mode = serial[s].stop_mode
        /\ serial'[s].tasks = Tail(serial[s].tasks)
        /\ begun'[s] = Append(begun[s], h)
    BY <1>1, <1>2 DEF SerialType
  <2>2. Elements(begun'[s]) = Elements(begun[s]) \cup {h}
    <3>1. Elements(Append(begun[s], h)) = Elements(begun[s]) \cup {h}
      BY <1>2, <1>3, ElementsAppend
    <3> QED BY <2>1, <3>1
  <2>3. h \in 1..MaxPosts /\ h \notin Elements(begun[s])
    BY <1>3, TasksArePlaced
  <2>4. Runs(s)' = Runs(s) \cup {h}
    BY <1>0, <1>1, <1>2, <2>3, SerialOptionsAreValid DEF Runs
  <2>5. Statuses(s)[h] = "accepted" /\ Statuses(s)'[h] = "running"
    BY <1>3, <2>2, <2>3, <2>4, StatusIsIn, StatusIsInPrime DEF StatusIn
  <2>6. \A n \in 1..MaxPosts : n # h => Statuses(s)'[n] = Statuses(s)[n]
    <3> SUFFICES ASSUME NEW n \in 1..MaxPosts, n # h
                 PROVE  Statuses(s)'[n] = Statuses(s)[n]
      OBVIOUS
    <3>1. Statuses(s)'[n] = StatusIn(Elements(begun[s]) \cup {h}, Runs(s) \cup {h},
                                     Elements(Tail(serial[s].tasks)), Elements(accepted[s]), n)
      BY <1>1, <2>1, <2>2, <2>4, StatusIsInPrime
    <3>2. Statuses(s)[n] = StatusIn(Elements(begun[s]), Runs(s),
                                    Elements(Tail(serial[s].tasks)) \cup {h},
                                    Elements(accepted[s]), n)
      BY <1>3, StatusIsIn
    <3> QED BY <3>1, <3>2 DEF StatusIn
  <2>7. Statuses(s)' = [Statuses(s) EXCEPT ![h] = "running"]
    BY <2>3, <2>5, <2>6 DEF Statuses
  <2>8. Contract(s)!Begin(h)
    BY <2>1, <2>5, <2>7 DEF Contract!Begin, Statuses
  <2> QED BY <1>5, <2>3, <2>8 DEF Contract!Next
<1> QED BY <1>4, <1>5

LEMMA TaskReturnsContract ==
    ASSUME NInv, NInv', NEW u \in Serials, NEW w \in Workers, TaskReturns(w)
    PROVE  Contract(u)!Next \/ UNCHANGED Contract(u)!vars
<1>0. PICK s \in Serials : worker[w] = s
  BY DEF TaskReturns
<1> DEFINE h == executing[w]
           e == [serial[s] EXCEPT !.running = serial[s].running - 1]
<1>1. /\ h # 0 /\ executing' = [executing EXCEPT ![w] = 0]
      /\ serial' = [serial EXCEPT ![s] = MoveToStoppedIfDrainedLocked(e)]
      /\ UNCHANGED <<worker, accepted, begun>>
  BY <1>0 DEF TaskReturns
<1>2. /\ executing \in [Workers -> Nat] /\ serial \in [Serials -> SerialType]
      /\ serial[s] \in SerialType /\ h \in Nat /\ Placed(s)
  BY DEF NInv, SInv, TypeOK
<1>3. h \in Elements(begun[s])
  BY <1>0, <1>1 DEF NInv, Numbered
<1> HIDE DEF h
<1>4. CASE u # s
  <2>1. serial'[u] = serial[u]
    BY <1>1, <1>2, <1>4
  <2>2. Runs(u)' = Runs(u)
    BY <1>0, <1>1, <1>2, <1>4 DEF Runs
  <2> QED BY <1>1, <2>1, <2>2, SameContract
<1>5. CASE u = s
  <2>1. /\ serial'[s].stop_mode = serial[s].stop_mode
        /\ serial'[s].tasks = serial[s].tasks
        /\ \/ serial'[s].state = serial[s].state
           \/ serial[s].state = "Stopping" /\ serial'[s].state = "Stopped"
    BY <1>1, <1>2 DEF SerialType, MoveToStoppedIfDrainedLocked
  <2>2. h \in 1..MaxPosts
    BY <1>3, TasksArePlaced
  <2>3. Runs(s)' = Runs(s) \ {h}
    <3>1. \A v \in Workers : worker[v] = s => v = w
      BY <1>0, <1>2 DEF Placed
    <3>2. Runs(s)' = {}
      BY <1>0, <1>1, <1>2, <3>1, SerialOptionsAreValid DEF Runs
    <3>3. Runs(s) \subseteq {h}
      BY <3>1 DEF Runs, h
    <3> QED BY <3>2, <3>3
  <2>4. h \in Runs(s)
    BY <1>0, <2>2 DEF Runs, h
  <2>5. Statuses(s)[h] = "running" /\ Statuses(s)'[h] = "done"
    BY <1>1, <1>3, <2>2, <2>3, <2>4, StatusIsIn, StatusIsInPrime DEF StatusIn
  <2>6. \A n \in 1..MaxPosts : n # h => Statuses(s)'[n] = Statuses(s)[n]
    BY <1>1, <2>1, <2>3, StatusIsIn, StatusIsInPrime DEF StatusIn
  <2>7. Statuses(s)' = [Statuses(s) EXCEPT ![h] = "done"]
    BY <2>2, <2>5, <2>6 DEF Statuses
  <2>8. serial'[s].state = "Stopped" => Contract(s)!Quiet(Statuses(s)')
    BY StoppedContract DEF Contract!Quiet
  <2>9. Contract(s)!Return(h)
    BY <2>1, <2>5, <2>7, <2>8 DEF Contract!Return, Statuses
  <2> QED BY <1>5, <2>2, <2>9 DEF Contract!Next
<1> QED BY <1>4, <1>5

LEMMA StopContract ==
    ASSUME NInv, NInv', NEW u \in Serials, NEW s \in Serials, NEW mode \in StopModes,
           Stop(s, mode)
    PROVE  Contract(u)!Next \/ UNCHANGED Contract(u)!vars
<1> DEFINE e == serial[s]
<1>1. /\ serial \in [Serials -> SerialType] /\ e \in SerialType /\ e.state # "Stopped"
      /\ serial' = [serial EXCEPT ![s] = SerialStopLocked(e, mode)]
      /\ UNCHANGED <<worker, executing, accepted, begun>>
  BY DEF Stop, NInv, SInv, TypeOK
<1>2. Runs(u)' = Runs(u)
  BY <1>1 DEF Runs
<1>3. CASE u # s
  <2>1. serial'[u] = serial[u]
    BY <1>1, <1>3
  <2> QED BY <1>1, <1>2, <2>1, SameContract
<1>4. CASE u = s
  <2>1. PICK chosen \in StopMode :
            /\ chosen = e.stop_mode \/ chosen = "CancelPending" \/ e.state = "Running"
            /\ serial'[s].stop_mode = chosen
            /\ serial'[s].state \in {"Stopping", "Stopped"}
            /\ serial'[s].tasks = IF chosen = "CancelPending" THEN <<>> ELSE e.tasks
    <3>1. PICK chosen \in StopMode :
              chosen = IF e.state = "Running" \/ mode = "CancelPending"
                       THEN mode ELSE e.stop_mode
      BY <1>1, SerialOptionsAreValid DEF SerialType
    <3>2. serial'[s] = MoveToStoppedIfDrainedLocked(
              [e EXCEPT !.state = "Stopping", !.stop_mode = chosen,
                        !.tasks = IF chosen = "CancelPending" THEN <<>> ELSE e.tasks])
      BY <1>1, <3>1 DEF SerialStopLocked
    <3>3. /\ serial'[s].stop_mode = chosen
          /\ serial'[s].state \in {"Stopping", "Stopped"}
          /\ serial'[s].tasks = IF chosen = "CancelPending" THEN <<>> ELSE e.tasks
      BY <1>1, <3>2 DEF SerialType, MoveToStoppedIfDrainedLocked
    <3> QED BY <3>1, <3>3
  <2>2. PICK given_up : given_up = IF chosen = "CancelPending" THEN Elements(e.tasks) ELSE {}
    OBVIOUS
  <2>3. /\ Elements(begun[s]) \cap Elements(e.tasks) = {}
        /\ Elements(e.tasks) \subseteq Elements(accepted[s])
        /\ Elements(e.tasks) \subseteq 1..MaxPosts
    BY TasksArePlaced
  <2>4. Elements(serial'[s].tasks) = Elements(e.tasks) \ given_up
    <3>1. Elements(<<>>) = {}
      BY DEF Elements
    <3> QED BY <2>1, <2>2, <3>1
  <2>5. ASSUME NEW n \in 1..MaxPosts
        PROVE  /\ n \in given_up => Statuses(s)[n] = "accepted" /\ Statuses(s)'[n] = "dropped"
               /\ n \notin given_up => Statuses(s)'[n] = Statuses(s)[n]
    <3>1. Statuses(s)'[n] = StatusIn(Elements(begun[s]), Runs(s), Elements(e.tasks) \ given_up,
                                     Elements(accepted[s]), n)
      BY <1>1, <1>2, <1>4, <2>4, StatusIsInPrime
    <3>2. Statuses(s)[n] = StatusIn(Elements(begun[s]), Runs(s), Elements(e.tasks),
                                    Elements(accepted[s]), n)
      BY StatusIsIn
    <3> QED BY <2>2, <2>3, <3>1, <3>2 DEF StatusIn
  <2>6. given_up \in SUBSET {n \in 1..MaxPosts : Statuses(s)[n] = "accepted"}
    BY <2>2, <2>3, <2>5
  <2>7. Statuses(s)' = [n \in 1..MaxPosts |->
                            IF n \in given_up THEN "dropped" ELSE Statuses(s)[n]]
    BY <2>5 DEF Statuses
  <2>8. serial'[s].state = "Stopped" => Contract(s)!Quiet(Statuses(s)')
    BY StoppedContract DEF Contract!Quiet
  <2>9. given_up # {} => serial'[s].stop_mode = "CancelPending"
    BY <2>1, <2>2
  <2>10. Contract(s)!StopMoves
    BY <1>1, <2>1, <2>8 DEF Contract!StopMoves, Statuses
  <2>11. serial'[s].stop_mode \in {"Drain", "CancelPending"}
    BY <2>1 DEF StopMode
  <2>12. Contract(s)!Stop
    BY <1>1, <2>1, <2>6, <2>7, <2>9, <2>10, <2>11 DEF Contract!Stop, Statuses
  <2> QED BY <1>4, <2>12 DEF Contract!Next
<1> QED BY <1>3, <1>4

LEMMA DrainReturnsContract ==
    ASSUME NInv, NInv', NEW u \in Serials, NEW w \in Workers, DrainReturns(w)
    PROVE  Contract(u)!Next \/ UNCHANGED Contract(u)!vars
<1>0. PICK s \in Serials : worker[w] = s
  BY DEF DrainReturns
<1> DEFINE e == serial[s]
<1>1. /\ executing[w] = 0 /\ worker' = [worker EXCEPT ![w] = "waiting"]
      /\ serial' = [serial EXCEPT ![s] = Drained(e)]
      /\ UNCHANGED <<executing, accepted, begun>>
  BY <1>0 DEF DrainReturns, Release
<1>2. /\ worker \in [Workers -> Serials \cup DirectTasks \cup {"waiting", "exited"}]
      /\ serial \in [Serials -> SerialType] /\ e \in SerialType
  BY DEF NInv, SInv, TypeOK
<1>3. Runs(u)' = Runs(u)
  BY <1>1, <1>2, SerialOptionsAreValid DEF Runs
<1>4. /\ serial'[s].stop_mode = e.stop_mode /\ serial'[s].tasks = e.tasks
      /\ \/ serial'[s].state = e.state
         \/ e.state = "Stopping" /\ serial'[s].state = "Stopped"
  BY <1>1, <1>2 DEF SerialType, Drained, MoveToStoppedIfDrainedLocked
<1>5. CASE u # s
  <2>1. serial'[u] = serial[u]
    BY <1>1, <1>2, <1>5
  <2> QED BY <1>1, <1>3, <2>1, SameContract
<1>6. CASE u = s /\ serial'[s].state = e.state
  BY <1>1, <1>3, <1>4, <1>6, SameContract
<1>7. CASE u = s /\ e.state = "Stopping" /\ serial'[s].state = "Stopped"
  <2>1. \A n \in 1..MaxPosts : Statuses(s)'[n] = Statuses(s)[n]
    <3>1. /\ serial'[s].tasks = serial[s].tasks /\ begun'[s] = begun[s]
          /\ accepted'[s] = accepted[s] /\ Runs(s)' = Runs(s)
      BY <1>1, <1>3, <1>4, <1>7
    <3> QED BY <3>1, SameStatuses
  <2>2. PICK none : none = {}
    OBVIOUS
  <2>3. Statuses(s)' = [n \in 1..MaxPosts |->
                            IF n \in none THEN "dropped" ELSE Statuses(s)[n]]
    BY <2>1, <2>2 DEF Statuses
  <2>4. none \in SUBSET {n \in 1..MaxPosts : Statuses(s)[n] = "accepted"}
    BY <2>2
  <2>5. e.stop_mode \in {"Drain", "CancelPending"}
    BY <1>2 DEF SerialType, StopMode
  <2>6. Contract(s)!Quiet(Statuses(s)')
    BY <1>7, StoppedContract DEF Contract!Quiet
  <2>7. Contract(s)!Stop
    BY <1>4, <1>7, <2>2, <2>3, <2>4, <2>5, <2>6
       DEF Contract!Stop, Contract!StopMoves, Statuses
  <2> QED BY <1>7, <2>7 DEF Contract!Next
<1> QED BY <1>4, <1>5, <1>6, <1>7

LEMMA SerialSteps ==
    ASSUME NInv, NInv', [Next]_vars, NEW u \in Serials
    PROVE  [Contract(u)!Next]_(Contract(u)!vars)
<1> SUFFICES Contract(u)!Next \/ UNCHANGED Contract(u)!vars
  OBVIOUS
<1>1. CASE \E s \in Serials : Post(s)
  BY <1>1, PostContract
<1>2. CASE \E s \in Serials, mode \in StopModes : Stop(s, mode)
  BY <1>2, StopContract
<1>3. CASE UNCHANGED <<serial, begun, accepted>> /\ Runs(u)' = Runs(u)
  BY <1>3, SameContract
<1>4. CASE \/ UNCHANGED vars
           \/ \E task \in DirectTasks : PostDirect(task)
           \/ \E mode \in PoolStopModes : StopPool(mode)
  <2>1. UNCHANGED <<serial, begun, accepted, worker, executing>>
    BY <1>4 DEF vars, PostDirect, StopPool
  <2>2. Runs(u)' = Runs(u)
    BY <2>1 DEF Runs
  <2> QED BY <1>3, <2>1, <2>2
<1>5. ASSUME NEW w \in Workers, PoolStep(w) \/ DirectReturns(w)
      PROVE  Contract(u)!Next \/ UNCHANGED Contract(u)!vars
  <2>1. /\ worker \in [Workers -> Serials \cup DirectTasks \cup {"waiting", "exited"}]
        /\ \A v \in Workers : worker[v] \notin Serials => executing[v] = 0
        /\ "waiting" \notin Serials /\ Serials \cap DirectTasks = {}
    BY SerialOptionsAreValid DEF NInv, SInv, TypeOK
  <2>2. /\ worker[w] = "waiting" \/ worker[w] \in DirectTasks
        /\ \E z : worker' = [worker EXCEPT ![w] = z]
        /\ UNCHANGED <<serial, begun, accepted, executing>>
    BY <1>5 DEF PoolStep, WorkerTakes, WorkerExits, DirectReturns, Release
  <2>3. executing[w] = 0
    BY <2>1, <2>2
  <2>4. \A v \in Workers \ {w} : worker'[v] = worker[v]
    BY <2>1, <2>2
  <2>5. Runs(u)' = Runs(u)
    BY <2>2, <2>3, <2>4, SerialOptionsAreValid DEF Runs
  <2> QED BY <1>3, <2>2, <2>5
<1>6. CASE \E w \in Workers : DrainTakes(w) \/ TaskReturns(w) \/ DrainReturns(w)
  BY <1>6, DrainTakesContract, TaskReturnsContract, DrainReturnsContract
<1> QED BY <1>1, <1>2, <1>4, <1>5, <1>6 DEF Next

\* Every serial executor keeps IExecutor's contract over the shared pool: what
\* Post accepts begins at most once, is given up only under CancelPending, and
\* Stopped, even when the pool's stop brings it about, is final and quiet.
THEOREM SerialsKeepContract ==
    ASSUME NEW s \in Serials PROVE Spec => Contract(s)!Spec
<1>1. Init => Contract(s)!Init
  <2> SUFFICES ASSUME Init PROVE Contract(s)!Init
    OBVIOUS
  <2>1. /\ serial[s].state = "Running" /\ serial[s].stop_mode = "Drain"
        /\ serial[s].tasks = <<>> /\ begun[s] = <<>> /\ accepted[s] = <<>>
    BY DEF Init
  <2>2. Elements(<<>>) = {}
    BY DEF Elements
  <2>3. \A n \in 1..MaxPosts : Status(s, n) = "new"
    BY <2>1, <2>2 DEF Status
  <2> QED BY <2>1, <2>3 DEF Contract!Init
<1>2. NInv /\ NInv' /\ [Next]_vars => [Contract(s)!Next]_(Contract(s)!vars)
  BY SerialSteps
<1>3. Spec => []NInv
  BY NumberedInvariance
<1> QED BY <1>1, <1>2, <1>3, PTL DEF Spec, Contract!Spec
==============================================================================
