-------------------------- MODULE HttpServer_proofs ---------------------------
(***************************************************************************)
(* Proofs about the servers: EchoServer and HttpServer with their listener *)
(* (TcpListener), for any number of IOCP workers and connections.  The     *)
(* invariant has three parts: what the listener's one counter counts, what *)
(* the phase of a connection says of its operations and its place in the   *)
(* registry, and what each stage of Stop has established.                  *)
(***************************************************************************)
EXTENDS HttpServer, FiniteSetTheorems, TLAPS

\* The workers inside an accept completion.
BusySteps == {"prepare", "handler", "finish", "throws"}
Busy == {w \in Workers : worker[w] \in BusySteps}

\* outstanding counts the accept in the kernel or the port, and every
\* completion that has not finished.
ListenerInv ==
    /\ lst.outstanding = Cardinality(Busy) + (IF accept_op = "none" THEN 0 ELSE 1)
    /\ lst.state = "Stopped" => lst.outstanding = 0
    /\ NeverDeaf

ConnOK(c) ==
    /\ phase[c] = "none" => ops[c] = {} /\ ~member[c]
    /\ phase[c] = "Active" => member[c]
    /\ phase[c] = "Closing" => ops[c] # {} /\ member[c]
    /\ phase[c] = "Closed" => ops[c] = {}

\* What Stop has established when it gets to each of its stages.
StopInv ==
    /\ server = "Running" => stopper = "out"
    /\ stopper \in {"close_connections", "wait_registry", "wait_pool", "join"} =>
           lst.state = "Stopped"
    /\ stopper = "close_connections" =>
           \A c \in Conns : phase[c] = "Active" => c \in to_close
    /\ NoneLeftBehind
    /\ stopper \in {"wait_pool", "join"} \/ server = "Stopped" =>
           \A c \in Conns : ~member[c]
    /\ io_stopping => stopper = "join" \/ server = "Stopped"
    /\ server = "Stopped" =>
           /\ stopper = "out" /\ lst.state = "Stopped"
           /\ \A w \in Workers : worker[w] = "exited"
    /\ pool = "Stopped" => \A c \in Conns : task[c] = "none"
    /\ app = "http" /\ io_stopping => pool = "Stopped"

HInv ==
    /\ ServerTypeOK /\ ListenerInv /\ StopInv
    /\ \A c \in Conns : ConnOK(c)

LstType ==
    [state : {"Running", "Stopping", "Stopped"},
     outstanding : 0..Cardinality(Workers) + 1]
WorkerType ==
    [Workers -> Conns \cup {"idle", "prepare", "handler", "finish", "throws", "exited"}]
ListenerType ==
    /\ lst \in LstType /\ accept_op \in {"none", "pending", "ok", "error"}
    /\ arrived \in 0..MaxAccepts /\ worker \in WorkerType

------------------------------------------------------------------------------
(* The listener *)

\* MoveToStoppedIfDrainedLocked changes the state alone, and only of a drained
\* listener.
LEMMA DrainedStops ==
    ASSUME NEW l \in LstType
    PROVE  LET d == MoveToStoppedIfDrainedLocked(l)
           IN  /\ d \in LstType /\ d.outstanding = l.outstanding
               /\ \/ d.state = l.state
                  \/ d.state = "Stopped" /\ l.outstanding = 0
               /\ d.state = "Running" => l.state = "Running"
BY DEF MoveToStoppedIfDrainedLocked, LstType

LEMMA StopLockedStops ==
    ASSUME NEW l \in LstType
    PROVE  LET d == StopLocked(l)
           IN  /\ d \in LstType /\ d.outstanding = l.outstanding
               /\ d.state # "Running"
               /\ d.state = "Stopped" => l.outstanding = 0 \/ l.state = "Stopped"
<1> DEFINE s == [l EXCEPT !.state = "Stopping"]
<1>1. s \in LstType /\ s.outstanding = l.outstanding /\ s.state = "Stopping"
  BY DEF LstType
<1> HIDE DEF s
<1>2. CASE l.state # "Running"
  BY <1>2 DEF StopLocked
<1>3. CASE l.state = "Running"
  <2>1. StopLocked(l) = MoveToStoppedIfDrainedLocked(s)
    BY <1>3 DEF StopLocked, s
  <2> QED BY <1>1, <2>1, DrainedStops
<1> QED BY <1>2, <1>3

\* The busy workers are finitely many.
LEMMA BusyIsFinite ==
    /\ IsFiniteSet(Busy) /\ Cardinality(Busy) \in 0..Cardinality(Workers)
    /\ Cardinality(Workers) \in Nat
BY WorkersAreFinite, FS_Subset, FS_CardinalityType DEF Busy

LEMMA BusyAfterIsFinite ==
    /\ IsFiniteSet(Busy') /\ Cardinality(Busy') \in 0..Cardinality(Workers)
BY WorkersAreFinite, FS_Subset, FS_CardinalityType DEF Busy

\* A worker that goes from one step to another changes Busy by itself alone.
LEMMA BusyMoves ==
    ASSUME ListenerType, NEW w \in Workers, NEW z, worker' = [worker EXCEPT ![w] = z]
    PROVE  /\ z \in BusySteps /\ worker[w] \in BusySteps => Busy' = Busy
           /\ z \notin BusySteps /\ worker[w] \notin BusySteps => Busy' = Busy
           /\ z \in BusySteps /\ worker[w] \notin BusySteps =>
                  Cardinality(Busy') = Cardinality(Busy) + 1
           /\ z \notin BusySteps /\ worker[w] \in BusySteps =>
                  Cardinality(Busy') = Cardinality(Busy) - 1
<1>1. \A v \in Workers : worker'[v] = IF v = w THEN z ELSE worker[v]
  BY DEF ListenerType, WorkerType
<1>2. CASE z \in BusySteps /\ worker[w] \notin BusySteps
  <2>1. Busy' = Busy \cup {w} /\ w \notin Busy
    BY <1>1, <1>2 DEF Busy
  <2> QED BY <1>2, <2>1, BusyIsFinite, FS_AddElement
<1>3. CASE z \notin BusySteps /\ worker[w] \in BusySteps
  <2>1. Busy' = Busy \ {w} /\ w \in Busy
    BY <1>1, <1>3 DEF Busy
  <2> QED BY <1>3, <2>1, BusyIsFinite, FS_RemoveElement
<1>4. CASE z \in BusySteps <=> worker[w] \in BusySteps
  <2>1. Busy' = Busy
    BY <1>1, <1>4 DEF Busy
  <2> QED BY <1>4, <2>1
<1> QED BY <1>2, <1>3, <1>4

\* A worker that neither enters nor leaves an accept completion.
LEMMA OtherWorkKeepsListener ==
    ASSUME ListenerType, ListenerInv, NEW w \in Workers, NEW z,
           worker' = [worker EXCEPT ![w] = z],
           z \in BusySteps <=> worker[w] \in BusySteps, worker[w] # "throws",
           z \in Conns \cup {"idle", "prepare", "handler", "finish", "throws", "exited"},
           UNCHANGED <<lst, accept_op, arrived>>
    PROVE  ListenerType' /\ ListenerInv'
<1>1. Busy' = Busy
  BY BusyMoves
<1>2. ListenerType'
  BY DEF ListenerType, WorkerType
<1>3. NeverDeaf'
  <2>1. \A v \in Workers : worker[v] = "throws" => worker'[v] = "throws"
    BY DEF ListenerType, WorkerType
  <2> QED BY <2>1 DEF ListenerInv, NeverDeaf
<1> QED BY <1>1, <1>2, <1>3 DEF ListenerInv

\* The kernel completes the accept.
LEMMA KernelAcceptsKeeps ==
    ASSUME ListenerType, ListenerInv, KernelAccepts PROVE ListenerType' /\ ListenerInv'
<1>1. Busy' = Busy
  BY DEF Busy, KernelAccepts
<1>2. arrived' \in 0..MaxAccepts
  <2>1. arrived \in 0..MaxAccepts /\ MaxAccepts \in Nat
    BY WorkersAreFinite DEF ListenerType
  <2> QED BY <2>1 DEF KernelAccepts
<1>3. ListenerType'
  BY <1>2 DEF ListenerType, KernelAccepts
<1> QED BY <1>1, <1>3 DEF ListenerInv, NeverDeaf, KernelAccepts

\* OnAcceptComplete: the worker takes over the count of the accept, and the
\* next accept has its own.
LEMMA OnAcceptCompleteKeeps ==
    ASSUME ListenerType, ListenerInv, NEW w \in Workers, OnAcceptComplete(w)
    PROVE  /\ ListenerType' /\ ListenerInv'
           /\ lst.state # "Running" => lst' = lst
<1>1. /\ worker[w] = "idle" /\ accept_op \in {"ok", "error"} /\ arrived' = arrived
      /\ \E z \in BusySteps : worker' = [worker EXCEPT ![w] = z]
      /\ lst \in LstType /\ worker \in WorkerType
  BY DEF OnAcceptComplete, BusySteps, ListenerType
<1>2. /\ Cardinality(Busy') = Cardinality(Busy) + 1 /\ worker' \in WorkerType
      /\ Cardinality(Busy) \in Nat /\ Cardinality(Workers) \in Nat
      /\ Cardinality(Busy') \in 0..Cardinality(Workers)
  <2>1. worker' \in WorkerType
    BY <1>1 DEF BusySteps, WorkerType
  <2>2. Cardinality(Busy') = Cardinality(Busy) + 1
    BY <1>1, BusyMoves DEF BusySteps
  <2>3. Cardinality(Busy) \in Nat /\ Cardinality(Workers) \in Nat
    BY BusyIsFinite, FS_CardinalityType
  <2> QED BY <2>1, <2>2, <2>3, BusyAfterIsFinite
<1>3. lst.outstanding = Cardinality(Busy) + 1
  BY <1>1 DEF ListenerInv
<1>4. lst.state # "Stopped"
  <2>1. lst.outstanding # 0
    BY <1>2, <1>3
  <2> QED BY <2>1 DEF ListenerInv
<1>5. CASE lst.state = "Running" /\ lst' = [lst EXCEPT !.outstanding = @ + 1]
           /\ accept_op' = "pending"
  <2>1. lst.outstanding + 1 \in 0..Cardinality(Workers) + 1
    BY <1>2, <1>3
  <2>2. lst' \in LstType /\ lst'.outstanding = lst.outstanding + 1
        /\ lst'.state = lst.state
    BY <1>1, <1>5, <2>1 DEF LstType
  <2>3. ListenerType'
    BY <1>1, <1>2, <1>5, <2>2 DEF ListenerType
  <2>4. lst'.outstanding = Cardinality(Busy') + 1
    BY <1>2, <1>3, <2>2
  <2> QED BY <1>5, <2>2, <2>3, <2>4 DEF ListenerInv, NeverDeaf
<1>6. CASE lst.state = "Running" /\ lst' = [lst EXCEPT !.state = "Stopping"]
           /\ accept_op' = "none"
  <2>1. lst' \in LstType /\ lst'.outstanding = lst.outstanding
        /\ lst'.state = "Stopping"
    BY <1>1, <1>6 DEF LstType
  <2>2. ListenerType'
    BY <1>1, <1>2, <1>6, <2>1 DEF ListenerType
  <2>3. lst'.outstanding = Cardinality(Busy') + 0
    BY <1>2, <1>3, <2>1
  <2> QED BY <1>6, <2>1, <2>2, <2>3 DEF ListenerInv, NeverDeaf
<1>7. CASE /\ lst' = lst /\ accept_op' = "none"
           /\ lst.state # "Running" \/ worker' = [worker EXCEPT ![w] = "throws"]
  <2>1. ListenerType'
    BY <1>1, <1>2, <1>7 DEF ListenerType
  <2>2. lst'.outstanding = Cardinality(Busy') + 0
    BY <1>2, <1>3, <1>7
  <2>3. NeverDeaf'
    <3>1. lst.state = "Running" => worker'[w] = "throws"
      BY <1>1, <1>7 DEF WorkerType
    <3> QED BY <1>7, <3>1 DEF NeverDeaf
  <2> QED BY <1>4, <1>7, <2>1, <2>2, <2>3 DEF ListenerInv
<1> QED BY <1>5, <1>6, <1>7 DEF OnAcceptComplete, PostAccept

\* FinishAcceptCompletion: the last completion of a stopping listener stops it.
LEMMA FinishKeeps ==
    ASSUME ListenerType, ListenerInv, NEW w \in Workers, FinishAcceptCompletion(w)
    PROVE  /\ ListenerType' /\ ListenerInv'
           /\ lst.state = "Stopped" => lst'.state = "Stopped"
<1>1. /\ worker[w] = "finish" /\ worker' = [worker EXCEPT ![w] = "idle"]
      /\ lst \in LstType /\ worker \in WorkerType
      /\ UNCHANGED <<accept_op, arrived>>
  BY DEF FinishAcceptCompletion, ListenerType
<1>2. /\ Cardinality(Busy') = Cardinality(Busy) - 1 /\ worker' \in WorkerType
      /\ Cardinality(Busy) \in Nat /\ Cardinality(Workers) \in Nat
      /\ Cardinality(Busy') \in 0..Cardinality(Workers)
  <2>1. worker' \in WorkerType
    BY <1>1 DEF BusySteps, WorkerType
  <2>2. Cardinality(Busy') = Cardinality(Busy) - 1
    <3>1. "idle" \notin BusySteps /\ worker[w] \in BusySteps
      BY <1>1 DEF BusySteps
    <3> QED BY <1>1, <3>1, BusyMoves
  <2>3. Cardinality(Busy) \in Nat /\ Cardinality(Workers) \in Nat
    BY BusyIsFinite, FS_CardinalityType
  <2> QED BY <2>1, <2>2, <2>3, BusyAfterIsFinite
<1> DEFINE one == IF accept_op = "none" THEN 0 ELSE 1
           l == [lst EXCEPT !.outstanding = lst.outstanding - 1]
<1>3. lst.outstanding = Cardinality(Busy) + one /\ one \in 0..1
  BY DEF ListenerInv
<1> HIDE DEF one
<1>4. /\ lst.outstanding > 0 /\ lst.outstanding - 1 = Cardinality(Busy') + one
      /\ lst.outstanding - 1 \in 0..Cardinality(Workers) + 1
  BY <1>2, <1>3
<1>5. l \in LstType /\ l.outstanding = Cardinality(Busy') + one /\ l.state = lst.state
  BY <1>1, <1>4 DEF LstType
<1>6. lst' = MoveToStoppedIfDrainedLocked(l)
  BY <1>4 DEF FinishAcceptCompletion
<1> HIDE DEF l
<1>7. /\ lst' \in LstType /\ lst'.outstanding = Cardinality(Busy') + one
      /\ \/ lst'.state = lst.state
         \/ lst'.state = "Stopped" /\ lst'.outstanding = 0
      /\ lst'.state = "Running" => lst.state = "Running"
  BY <1>5, <1>6, DrainedStops
<1>8. lst.state # "Stopped"
  BY <1>4 DEF ListenerInv
<1>9. NeverDeaf'
  <2>1. \A v \in Workers : worker[v] = "throws" => worker'[v] = "throws"
    BY <1>1 DEF WorkerType
  <2> QED BY <1>1, <1>7, <2>1 DEF ListenerInv, NeverDeaf
<1>10. ListenerType'
  BY <1>1, <1>2, <1>7 DEF ListenerType
<1> QED BY <1>1, <1>7, <1>8, <1>9, <1>10 DEF ListenerInv, one

\* Handling a completion threw: the listener stops, and the worker still counts.
LEMMA CompletionThrowsKeeps ==
    ASSUME ListenerType, ListenerInv, NEW w \in Workers, CompletionThrows(w)
    PROVE  /\ ListenerType' /\ ListenerInv'
           /\ lst.state = "Stopped" => lst'.state = "Stopped"
<1>1. /\ worker[w] \in {"prepare", "throws"} /\ worker' = [worker EXCEPT ![w] = "finish"]
      /\ lst \in LstType /\ worker \in WorkerType /\ lst' = StopLocked(lst)
      /\ UNCHANGED <<accept_op, arrived>>
  BY DEF CompletionThrows, ListenerType
<1>2. Busy' = Busy
  <2>1. "finish" \in BusySteps /\ worker[w] \in BusySteps
    BY <1>1 DEF BusySteps
  <2> QED BY <1>1, <2>1, BusyMoves
<1>3. /\ lst' \in LstType /\ lst'.outstanding = lst.outstanding
      /\ lst'.state # "Running"
      /\ lst'.state = "Stopped" => lst.outstanding = 0 \/ lst.state = "Stopped"
  BY <1>1, StopLockedStops
<1>4. ListenerType'
  BY <1>1, <1>3 DEF ListenerType, WorkerType
<1>5. lst.state = "Stopped" => lst' = lst
  BY <1>1 DEF StopLocked
<1> QED BY <1>1, <1>2, <1>3, <1>4, <1>5 DEF ListenerInv, NeverDeaf

\* Stop of the listener.
LEMMA StopListenerKeeps ==
    ASSUME ListenerType, ListenerInv, StopListener
    PROVE  /\ ListenerType' /\ ListenerInv'
           /\ lst.state = "Stopped" => lst'.state = "Stopped"
<1>1. lst \in LstType /\ lst' = StopLocked(lst) /\ UNCHANGED <<accept_op, worker, arrived>>
  BY DEF StopListener, ListenerType
<1>2. Busy' = Busy
  BY <1>1 DEF Busy
<1>3. /\ lst' \in LstType /\ lst'.outstanding = lst.outstanding
      /\ lst'.state # "Running"
      /\ lst'.state = "Stopped" => lst.outstanding = 0 \/ lst.state = "Stopped"
  BY <1>1, StopLockedStops
<1>4. ListenerType'
  BY <1>1, <1>3 DEF ListenerType
<1>5. lst.state = "Stopped" => lst' = lst
  BY <1>1 DEF StopLocked
<1> QED BY <1>1, <1>2, <1>3, <1>4, <1>5 DEF ListenerInv, NeverDeaf

\* The step before the handler: delivered, or dropped.
LEMMA PrepareKeeps ==
    ASSUME ListenerType, ListenerInv, NEW w \in Workers, Prepare(w)
    PROVE  ListenerType' /\ ListenerInv' /\ lst' = lst
<1>1. PICK z \in {"handler", "finish"} : worker' = [worker EXCEPT ![w] = z]
  BY DEF Prepare
<1>2. /\ worker[w] \in BusySteps /\ z \in BusySteps /\ worker[w] # "throws"
      /\ z \in Conns \cup {"idle", "prepare", "handler", "finish", "throws", "exited"}
      /\ UNCHANGED <<lst, accept_op, arrived>>
  BY <1>1 DEF BusySteps, Prepare
<1> QED BY <1>1, <1>2, OtherWorkKeepsListener

\* A step of the listener keeps its invariant, and Stopped is final.
LEMMA ListenerStepKeeps ==
    ASSUME ListenerType, ListenerInv,
           KernelAccepts \/ \E w \in Workers : CompletionStep(w)
    PROVE  /\ ListenerType' /\ ListenerInv'
           /\ lst.state = "Stopped" => lst'.state = "Stopped"
<1>1. CASE KernelAccepts
  BY <1>1, KernelAcceptsKeeps DEF KernelAccepts
<1>2. ASSUME NEW w \in Workers, CompletionStep(w)
      PROVE  /\ ListenerType' /\ ListenerInv'
             /\ lst.state = "Stopped" => lst'.state = "Stopped"
  <2>1. CASE OnAcceptComplete(w)
    BY <2>1, OnAcceptCompleteKeeps
  <2>2. CASE Prepare(w)
    BY <2>2, PrepareKeeps
  <2>3. CASE CompletionThrows(w)
    BY <2>3, CompletionThrowsKeeps
  <2>4. CASE FinishAcceptCompletion(w)
    BY <2>4, FinishKeeps
  <2> QED BY <1>2, <2>1, <2>2, <2>3, <2>4 DEF CompletionStep
<1> QED BY <1>1, <1>2

\* A listener that is Stopped has no accept out and no worker in a completion.
LEMMA StoppedListenerIsIdle ==
    ASSUME ListenerInv, lst.state = "Stopped" PROVE accept_op = "none" /\ Busy = {}
<1>1. Cardinality(Busy) \in Nat /\ IsFiniteSet(Busy)
  BY BusyIsFinite, FS_CardinalityType
<1>2. 0 = Cardinality(Busy) + (IF accept_op = "none" THEN 0 ELSE 1)
  BY DEF ListenerInv
<1>3. accept_op = "none" /\ Cardinality(Busy) = 0
  BY <1>1, <1>2
<1> QED BY <1>1, <1>3, FS_EmptySet

------------------------------------------------------------------------------
(* The server *)

ConnType ==
    /\ phase \in [Conns -> {"none", "Active", "Closing", "Closed"}]
    /\ ops \in [Conns -> SUBSET {"recv", "send"}] /\ member \in [Conns -> BOOLEAN]

RestType ==
    /\ server \in {"Running", "Stopping", "Stopped"}
    /\ stopper \in {"out", "stop_listener", "wait_listener",
                    "close_connections", "wait_registry", "wait_pool", "join"}
    /\ to_close \subseteq Conns /\ io_stopping \in BOOLEAN
    /\ app \in Apps /\ pool \in {"Running", "Stopping", "Stopped"}
    /\ task \in [Conns -> {"none", "queued", "running"}]

LEMMA TypeParts == ServerTypeOK <=> ListenerType /\ ConnType /\ RestType
BY DEF ServerTypeOK, TypeOK, ListenerType, LstType, WorkerType, ConnType, RestType

LEMMA TypePartsAfter == ServerTypeOK' <=> ListenerType' /\ ConnType' /\ RestType'
BY DEF ServerTypeOK, TypeOK, ListenerType, LstType, WorkerType, ConnType, RestType

\* Initially.
LEMMA InitHInv == ServerInit => HInv
<1> SUFFICES ASSUME ServerInit PROVE HInv
  OBVIOUS
<1>1. Cardinality(Workers) \in Nat /\ MaxAccepts \in Nat
  BY WorkersAreFinite, FS_CardinalityType
<1>2. 1 \in 0..Cardinality(Workers) + 1 /\ 0 \in 0..MaxAccepts
  BY <1>1
<1>3. ListenerType
  BY <1>2 DEF ServerInit, Init, ListenerInit, ListenerType, LstType, WorkerType
<1>4. ConnType /\ RestType
  BY DEF ServerInit, Init, ConnType, RestType
<1>5. Busy = {}
  BY DEF ServerInit, Init, ListenerInit, Busy, BusySteps
<1>6. Cardinality(Busy) = 0
  BY <1>5, FS_EmptySet
<1>7. ListenerInv
  BY <1>6 DEF ServerInit, Init, ListenerInit, ListenerInv, NeverDeaf
<1>8. StopInv
  BY DEF ServerInit, Init, ListenerInit, StopInv, NoneLeftBehind
<1>9. \A c \in Conns : ConnOK(c)
  BY DEF ServerInit, Init, ConnOK
<1> QED BY <1>3, <1>4, <1>7, <1>8, <1>9, TypeParts DEF HInv

\* The connections stay what ConnOK says, none becomes Active and none enters
\* the registry.
ConnsKept ==
    /\ ConnType'
    /\ \A c \in Conns :
        /\ ConnOK(c)'
        /\ phase'[c] = "Active" => phase[c] = "Active"
        /\ member'[c] => member[c]

\* The close of a connection leaves it Closed exactly when nothing is out.
LEMMA CloseKeepsConn ==
    ASSUME ConnType, \A d \in Conns : ConnOK(d), NEW c \in Conns,
           phase[c] \in {"Active", "Closing"}, NEW out \in SUBSET ops[c],
           phase' = [phase EXCEPT ![c] = PhaseAfterClose(out)],
           ops' = [ops EXCEPT ![c] = out], member' = member
    PROVE  ConnsKept
<1>1. /\ PhaseAfterClose(out) \in {"Closing", "Closed"}
      /\ PhaseAfterClose(out) = "Closed" <=> out = {}
  BY DEF PhaseAfterClose
<1>2. ConnType'
  BY <1>1 DEF ConnType
<1>3. /\ phase'[c] = PhaseAfterClose(out) /\ ops'[c] = out
      /\ \A d \in Conns \ {c} : phase'[d] = phase[d] /\ ops'[d] = ops[d]
  BY DEF ConnType
<1>4. member[c]
  BY DEF ConnOK
<1>5. ConnOK(c)'
  BY <1>1, <1>3, <1>4 DEF ConnOK
<1>6. \A d \in Conns \ {c} : ConnOK(d)'
  BY <1>3 DEF ConnOK
<1> QED BY <1>1, <1>2, <1>3, <1>5, <1>6 DEF ConnsKept

\* Operations come and go on an Active connection.
LEMMA WorkKeepsConn ==
    ASSUME ConnType, \A d \in Conns : ConnOK(d), NEW c \in Conns,
           phase[c] = "Active", NEW out \in SUBSET {"recv", "send"},
           ops' = [ops EXCEPT ![c] = out], UNCHANGED <<phase, member>>
    PROVE  ConnsKept
<1>1. ConnType'
  BY DEF ConnType
<1>2. ops'[c] = out /\ \A d \in Conns \ {c} : ops'[d] = ops[d]
  BY DEF ConnType
<1>3. \A d \in Conns : ConnOK(d)'
  BY <1>2 DEF ConnOK
<1> QED BY <1>1, <1>3 DEF ConnsKept

LEMMA IdleKeepsConn ==
    ASSUME ConnType, \A d \in Conns : ConnOK(d), UNCHANGED connVars PROVE ConnsKept
BY DEF ConnType, ConnOK, ConnsKept, connVars

\* Closed(c), by the receive handler, by a task of the pool or by Stop.
LEMMA ClosedKeepsConn ==
    ASSUME ConnType, \A d \in Conns : ConnOK(d), NEW c \in Conns,
           \/ phase' = Closed(c)
           \/ phase' = (IF phase[c] = "Active"
                        THEN [phase EXCEPT ![c] = PhaseAfterClose(ops[c])] ELSE phase),
           UNCHANGED <<ops, member>>
    PROVE  ConnsKept /\ phase'[c] # "Active"
<1>1. CASE phase[c] = "Active"
  <2> DEFINE out == ops[c]
  <2>1. /\ phase' = [phase EXCEPT ![c] = PhaseAfterClose(out)] /\ out \in SUBSET ops[c]
        /\ ops' = [ops EXCEPT ![c] = out]
    BY <1>1 DEF Closed, ConnType
  <2>2. phase'[c] # "Active"
    BY <2>1 DEF ConnType, PhaseAfterClose
  <2> HIDE DEF out
  <2> QED BY <1>1, <2>1, <2>2, CloseKeepsConn
<1>2. CASE phase[c] # "Active"
  <2>1. phase' = phase
    BY <1>2 DEF Closed, ConnType
  <2> QED BY <1>2, <2>1, IdleKeepsConn DEF connVars
<1> QED BY <1>1, <1>2

\* The steps of a connection.
LEMMA ConnStepKeeps ==
    ASSUME ConnType, \A d \in Conns : ConnOK(d), NEW c \in Conns, ConnStep(c)
    PROVE  ConnsKept
<1>0. ops[c] \in SUBSET {"recv", "send"}
  BY DEF ConnType
<1>1. ASSUME NEW w \in Workers, Receive(w, c) PROVE ConnsKept
  <2>1. ops[c] \ {"recv"} \in SUBSET {"recv", "send"}
    BY <1>0
  <2> QED BY <1>1, <2>1, WorkKeepsConn DEF Receive
<1>2. CASE SendCompletes(c)
  <2>1. ops[c] \ {"send"} \in SUBSET {"recv", "send"}
    BY <1>0
  <2> QED BY <1>2, <2>1, WorkKeepsConn DEF SendCompletes
<1>3. CASE CompletionCloses(c) \/ CancelledCompletes(c)
  <2>1. PICK op \in ops[c] :
            /\ ops' = [ops EXCEPT ![c] = ops[c] \ {op}]
            /\ phase' = [phase EXCEPT ![c] = PhaseAfterClose(ops[c] \ {op})]
    BY <1>3 DEF CompletionCloses, CancelledCompletes
  <2>2. phase[c] \in {"Active", "Closing"} /\ member' = member
    BY <1>3 DEF CompletionCloses, CancelledCompletes
  <2>3. ops[c] \ {op} \in SUBSET ops[c]
    OBVIOUS
  <2> QED BY <2>1, <2>2, <2>3, CloseKeepsConn
<1>4. CASE Leave(c)
  <2>1. /\ phase[c] = "Closed" /\ member' = [member EXCEPT ![c] = FALSE]
        /\ UNCHANGED <<phase, ops>>
    BY <1>4 DEF Leave
  <2>2. member'[c] = FALSE /\ \A d \in Conns \ {c} : member'[d] = member[d]
    BY <2>1 DEF ConnType
  <2>3. ConnType'
    BY <2>1 DEF ConnType
  <2>4. \A d \in Conns : ConnOK(d)'
    BY <2>1, <2>2 DEF ConnOK
  <2> QED BY <2>1, <2>2, <2>3, <2>4 DEF ConnsKept
<1> QED BY <1>1, <1>2, <1>3, <1>4 DEF ConnStep

\* What Stop has established stays while it waits: nothing else makes a
\* connection Active or brings it into the registry once the server is not
\* Running, restarts the listener or revives a worker.
LEMMA StopInvStays ==
    ASSUME RestType, StopInv, UNCHANGED <<server, stopVars, app>>,
           lst.state = "Stopped" => lst'.state = "Stopped",
           \/ server = "Running"
           \/ \A c \in Conns : /\ phase'[c] = "Active" => phase[c] = "Active"
                               /\ member'[c] => member[c],
           \A w \in Workers : worker[w] = "exited" => worker'[w] = "exited",
           pool = "Stopped" => pool' = "Stopped",
           pool' = "Stopped" => \A c \in Conns : task'[c] = "none"
    PROVE  StopInv'
<1>1. UNCHANGED <<stopper, to_close, io_stopping, timeouts>>
  BY DEF stopVars
<1>2. CASE server = "Running"
  <2>1. stopper = "out" /\ ~io_stopping
    BY <1>2 DEF StopInv
  <2> QED BY <1>1, <1>2, <2>1 DEF StopInv, NoneLeftBehind
<1>3. CASE \A c \in Conns : /\ phase'[c] = "Active" => phase[c] = "Active"
                            /\ member'[c] => member[c]
  <2>1. NoneLeftBehind'
    BY <1>1, <1>3 DEF StopInv, NoneLeftBehind
  <2>2. stopper' = "close_connections" =>
           \A c \in Conns : phase'[c] = "Active" => c \in to_close'
    BY <1>1, <1>3 DEF StopInv
  <2>3. stopper' \in {"wait_pool", "join"} \/ server' = "Stopped" =>
           \A c \in Conns : ~member'[c]
    BY <1>1, <1>3 DEF StopInv
  <2> QED BY <1>1, <2>1, <2>2, <2>3 DEF StopInv
<1> QED BY <1>2, <1>3

LEMMA IdleListener ==
    ASSUME ListenerType, ListenerInv, UNCHANGED listenerVars
    PROVE  ListenerType' /\ ListenerInv'
BY DEF ListenerType, ListenerInv, NeverDeaf, listenerVars, Busy

\* A step of the listener or of a connection, its parts put together.
LEMMA WorkKeepsHInv ==
    ASSUME HInv, UNCHANGED <<server, stopVars, app>>, ListenerType', ListenerInv',
           lst.state = "Stopped" => lst'.state = "Stopped", ConnsKept,
           \A w \in Workers : worker[w] = "exited" => worker'[w] = "exited",
           pool' \in {"Running", "Stopping", "Stopped"},
           task' \in [Conns -> {"none", "queued", "running"}],
           pool = "Stopped" => pool' = "Stopped",
           pool' = "Stopped" => \A c \in Conns : task'[c] = "none"
    PROVE  HInv'
<1>1. RestType /\ StopInv
  BY TypeParts DEF HInv
<1>2. RestType'
  BY <1>1 DEF RestType, stopVars
<1>3. StopInv'
  BY <1>1, StopInvStays DEF ConnsKept
<1> QED BY <1>2, <1>3, TypePartsAfter DEF HInv, ConnsKept

\* HInv, as the lemmas about one part use it.
LEMMA HInvParts ==
    ASSUME HInv
    PROVE  /\ ListenerType /\ ListenerInv /\ ConnType /\ RestType /\ StopInv
           /\ \A c \in Conns : ConnOK(c)
           /\ lst \in LstType /\ worker \in WorkerType
           /\ pool \in {"Running", "Stopping", "Stopped"}
           /\ task \in [Conns -> {"none", "queued", "running"}]
           /\ pool = "Stopped" => \A c \in Conns : task[c] = "none"
BY TypeParts DEF HInv, ListenerType, RestType, StopInv

\* A connection is accepted by a handler that runs under a listener that has
\* not stopped, and only by a Running server.
LEMMA OnAcceptedKeeps ==
    ASSUME HInv, NEW w \in Workers, OnAccepted(w), UNCHANGED appVars PROVE HInv'
<1>0. /\ ListenerType /\ ListenerInv /\ ConnType /\ RestType /\ StopInv
      /\ \A c \in Conns : ConnOK(c)
  BY HInvParts
<1>1. /\ worker[w] = "handler" /\ worker' = [worker EXCEPT ![w] = "finish"]
      /\ UNCHANGED <<lst, accept_op, arrived, server, stopVars>>
      /\ UNCHANGED <<app, pool, task>>
  BY DEF OnAccepted, HandlerDone, appVars
<1>2. ListenerType' /\ ListenerInv'
  <2>1. /\ "finish" \in BusySteps /\ worker[w] \in BusySteps /\ worker[w] # "throws"
        /\ "finish" \in Conns \cup {"idle", "prepare", "handler", "finish", "throws",
                                    "exited"}
    BY <1>1 DEF BusySteps
  <2> QED BY <1>0, <1>1, <2>1, OtherWorkKeepsListener
<1>3. \A v \in Workers : worker[v] = "exited" => worker'[v] = "exited"
  BY <1>0, <1>1 DEF ListenerType, WorkerType
<1>4. CASE UNCHANGED connVars
  <2>1. ConnsKept
    BY <1>0, <1>4, IdleKeepsConn
  <2> QED BY <1>1, <1>2, <1>3, <2>1, HInvParts, WorkKeepsHInv
<1>5. CASE ~UNCHANGED connVars
  <2>1. PICK c \in Conns :
            /\ server = "Running" /\ phase[c] = "none"
            /\ member' = [member EXCEPT ![c] = TRUE]
            /\ \/ /\ phase' = [phase EXCEPT ![c] = "Active"]
                  /\ ops' = [ops EXCEPT ![c] = {"recv"}]
               \/ /\ phase' = [phase EXCEPT ![c] = "Closed"]
                  /\ UNCHANGED ops
    BY <1>5 DEF OnAccepted
  <2>2. ConnType'
    BY <1>0, <2>1 DEF ConnType
  <2>3. \A d \in Conns \ {c} :
            phase'[d] = phase[d] /\ ops'[d] = ops[d] /\ member'[d] = member[d]
    BY <1>0, <2>1 DEF ConnType
  <2>4. /\ member'[c] /\ phase'[c] \in {"Active", "Closed"}
        /\ phase'[c] = "Closed" => ops'[c] = ops[c]
    BY <1>0, <2>1 DEF ConnType
  <2>5. ConnOK(c)'
    <3>1. ops[c] = {}
      BY <1>0, <2>1 DEF ConnOK
    <3> QED BY <2>4, <3>1 DEF ConnOK
  <2>6. \A d \in Conns \ {c} : ConnOK(d)'
    BY <1>0, <2>3 DEF ConnOK
  <2>7. StopInv'
    BY <1>0, <1>1, <1>3, <2>1, StopInvStays, HInvParts
  <2>8. RestType'
    BY <1>0, <1>1 DEF RestType, stopVars
  <2> QED BY <1>2, <2>2, <2>5, <2>6, <2>7, <2>8, TypePartsAfter DEF HInv
<1> QED BY <1>4, <1>5

\* An IOCP worker takes or leaves a receive handler, or exits.
LEMMA WorkerMoves ==
    ASSUME HInv, NEW w \in Workers, NEW z \in Conns \cup {"idle", "exited"},
           worker[w] \in Conns \cup {"idle"},
           worker' = [worker EXCEPT ![w] = z], UNCHANGED <<lst, accept_op, arrived>>
    PROVE  /\ ListenerType' /\ ListenerInv'
           /\ \A v \in Workers : worker[v] = "exited" => worker'[v] = "exited"
<1>1. /\ z \notin BusySteps /\ worker[w] \notin BusySteps
      /\ worker[w] # "throws" /\ worker[w] # "exited"
      /\ z \in Conns \cup {"idle", "prepare", "handler", "finish", "throws", "exited"}
  BY ConnsAreNotSteps DEF BusySteps
<1>2. ListenerType' /\ ListenerInv'
  BY <1>1, HInvParts, OtherWorkKeepsListener
<1>3. \A v \in Workers : worker[v] = "exited" => worker'[v] = "exited"
  BY <1>1, HInvParts DEF WorkerType
<1> QED BY <1>2, <1>3

\* What the two servers share, Stop apart.
LEMMA SharedStepKeeps ==
    ASSUME HInv, SharedStep, UNCHANGED appVars PROVE HInv'
<1>0. /\ ListenerType /\ ListenerInv /\ ConnType /\ RestType
      /\ \A c \in Conns : ConnOK(c)
      /\ UNCHANGED <<app, pool, task>>
  BY HInvParts DEF appVars
<1>1. CASE ListenerStep
  <2>1. /\ KernelAccepts \/ \E w \in Workers : CompletionStep(w)
        /\ UNCHANGED <<server, stopVars>> /\ UNCHANGED connVars
    BY <1>1 DEF ListenerStep
  <2>2. /\ ListenerType' /\ ListenerInv'
        /\ lst.state = "Stopped" => lst'.state = "Stopped"
    BY <1>0, <2>1, ListenerStepKeeps
  <2>3. ConnsKept
    BY <1>0, <2>1, IdleKeepsConn
  <2>4. \A v \in Workers : worker[v] = "exited" => worker'[v] = "exited"
    BY <2>1, HInvParts DEF KernelAccepts, CompletionStep, OnAcceptComplete, Prepare,
        CompletionThrows, FinishAcceptCompletion, WorkerType
  <2> QED BY <1>0, <2>1, <2>2, <2>3, <2>4, HInvParts, WorkKeepsHInv
<1>2. ASSUME NEW w \in Workers, OnAccepted(w) PROVE HInv'
  BY <1>2, OnAcceptedKeeps
<1>3. ASSUME NEW w \in Workers, Send(w) PROVE HInv'
  <2> DEFINE c == worker[w]
  <2>1. /\ c \in Conns /\ phase[c] = "Active" /\ UNCHANGED <<phase, member>>
        /\ ops' = [ops EXCEPT ![c] = ops[c] \cup {"send"}]
        /\ UNCHANGED <<server, stopVars>> /\ UNCHANGED listenerVars
    BY <1>3 DEF Send
  <2>2. ops[c] \cup {"send"} \in SUBSET {"recv", "send"}
    BY <1>0, <2>1 DEF ConnType
  <2>3. ConnsKept
    BY <1>0, <2>1, <2>2, WorkKeepsConn
  <2>4. ListenerType' /\ ListenerInv' /\ UNCHANGED <<lst, worker>>
    BY <1>0, <2>1, IdleListener DEF listenerVars
  <2> HIDE DEF c
  <2> QED BY <1>0, <2>1, <2>3, <2>4, HInvParts, WorkKeepsHInv
<1>4. ASSUME NEW w \in Workers, HandlerReturns(w) PROVE HInv'
  <2> DEFINE c == worker[w]
  <2>1. /\ c \in Conns /\ worker' = [worker EXCEPT ![w] = "idle"]
        /\ ops' = IF phase[c] = "Active" THEN [ops EXCEPT ![c] = ops[c] \cup {"recv"}]
                  ELSE ops
        /\ UNCHANGED <<lst, accept_op, arrived>> /\ UNCHANGED <<phase, member>>
        /\ UNCHANGED <<server, stopVars>>
    BY <1>4 DEF HandlerReturns
  <2>2. /\ ListenerType' /\ ListenerInv'
        /\ \A v \in Workers : worker[v] = "exited" => worker'[v] = "exited"
    BY <2>1, WorkerMoves
  <2> HIDE DEF c
  <2>3. ConnsKept
    <3>1. CASE phase[c] = "Active"
      <4>1. ops[c] \cup {"recv"} \in SUBSET {"recv", "send"}
        BY <1>0, <2>1 DEF ConnType
      <4> QED BY <1>0, <2>1, <3>1, <4>1, WorkKeepsConn
    <3>2. CASE phase[c] # "Active"
      BY <1>0, <2>1, <3>2, IdleKeepsConn DEF connVars
    <3> QED BY <3>1, <3>2
  <2> QED BY <1>0, <2>1, <2>2, <2>3, HInvParts, WorkKeepsHInv
<1>5. ASSUME NEW w \in Workers, WorkerExits(w) PROVE HInv'
  <2>1. /\ worker[w] = "idle" /\ worker' = [worker EXCEPT ![w] = "exited"]
        /\ UNCHANGED <<lst, accept_op, arrived>> /\ UNCHANGED connVars
        /\ UNCHANGED <<server, stopVars>>
    BY <1>5 DEF WorkerExits
  <2>2. /\ ListenerType' /\ ListenerInv'
        /\ \A v \in Workers : worker[v] = "exited" => worker'[v] = "exited"
    BY <2>1, WorkerMoves
  <2>3. ConnsKept
    BY <1>0, <2>1, IdleKeepsConn
  <2> QED BY <1>0, <2>1, <2>2, <2>3, HInvParts, WorkKeepsHInv
<1>6. ASSUME NEW c \in Conns, ConnStep(c) PROVE HInv'
  <2>1. ConnsKept
    BY <1>0, <1>6, ConnStepKeeps
  <2>2. UNCHANGED <<server, stopVars>> /\ UNCHANGED lst
    BY <1>6 DEF ConnStep, Receive, SendCompletes, CompletionCloses, CancelledCompletes,
        Leave, listenerVars
  <2>3. /\ ListenerType' /\ ListenerInv'
        /\ \A v \in Workers : worker[v] = "exited" => worker'[v] = "exited"
    <3>1. CASE UNCHANGED listenerVars
      BY <1>0, <3>1, IdleListener DEF listenerVars
    <3>2. ASSUME NEW w \in Workers, Receive(w, c)
          PROVE  /\ ListenerType' /\ ListenerInv'
                 /\ \A v \in Workers : worker[v] = "exited" => worker'[v] = "exited"
      <4>1. /\ worker[w] = "idle" /\ worker' = [worker EXCEPT ![w] = c]
            /\ UNCHANGED <<lst, accept_op, arrived>>
        BY <3>2 DEF Receive
      <4> QED BY <4>1, WorkerMoves
    <3> QED BY <1>6, <3>1, <3>2 DEF ConnStep, SendCompletes, CompletionCloses,
        CancelledCompletes, Leave
  <2> QED BY <1>0, <2>1, <2>2, <2>3, HInvParts, WorkKeepsHInv
<1> QED BY <1>1, <1>2, <1>3, <1>4, <1>5, <1>6 DEF SharedStep

------------------------------------------------------------------------------
(* Stop *)

\* A step that moves Stop, or the pool, and leaves the connections alone.
LEMMA StopMovesKeeps ==
    ASSUME HInv, ListenerType', ListenerInv', UNCHANGED connVars, RestType', StopInv'
    PROVE  HInv'
<1>1. ConnsKept
  BY HInvParts, IdleKeepsConn
<1> QED BY <1>1, TypePartsAfter DEF HInv, ConnsKept

\* The steps of Stop that both servers have.
LEMMA SharedStopKeeps ==
    ASSUME HInv, SharedStop, UNCHANGED appVars PROVE HInv'
<1>0. /\ ListenerType /\ ListenerInv /\ ConnType /\ RestType /\ StopInv
      /\ \A c \in Conns : ConnOK(c)
      /\ UNCHANGED <<app, pool, task>>
  BY HInvParts DEF appVars
<1>1. CASE StopBegins
  <2>1. /\ stopper = "out" /\ server # "Stopped" /\ server' = "Stopping"
        /\ stopper' = "stop_listener" /\ UNCHANGED listenerVars
        /\ UNCHANGED connVars /\ UNCHANGED <<to_close, io_stopping>>
    BY <1>1 DEF StopBegins
  <2>2. RestType'
    BY <1>0, <2>1 DEF RestType
  <2>3. ~io_stopping
    BY <1>0, <2>1 DEF StopInv
  <2>4. StopInv'
    BY <1>0, <2>1, <2>3 DEF StopInv, NoneLeftBehind
  <2> QED BY <1>0, <2>1, <2>2, <2>4, IdleListener, StopMovesKeeps
<1>2. CASE StopsListener
  <2>1. /\ stopper = "stop_listener" /\ stopper' = "wait_listener" /\ StopListener
        /\ UNCHANGED connVars /\ UNCHANGED <<server, to_close, io_stopping>>
    BY <1>2 DEF StopsListener
  <2>2. ListenerType' /\ ListenerInv'
    BY <1>0, <2>1, StopListenerKeeps
  <2>3. RestType'
    BY <1>0, <2>1 DEF RestType
  <2>4. server # "Stopped" /\ server # "Running" /\ ~io_stopping
    BY <1>0, <2>1 DEF StopInv
  <2>5. StopInv'
    BY <1>0, <2>1, <2>4 DEF StopInv, NoneLeftBehind
  <2> QED BY <2>1, <2>2, <2>3, <2>5, StopMovesKeeps
<1>3. CASE ListenerStopped
  <2>1. /\ stopper = "wait_listener" /\ lst.state = "Stopped"
        /\ to_close' = {c \in Conns : member[c]} /\ stopper' = "close_connections"
        /\ UNCHANGED listenerVars /\ UNCHANGED connVars
        /\ UNCHANGED <<server, io_stopping>>
    BY <1>3 DEF ListenerStopped
  <2>2. RestType'
    BY <1>0, <2>1 DEF RestType
  <2>3. /\ server # "Stopped" /\ server # "Running" /\ ~io_stopping
        /\ \A c \in Conns : phase'[c] = "Active" => c \in to_close'
        /\ lst' = lst
    BY <1>0, <2>1 DEF StopInv, ConnOK, connVars, listenerVars
  <2>4. StopInv'
    BY <1>0, <2>1, <2>3 DEF StopInv, NoneLeftBehind
  <2> QED BY <1>0, <2>1, <2>2, <2>4, IdleListener, StopMovesKeeps
<1>4. ASSUME NEW c \in Conns, ClosesConnection(c) PROVE HInv'
  <2>1. /\ stopper = "close_connections" /\ stopper' = "close_connections"
        /\ to_close' = to_close \ {c}
        /\ UNCHANGED listenerVars /\ UNCHANGED <<ops, member>>
        /\ UNCHANGED <<server, io_stopping>>
    BY <1>4 DEF ClosesConnection
  <2>2. ConnsKept /\ phase'[c] # "Active"
    BY <1>0, <1>4, ClosedKeepsConn DEF ClosesConnection
  <2>3. RestType'
    BY <1>0, <2>1 DEF RestType
  <2>4. /\ server # "Stopped" /\ server # "Running" /\ ~io_stopping
        /\ \A d \in Conns : phase'[d] = "Active" => d \in to_close'
        /\ lst' = lst
    BY <1>0, <2>1, <2>2 DEF StopInv, ConnsKept, listenerVars
  <2>5. StopInv'
    BY <1>0, <2>1, <2>4 DEF StopInv, NoneLeftBehind
  <2> QED BY <1>0, <2>1, <2>2, <2>3, <2>5, IdleListener, TypePartsAfter
          DEF HInv, ConnsKept
<1>5. CASE ConnectionsClosed
  <2>1. /\ stopper = "close_connections" /\ to_close = {}
        /\ stopper' = "wait_registry"
        /\ UNCHANGED listenerVars /\ UNCHANGED connVars
        /\ UNCHANGED <<server, to_close, io_stopping>>
    BY <1>5 DEF ConnectionsClosed
  <2>2. RestType'
    BY <1>0, <2>1 DEF RestType
  <2>3. /\ server # "Stopped" /\ server # "Running" /\ ~io_stopping
        /\ \A d \in Conns : phase'[d] # "Active"
        /\ lst' = lst
    BY <1>0, <2>1 DEF StopInv, connVars, listenerVars
  <2>4. StopInv'
    BY <1>0, <2>1, <2>3 DEF StopInv, NoneLeftBehind
  <2> QED BY <1>0, <2>1, <2>2, <2>4, IdleListener, StopMovesKeeps
<1>6. CASE WorkersJoined
  <2>1. /\ stopper = "join" /\ \A w \in Workers : worker[w] = "exited"
        /\ server' = "Stopped" /\ stopper' = "out"
        /\ UNCHANGED listenerVars /\ UNCHANGED connVars
        /\ UNCHANGED <<to_close, io_stopping>>
    BY <1>6 DEF WorkersJoined
  <2>2. RestType'
    BY <1>0, <2>1 DEF RestType
  <2>3. UNCHANGED <<lst, worker, phase, member>>
    BY <2>1 DEF listenerVars, connVars
  <2>4. StopInv'
    BY <1>0, <2>1, <2>3 DEF StopInv, NoneLeftBehind
  <2> QED BY <1>0, <2>1, <2>2, <2>4, IdleListener, StopMovesKeeps
<1> QED BY <1>1, <1>2, <1>3, <1>4, <1>5, <1>6 DEF SharedStop

\* The barriers behind the registry, of the echo server and of the HTTP
\* server, and the waits that time out.
LEMMA BarriersKeep ==
    ASSUME HInv,
           \/ TimesOut /\ UNCHANGED appVars
           \/ app = "echo" /\ RegistryEmpty /\ UNCHANGED appVars
           \/ app = "http" /\ (RegistryEmptyStopsPool \/ PoolStopped \/ PoolTimesOut)
    PROVE  HInv'
<1>0. ListenerType /\ ListenerInv /\ RestType /\ StopInv
  BY HInvParts
<1>1. /\ UNCHANGED <<lst, worker, phase, member>> /\ UNCHANGED connVars
      /\ UNCHANGED listenerVars /\ UNCHANGED <<server, to_close, app, task>>
  BY DEF TimesOut, RegistryEmpty, RegistryEmptyStopsPool, PoolStopped, PoolTimesOut,
      appVars, listenerVars, connVars
<1>2. RestType'
  BY <1>0, <1>1 DEF RestType, TimesOut, RegistryEmpty, RegistryEmptyStopsPool,
      PoolStopped, PoolTimesOut, appVars
<1>3. CASE \/ TimesOut /\ UNCHANGED appVars
           \/ app = "http" /\ PoolTimesOut
  <2>1. /\ stopper \in {"wait_listener", "wait_registry", "wait_pool"}
        /\ stopper' = "out" /\ UNCHANGED <<io_stopping, pool>>
    BY <1>3 DEF TimesOut, PoolTimesOut, appVars
  <2>2. server # "Stopped" /\ ~io_stopping
    BY <1>0, <2>1 DEF StopInv
  <2>3. StopInv'
    BY <1>0, <1>1, <2>1, <2>2 DEF StopInv, NoneLeftBehind
  <2> QED BY <1>0, <1>1, <1>2, <2>3, IdleListener, StopMovesKeeps
<1>4. CASE \/ app = "echo" /\ RegistryEmpty /\ UNCHANGED appVars
           \/ app = "http" /\ PoolStopped
  <2>1. /\ stopper \in {"wait_registry", "wait_pool"} /\ stopper' = "join"
        /\ \A c \in Conns : ~member[c]
        /\ app = "http" => pool = "Stopped"
        /\ pool' = pool
    BY <1>0, <1>4 DEF RegistryEmpty, RegistryBarrier, PoolStopped, StopInv, appVars
  <2>2. server # "Stopped" /\ server # "Running"
    BY <1>0, <2>1 DEF StopInv
  <2>3. StopInv'
    BY <1>0, <1>1, <2>1, <2>2 DEF StopInv, NoneLeftBehind
  <2> QED BY <1>0, <1>1, <1>2, <2>3, IdleListener, StopMovesKeeps
<1>5. CASE app = "http" /\ RegistryEmptyStopsPool
  <2>1. /\ stopper = "wait_registry" /\ stopper' = "wait_pool"
        /\ \A c \in Conns : ~member[c]
        /\ pool' = "Stopped" <=> pool = "Stopped"
        /\ io_stopping' = io_stopping
    BY <1>0, <1>5 DEF RegistryEmptyStopsPool, RegistryBarrier, RestType
  <2>2. server # "Stopped" /\ server # "Running" /\ ~io_stopping
    BY <1>0, <2>1 DEF StopInv
  <2>3. StopInv'
    BY <1>0, <1>1, <2>1, <2>2 DEF StopInv, NoneLeftBehind
  <2> QED BY <1>0, <1>1, <1>2, <2>3, IdleListener, StopMovesKeeps
<1> QED BY <1>3, <1>4, <1>5

------------------------------------------------------------------------------
(* The pool of the HTTP server *)

LEMMA PoolKeeps ==
    ASSUME HInv,
           \/ \E w \in Workers : Post(w) \/ FeedCloses(w)
           \/ \E c \in Conns : TaskStep(c)
           \/ PoolStops
    PROVE  HInv'
<1>0. /\ ListenerType /\ ListenerInv /\ ConnType /\ RestType /\ StopInv
      /\ \A c \in Conns : ConnOK(c)
      /\ pool \in {"Running", "Stopping", "Stopped"}
      /\ task \in [Conns -> {"none", "queued", "running"}]
      /\ pool = "Stopped" => \A c \in Conns : task[c] = "none"
  BY HInvParts
<1>1. UNCHANGED listenerVars /\ UNCHANGED <<server, stopVars, app>>
  BY DEF Post, FeedCloses, TaskStep, TaskStarts, TaskAnswers, PoolStops, vars, appVars
<1>2. ListenerType' /\ ListenerInv' /\ UNCHANGED <<lst, worker>>
  BY <1>0, <1>1, IdleListener DEF listenerVars
<1>3. ASSUME NEW w \in Workers, Post(w) PROVE HInv'
  <2>1. /\ pool = "Running" /\ pool' = pool /\ UNCHANGED connVars
        /\ task' = [task EXCEPT ![worker[w]] = "queued"]
    BY <1>3 DEF Post, vars
  <2>2. task' \in [Conns -> {"none", "queued", "running"}] /\ ConnsKept
    BY <1>0, <2>1, IdleKeepsConn
  <2> QED BY <1>0, <1>1, <1>2, <2>1, <2>2, WorkKeepsHInv
<1>4. ASSUME NEW w \in Workers, FeedCloses(w) PROVE HInv'
  <2>1. PICK c \in Conns : c = worker[w]
    BY <1>4 DEF FeedCloses
  <2>2. phase' = Closed(c) /\ UNCHANGED <<ops, member>> /\ UNCHANGED <<pool, task>>
    BY <1>4, <2>1 DEF FeedCloses, appVars
  <2>3. ConnsKept
    BY <1>0, <2>2, ClosedKeepsConn
  <2> QED BY <1>0, <1>1, <1>2, <2>2, <2>3, WorkKeepsHInv
<1>5. ASSUME NEW c \in Conns, TaskStarts(c) PROVE HInv'
  <2>1. /\ task[c] = "queued" /\ pool' = pool /\ UNCHANGED connVars
        /\ task' = [task EXCEPT ![c] = "running"]
    BY <1>5 DEF TaskStarts, vars
  <2>2. task' \in [Conns -> {"none", "queued", "running"}] /\ ConnsKept
    BY <1>0, <2>1, IdleKeepsConn
  <2>3. pool # "Stopped"
    BY <1>0, <2>1
  <2> QED BY <1>0, <1>1, <1>2, <2>1, <2>2, <2>3, WorkKeepsHInv
<1>6. ASSUME NEW c \in Conns, TaskAnswers(c) PROVE HInv'
  <2>1. /\ task[c] = "running" /\ pool' = pool /\ member' = member
        /\ task' = [task EXCEPT ![c] = "none"]
    BY <1>6 DEF TaskAnswers
  <2>2. task' \in [Conns -> {"none", "queued", "running"}] /\ pool # "Stopped"
    BY <1>0, <2>1
  <2>3. ConnsKept
    <3>1. CASE phase' = Closed(c) /\ UNCHANGED ops
      BY <1>0, <2>1, <3>1, ClosedKeepsConn
    <3>2. CASE /\ ops' = IF phase[c] = "Active"
                         THEN [ops EXCEPT ![c] = ops[c] \cup {"send"}] ELSE ops
               /\ UNCHANGED phase
      <4>1. CASE phase[c] = "Active"
        <5>1. ops[c] \cup {"send"} \in SUBSET {"recv", "send"}
          BY <1>0 DEF ConnType
        <5> QED BY <1>0, <2>1, <3>2, <4>1, <5>1, WorkKeepsConn
      <4>2. CASE phase[c] # "Active"
        BY <1>0, <2>1, <3>2, <4>2, IdleKeepsConn DEF connVars
      <4> QED BY <4>1, <4>2
    <3> QED BY <1>6, <3>1, <3>2 DEF TaskAnswers
  <2> QED BY <1>0, <1>1, <1>2, <2>1, <2>2, <2>3, WorkKeepsHInv
<1>7. CASE PoolStops
  <2>1. /\ pool' = "Stopped" /\ \A c \in Conns : task[c] = "none"
        /\ task' = task /\ UNCHANGED connVars
    BY <1>7 DEF PoolStops, PoolDrained, vars
  <2>2. ConnsKept
    BY <1>0, <2>1, IdleKeepsConn
  <2> QED BY <1>0, <1>1, <1>2, <2>1, <2>2, WorkKeepsHInv
<1> QED BY <1>3, <1>4, <1>5, <1>6, <1>7 DEF TaskStep

------------------------------------------------------------------------------
(* The theorems *)

LEMMA HInvInductive == HInv /\ [ServerNext]_serverVars => HInv'
<1> SUFFICES ASSUME HInv, [ServerNext]_serverVars PROVE HInv'
  OBVIOUS
<1>1. CASE SharedStep /\ UNCHANGED appVars
  BY <1>1, SharedStepKeeps
<1>2. CASE TimesOut /\ UNCHANGED appVars
  BY <1>2, BarriersKeep
<1>3. CASE ServerStop
  BY <1>3, SharedStopKeeps, BarriersKeep DEF ServerStop
<1>4. CASE /\ app = "http"
           /\ \/ \E w \in Workers : Post(w) \/ FeedCloses(w)
              \/ \E c \in Conns : TaskStep(c)
              \/ PoolStops \/ PoolTimesOut
  BY <1>4, PoolKeeps, BarriersKeep
<1>5. CASE UNCHANGED serverVars
  <2>1. /\ UNCHANGED listenerVars /\ UNCHANGED connVars /\ UNCHANGED <<lst, worker>>
        /\ UNCHANGED <<server, stopVars, app>> /\ UNCHANGED <<pool, task>>
    BY <1>5 DEF serverVars, vars, appVars, listenerVars
  <2>2. ListenerType' /\ ListenerInv' /\ ConnsKept
    BY <2>1, HInvParts, IdleListener, IdleKeepsConn
  <2> QED BY <2>1, <2>2, HInvParts, WorkKeepsHInv
<1> QED BY <1>1, <1>2, <1>3, <1>4, <1>5 DEF ServerNext

\* HInv holds in every reachable state of either server.
THEOREM ServerInvariance == ServerSpec => []HInv
BY InitHInv, HInvInductive, PTL DEF ServerSpec

\* What HInv says of the stop packets and of a stopped server.
LEMMA HInvIsSafe ==
    ASSUME HInv PROVE NeverDeaf /\ NoCompletionAfterStop /\ NoneLeftBehind /\ AllIsQuiet
<1>0. /\ ListenerInv /\ StopInv /\ ServerTypeOK /\ TypeOK /\ ConnType
      /\ \A c \in Conns : ConnOK(c)
  BY TypeParts DEF HInv, ServerTypeOK
<1>1. \A c \in Conns : ~member[c] => ops[c] = {} /\ phase[c] \in {"none", "Closed"}
  BY <1>0 DEF ConnOK, ConnType
<1>2. lst.state = "Stopped" =>
        /\ accept_op = "none"
        /\ \A w \in Workers : worker[w] \notin {"prepare", "handler", "finish", "throws"}
  BY <1>0, StoppedListenerIsIdle DEF Busy, BusySteps
<1>3. io_stopping => lst.state = "Stopped" /\ \A c \in Conns : ~member[c]
  BY <1>0 DEF StopInv
<1>4. NoCompletionAfterStop
  BY <1>0, <1>1, <1>2, <1>3 DEF NoCompletionAfterStop
<1>5. StoppedIsQuiet
  BY <1>0, <1>1 DEF StopInv, StoppedIsQuiet
<1>6. AllIsQuiet
  BY <1>0, <1>2, <1>5 DEF AllIsQuiet, StopInv, ListenerStoppedIsQuiet
<1> QED BY <1>0, <1>4, <1>6 DEF ListenerInv, StopInv

\* TcpListener: a Running listener always has an accept in the kernel or in
\* the port, or a worker about to stop it because the re-post failed, however
\* many completions are in progress at once.
THEOREM ListenerIsNeverDeaf == ServerSpec => []NeverDeaf
BY ServerInvariance, HInvIsSafe, PTL

\* Stop of both servers: when IoContext::Stop queues the stop packets no
\* operation of the listener or of a connection is outstanding.
THEOREM NothingCompletesAfterStop == ServerSpec => []NoCompletionAfterStop
BY ServerInvariance, HInvIsSafe, PTL

\* Stop of both servers: no connection is Active behind the registry snapshot.
THEOREM NoConnectionIsLeftBehind == ServerSpec => []NoneLeftBehind
BY ServerInvariance, HInvIsSafe, PTL

\* A listener or a server that reports Stopped runs no handler, holds no
\* connection and has no task of the application pool left.
THEOREM ServersStopQuietly == ServerSpec => []AllIsQuiet
BY ServerInvariance, HInvIsSafe, PTL

------------------------------------------------------------------------------
(* The lifecycle of a connection *)

\* What a step of the server does to one connection: nothing; it is accepted;
\* operations come and go; it is closed, by itself or by a completion; a
\* cancelled operation completes; it leaves the registry.
Same(c) == phase'[c] = phase[c] /\ ops'[c] = ops[c] /\ member'[c] = member[c]
Accepted(c) ==
    /\ phase[c] = "none" /\ member'[c]
    /\ \/ phase'[c] = "Active" /\ ops'[c] = {"recv"}
       \/ phase'[c] = "Closed" /\ ops'[c] = ops[c]
Works(c) ==
    /\ phase[c] = "Active" /\ phase'[c] = "Active"
    /\ ops'[c] \in SUBSET {"recv", "send"} /\ member'[c] = member[c]
Closes(c) ==
    /\ phase[c] = "Active" /\ member'[c] = member[c]
    /\ ops'[c] = ops[c] \/ \E op \in ops[c] : ops'[c] = ops[c] \ {op}
    /\ phase'[c] = IF ops'[c] = {} THEN "Closed" ELSE "Closing"
Drains(c) ==
    /\ phase[c] = "Closing" /\ member'[c] = member[c]
    /\ \E op \in ops[c] : ops'[c] = ops[c] \ {op}
    /\ phase'[c] = IF ops'[c] = {} THEN "Closed" ELSE "Closing"
Leaves(c) ==
    /\ phase[c] = "Closed" /\ member[c] /\ member'[c] = FALSE
    /\ phase'[c] = phase[c] /\ ops'[c] = ops[c]
LifeStep(c) ==
    Same(c) \/ Accepted(c) \/ Works(c) \/ Closes(c) \/ Drains(c) \/ Leaves(c)

LEMMA OpsAreFew ==
    ASSUME NEW s \in SUBSET {"recv", "send"}
    PROVE  /\ Cardinality(s) \in 0..2 /\ (Cardinality(s) = 0 <=> s = {})
           /\ \A op \in s : Cardinality(s \ {op}) = Cardinality(s) - 1
<1>1. IsFiniteSet({"recv", "send"}) /\ Cardinality({"recv", "send"}) = 2
  <2>1. IsFiniteSet({"recv"}) /\ Cardinality({"recv"}) = 1
    BY FS_Singleton
  <2>2. {"recv", "send"} = {"recv"} \cup {"send"} /\ "send" \notin {"recv"}
    OBVIOUS
  <2> QED BY <2>1, <2>2, FS_AddElement
<1>2. IsFiniteSet(s) /\ Cardinality(s) <= 2
  BY <1>1, FS_Subset
<1>3. Cardinality(s) \in Nat
  BY <1>2, FS_CardinalityType
<1>4. Cardinality(s) = 0 <=> s = {}
  BY <1>2, FS_EmptySet
<1>5. \A op \in s : Cardinality(s \ {op}) = Cardinality(s) - 1
  BY <1>2, FS_RemoveElement
<1> QED BY <1>2, <1>3, <1>4, <1>5

LEMMA LifeStepRefines ==
    ASSUME ConnType, ConnType', NEW c \in Conns, ConnOK(c), ConnOK(c)', LifeStep(c)
    PROVE  [Conn(c)!Next]_(Conn(c)!vars)
<1>1. /\ ops[c] \in SUBSET {"recv", "send"} /\ ops'[c] \in SUBSET {"recv", "send"}
      /\ member[c] \in BOOLEAN /\ member'[c] \in BOOLEAN
      /\ phase[c] \in {"none", "Active", "Closing", "Closed"}
  BY DEF ConnType
<1>2. PICK n : n = Cardinality(ops[c])
  OBVIOUS
<1>3. PICK m : m = Cardinality(ops'[c])
  OBVIOUS
<1>4. /\ n \in 0..2 /\ (n = 0 <=> ops[c] = {})
      /\ \A op \in ops[c] : Cardinality(ops[c] \ {op}) = n - 1
  BY <1>1, <1>2, OpsAreFew
<1>5. m \in 0..2 /\ (m = 0 <=> ops'[c] = {})
  BY <1>1, <1>3, OpsAreFew
<1>6. ops'[c] = ops[c] => m = n
  BY <1>2, <1>3
<1>7. (\E op \in ops[c] : ops'[c] = ops[c] \ {op}) => m = n - 1
  BY <1>3, <1>4
<1>8. CASE Same(c)
  BY <1>2, <1>3, <1>6, <1>8 DEF Same, Conn!vars
<1>9. CASE Accepted(c)
  <2>1. n = 0
    BY <1>4, <1>9 DEF Accepted, ConnOK
  <2>2. CASE phase'[c] = "Active"
    BY <1>2, <1>3, <1>5, <1>9, <2>2 DEF Accepted, Conn!Next, Conn!Work
  <2>3. CASE phase'[c] = "Closed" /\ ops'[c] = ops[c]
    <3>1. m = 0
      BY <1>6, <2>1, <2>3
    <3> QED BY <1>2, <1>3, <1>9, <2>1, <2>3, <3>1
            DEF Accepted, Conn!Next, Conn!BeginClose
  <2> QED BY <1>9, <2>2, <2>3 DEF Accepted
<1>10. CASE Works(c)
  BY <1>3, <1>5, <1>10 DEF Works, Conn!Next, Conn!Work
<1>11. CASE Closes(c)
  <2>1. m = n \/ m = n - 1
    BY <1>6, <1>7, <1>11 DEF Closes
  <2>2. phase'[c] = IF m = 0 THEN "Closed" ELSE "Closing"
    BY <1>5, <1>11 DEF Closes
  <2>3. m \in {n} \cup {k \in 0..2 : k + 1 = n}
    BY <1>4, <1>5, <2>1
  <2> QED BY <1>2, <1>3, <1>11, <2>2, <2>3 DEF Closes, Conn!Next, Conn!BeginClose
<1>12. CASE Drains(c)
  <2>1. m = n - 1
    BY <1>7, <1>12 DEF Drains
  <2>2. n > 0
    <3>1. ops[c] # {}
      BY <1>12 DEF Drains
    <3> QED BY <1>4, <3>1
  <2>3. phase'[c] = IF m = 0 THEN "Closed" ELSE "Closing"
    BY <1>5, <1>12 DEF Drains
  <2> QED BY <1>2, <1>3, <1>12, <2>1, <2>2, <2>3 DEF Drains, Conn!Next, Conn!Drain
<1>13. CASE Leaves(c)
  BY <1>2, <1>3, <1>6, <1>13 DEF Leaves, Conn!Next, Conn!Leave
<1> QED BY <1>8, <1>9, <1>10, <1>11, <1>12, <1>13 DEF LifeStep

\* A step that leaves the connections alone.
LEMMA IdleIsLifeStep == ASSUME UNCHANGED connVars PROVE \A c \in Conns : LifeStep(c)
BY DEF connVars, LifeStep, Same

LEMMA ClosedIsLifeStep ==
    ASSUME ConnType, NEW c \in Conns,
           \/ phase' = Closed(c)
           \/ phase' = (IF phase[c] = "Active"
                        THEN [phase EXCEPT ![c] = PhaseAfterClose(ops[c])] ELSE phase),
           UNCHANGED <<ops, member>>
    PROVE  \A d \in Conns : LifeStep(d)
<1>1. \A d \in Conns \ {c} : Same(d)
  BY DEF ConnType, Closed, Same
<1>2. Same(c) \/ Closes(c)
  <2>1. CASE phase[c] = "Active"
    <3>1. phase'[c] = PhaseAfterClose(ops[c])
      BY <2>1 DEF ConnType, Closed
    <3> QED BY <2>1, <3>1 DEF Closes, PhaseAfterClose
  <2>2. CASE phase[c] # "Active"
    BY <2>2 DEF ConnType, Closed, Same
  <2> QED BY <2>1, <2>2
<1> QED BY <1>1, <1>2 DEF LifeStep

LEMMA ConnStepIsLifeStep ==
    ASSUME ConnType, NEW c \in Conns, ConnStep(c) PROVE \A d \in Conns : LifeStep(d)
<1>0. ops[c] \in SUBSET {"recv", "send"}
  BY DEF ConnType
<1>1. \A d \in Conns \ {c} : Same(d)
  BY DEF ConnType, ConnStep, Receive, SendCompletes, CompletionCloses,
      CancelledCompletes, Leave, Same
<1>2. CASE (\E w \in Workers : Receive(w, c)) \/ SendCompletes(c)
  <2>1. Works(c)
    BY <1>0, <1>2 DEF ConnType, Receive, SendCompletes, Works
  <2> QED BY <1>1, <2>1 DEF LifeStep
<1>3. CASE CompletionCloses(c) \/ CancelledCompletes(c)
  <2>1. PICK op \in ops[c] :
            /\ ops' = [ops EXCEPT ![c] = ops[c] \ {op}]
            /\ phase' = [phase EXCEPT ![c] = PhaseAfterClose(ops[c] \ {op})]
    BY <1>3 DEF CompletionCloses, CancelledCompletes
  <2>2. phase[c] \in {"Active", "Closing"} /\ member' = member
    BY <1>3 DEF CompletionCloses, CancelledCompletes
  <2>3. /\ ops'[c] = ops[c] \ {op}
        /\ phase'[c] = IF ops'[c] = {} THEN "Closed" ELSE "Closing"
    BY <2>1 DEF ConnType, PhaseAfterClose
  <2>4. Closes(c) \/ Drains(c)
    BY <2>2, <2>3 DEF Closes, Drains
  <2> QED BY <1>1, <2>4 DEF LifeStep
<1>4. CASE Leave(c)
  <2>1. Leaves(c)
    BY <1>4 DEF ConnType, Leave, Leaves
  <2> QED BY <1>1, <2>1 DEF LifeStep
<1> QED BY <1>2, <1>3, <1>4 DEF ConnStep

\* The next WSARecv or WSASend of a connection that is Active.
LEMMA PostIsLifeStep ==
    ASSUME ConnType, NEW c \in Conns, NEW op \in {"recv", "send"},
           ops' = (IF phase[c] = "Active" THEN [ops EXCEPT ![c] = ops[c] \cup {op}]
                   ELSE ops),
           UNCHANGED <<phase, member>>
    PROVE  \A d \in Conns : LifeStep(d)
<1>1. \A d \in Conns \ {c} : Same(d)
  BY DEF ConnType, Same
<1>2. Same(c) \/ Works(c)
  <2>1. CASE phase[c] = "Active"
    <3>1. ops[c] \cup {op} \in SUBSET {"recv", "send"}
      BY DEF ConnType
    <3> QED BY <2>1, <3>1 DEF ConnType, Works
  <2>2. CASE phase[c] # "Active"
    BY <2>2 DEF Same
  <2> QED BY <2>1, <2>2
<1> QED BY <1>1, <1>2 DEF LifeStep

LEMMA AcceptIsLifeStep ==
    ASSUME ConnType, NEW w \in Workers, OnAccepted(w)
    PROVE  \A d \in Conns : LifeStep(d)
<1>1. CASE UNCHANGED connVars
  BY <1>1, IdleIsLifeStep
<1>2. CASE ~UNCHANGED connVars
  <2>1. PICK c \in Conns :
            /\ phase[c] = "none" /\ member' = [member EXCEPT ![c] = TRUE]
            /\ \/ /\ phase' = [phase EXCEPT ![c] = "Active"]
                  /\ ops' = [ops EXCEPT ![c] = {"recv"}]
               \/ /\ phase' = [phase EXCEPT ![c] = "Closed"]
                  /\ UNCHANGED ops
    BY <1>2 DEF OnAccepted
  <2>2. \A d \in Conns \ {c} : Same(d)
    BY <2>1 DEF ConnType, Same
  <2>3. Accepted(c)
    BY <2>1 DEF ConnType, Accepted
  <2> QED BY <2>2, <2>3 DEF LifeStep
<1> QED BY <1>1, <1>2

\* Every step of the server is a step of the life of each connection.
LEMMA ServerStepIsLifeStep ==
    ASSUME ConnType, [ServerNext]_serverVars PROVE \A d \in Conns : LifeStep(d)
<1>1. CASE SharedStep
  <2>1. CASE ListenerStep
    BY <2>1, IdleIsLifeStep DEF ListenerStep
  <2>2. ASSUME NEW w \in Workers, OnAccepted(w) PROVE \A d \in Conns : LifeStep(d)
    BY <2>2, AcceptIsLifeStep
  <2>3. ASSUME NEW w \in Workers, Send(w) PROVE \A d \in Conns : LifeStep(d)
    <3>1. PICK c \in Conns : c = worker[w]
      BY <2>3 DEF Send
    <3>2. /\ ops' = IF phase[c] = "Active" THEN [ops EXCEPT ![c] = ops[c] \cup {"send"}]
                    ELSE ops
          /\ UNCHANGED <<phase, member>>
      BY <2>3, <3>1 DEF Send
    <3> QED BY <3>2, PostIsLifeStep
  <2>4. ASSUME NEW w \in Workers, HandlerReturns(w) PROVE \A d \in Conns : LifeStep(d)
    <3>1. PICK c \in Conns : c = worker[w]
      BY <2>4 DEF HandlerReturns
    <3>2. /\ ops' = IF phase[c] = "Active" THEN [ops EXCEPT ![c] = ops[c] \cup {"recv"}]
                    ELSE ops
          /\ UNCHANGED <<phase, member>>
      BY <2>4, <3>1 DEF HandlerReturns
    <3> QED BY <3>2, PostIsLifeStep
  <2>5. ASSUME NEW w \in Workers, WorkerExits(w) PROVE \A d \in Conns : LifeStep(d)
    BY <2>5, IdleIsLifeStep DEF WorkerExits
  <2>6. ASSUME NEW c \in Conns, ConnStep(c) PROVE \A d \in Conns : LifeStep(d)
    BY <2>6, ConnStepIsLifeStep
  <2> QED BY <1>1, <2>1, <2>2, <2>3, <2>4, <2>5, <2>6 DEF SharedStep
<1>2. CASE ServerStop \/ TimesOut \/ PoolStops \/ PoolTimesOut
  <2>1. ASSUME NEW c \in Conns, ClosesConnection(c) PROVE \A d \in Conns : LifeStep(d)
    BY <2>1, ClosedIsLifeStep DEF ClosesConnection
  <2>2. CASE UNCHANGED connVars
    BY <2>2, IdleIsLifeStep
  <2>3. UNCHANGED connVars \/ \E c \in Conns : ClosesConnection(c)
    BY <1>2 DEF ServerStop, SharedStop, StopBegins, StopsListener, ListenerStopped,
        ConnectionsClosed, WorkersJoined, RegistryEmpty, RegistryEmptyStopsPool,
        PoolStopped, TimesOut, PoolStops, PoolTimesOut, vars
  <2> QED BY <2>1, <2>2, <2>3
<1>3. ASSUME NEW w \in Workers, Post(w) \/ FeedCloses(w)
      PROVE  \A d \in Conns : LifeStep(d)
  <2>1. CASE Post(w)
    BY <2>1, IdleIsLifeStep DEF Post, vars
  <2>2. CASE FeedCloses(w)
    <3>1. PICK c \in Conns : c = worker[w]
      BY <2>2 DEF FeedCloses
    <3>2. phase' = Closed(c) /\ UNCHANGED <<ops, member>>
      BY <2>2, <3>1 DEF FeedCloses
    <3> QED BY <3>2, ClosedIsLifeStep
  <2> QED BY <1>3, <2>1, <2>2
<1>4. ASSUME NEW c \in Conns, TaskStep(c) PROVE \A d \in Conns : LifeStep(d)
  <2>1. CASE TaskStarts(c)
    BY <2>1, IdleIsLifeStep DEF TaskStarts, vars
  <2>2. CASE TaskAnswers(c)
    <3>1. CASE phase' = Closed(c) /\ UNCHANGED ops
      BY <2>2, <3>1, ClosedIsLifeStep DEF TaskAnswers
    <3>2. CASE /\ ops' = IF phase[c] = "Active"
                         THEN [ops EXCEPT ![c] = ops[c] \cup {"send"}] ELSE ops
               /\ UNCHANGED phase
      BY <2>2, <3>2, PostIsLifeStep DEF TaskAnswers
    <3> QED BY <2>2, <3>1, <3>2 DEF TaskAnswers
  <2> QED BY <1>4, <2>1, <2>2 DEF TaskStep
<1>5. CASE UNCHANGED serverVars
  BY <1>5, IdleIsLifeStep DEF serverVars, vars
<1> QED BY <1>1, <1>2, <1>3, <1>4, <1>5 DEF ServerNext

\* EchoServer and HttpServer: each connection of the server behaves as the
\* lifecycle that TcpConnection implements, whichever thread moves it.
THEOREM ConnectionsImplementLifecycle == ServerSpec => ConnsImplementLifecycle
<1>1. ServerInit => \A c \in Conns : Conn(c)!Init
  BY FS_EmptySet DEF ServerInit, Init, Conn!Init
<1>2. HInv /\ HInv' /\ [ServerNext]_serverVars =>
          [\A c \in Conns : [Conn(c)!Next]_(Conn(c)!vars)]_vars
  <2> SUFFICES ASSUME HInv, HInv', [ServerNext]_serverVars, NEW c \in Conns
               PROVE  [Conn(c)!Next]_(Conn(c)!vars)
    OBVIOUS
  <2>1. ConnType /\ ConnType' /\ ConnOK(c) /\ ConnOK(c)'
    BY TypeParts, TypePartsAfter DEF HInv
  <2> QED BY <2>1, ServerStepIsLifeStep, LifeStepRefines
<1> QED BY <1>1, <1>2, ServerInvariance, PTL DEF ServerSpec, ConnsImplementLifecycle
==============================================================================
