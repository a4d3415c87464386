------------------------ MODULE TcpConnection_proofs -------------------------
(***************************************************************************)
(* Proofs about TcpConnection, for all limits, batches and bounds.  Every  *)
(* critical section of the code starts from a connection that the previous *)
(* one settled, passes through unsettled fields under the mutex, and ends  *)
(* in MoveToClosedIfDrainedLocked, a close or a post, which settle it.     *)
(* The lemmas follow that order: first what each ...Locked operator does   *)
(* to Unsettled and Settled, then one lemma per action, then the theorems. *)
(***************************************************************************)
EXTENDS TcpConnection, TLAPS

\* A flag as the number of operations it stands for.
Flag(b) == IF b THEN 1 ELSE 0

\* The fields before a critical section settles them.
Unsettled(c) ==
    /\ c \in ConnType
    /\ c.outstanding = Flag(c.receive_in_flight) + Flag(c.send_in_flight)
    /\ c.state = "Closed" => c.outstanding = 0
    /\ c.state # "Active" => ~c.timer_armed /\ ~c.close_after_send

\* What holds whenever the mutex is free: a closing connection still waits
\* for something, and bytes to send have a send in flight.
Settled(c) ==
    /\ Unsettled(c)
    /\ c.state = "Closing" => c.outstanding # 0
    /\ c.state = "Active" /\ (c.queue # <<>> \/ c.close_after_send)
          => c.send_in_flight

\* The cleared send queue is a sequence of bytes.
LEMMA EmptyIsTyped == <<>> \in Seq(Byte)
OBVIOUS

\* MoveToClosedIfDrainedLocked settles a connection that is being closed.
LEMMA DrainSettles ==
    ASSUME NEW c, Unsettled(c), c.state # "Active"
    PROVE  LET d == MoveToClosedIfDrainedLocked(c)
           IN  /\ Settled(d) /\ d.state # "Active"
               /\ d.receive_in_flight <=> c.receive_in_flight
               /\ d.send_in_flight <=> c.send_in_flight
               /\ c.state = "Closed" => d.state = "Closed"
<1>0. c \in ConnType
  BY DEF Unsettled
<1>1. CASE c.state = "Closing" /\ c.outstanding = 0
  <2> DEFINE d == [c EXCEPT !.state = "Closed", !.queue = <<>>]
  <2>1. d \in ConnType
    BY <1>0, EmptyIsTyped DEF ConnType
  <2>2. /\ d.state = "Closed" /\ d.outstanding = 0
        /\ d.receive_in_flight = c.receive_in_flight
        /\ d.send_in_flight = c.send_in_flight
        /\ d.timer_armed = c.timer_armed
        /\ d.close_after_send = c.close_after_send
    BY <1>0, <1>1 DEF ConnType
  <2>3. d = MoveToClosedIfDrainedLocked(c)
    BY <1>1 DEF MoveToClosedIfDrainedLocked
  <2> HIDE DEF d
  <2>4. Settled(d)
    BY <1>1, <2>1, <2>2 DEF Unsettled, Settled
  <2> QED
    BY <2>2, <2>3, <2>4
<1>2. CASE ~(c.state = "Closing" /\ c.outstanding = 0)
  <2>1. c = MoveToClosedIfDrainedLocked(c)
    BY <1>2 DEF MoveToClosedIfDrainedLocked
  <2>2. Settled(c)
    BY <1>2 DEF Unsettled, Settled, ConnType
  <2> QED BY <2>1, <2>2
<1> QED BY <1>1, <1>2

\* BeginCloseLocked and MoveToClosedIfDrainedLocked settle any connection.
LEMMA CloseSettles ==
    ASSUME NEW c, Unsettled(c), NEW reason \in CloseReason
    PROVE  LET d == CloseLocked(c, reason)
           IN  /\ Settled(d) /\ d.state # "Active"
               /\ d.receive_in_flight <=> c.receive_in_flight
               /\ d.send_in_flight <=> c.send_in_flight
               /\ c.state = "Closed" => d.state = "Closed"
<1> DEFINE b == BeginCloseLocked(c, reason)
<1>0. c \in ConnType
  BY DEF Unsettled
<1>1. /\ Unsettled(b) /\ b.state # "Active"
      /\ b.receive_in_flight <=> c.receive_in_flight
      /\ b.send_in_flight <=> c.send_in_flight
      /\ c.state = "Closed" => b.state = "Closed"
  <2>1. CASE c.state # "Active"
    BY <2>1 DEF BeginCloseLocked
  <2>2. CASE c.state = "Active"
    <3>1. b \in ConnType
      BY <1>0, <2>2 DEF ConnType, BeginCloseLocked
    <3>2. /\ b.state = "Closing" /\ b.outstanding = c.outstanding
          /\ b.receive_in_flight = c.receive_in_flight
          /\ b.send_in_flight = c.send_in_flight
          /\ ~b.timer_armed /\ ~b.close_after_send
      BY <1>0, <2>2 DEF ConnType, BeginCloseLocked
    <3> HIDE DEF b
    <3> QED
      BY <2>2, <3>1, <3>2 DEF Unsettled
  <2> QED BY <2>1, <2>2
<1> HIDE DEF b
<1>2. CloseLocked(c, reason) = MoveToClosedIfDrainedLocked(b)
  BY DEF CloseLocked, b
<1> QED BY <1>1, <1>2, DrainSettles

\* UpdateIdleTimerLocked changes nothing the invariant is about.
LEMMA TimerKeeps ==
    ASSUME NEW c, Unsettled(c)
    PROVE  LET d == UpdateIdleTimerLocked(c)
           IN  /\ Unsettled(d) /\ d.state = c.state /\ d.queue = c.queue
               /\ d.receive_in_flight = c.receive_in_flight
               /\ d.send_in_flight = c.send_in_flight
               /\ d.close_after_send = c.close_after_send
               /\ d.outstanding = c.outstanding
               /\ d.close_reason = c.close_reason
<1> DEFINE d == UpdateIdleTimerLocked(c)
<1>0. c \in ConnType
  BY DEF Unsettled
<1>1. d \in ConnType
  BY <1>0 DEF ConnType, UpdateIdleTimerLocked
<1>2. /\ d.state = c.state /\ d.queue = c.queue
      /\ d.receive_in_flight = c.receive_in_flight
      /\ d.send_in_flight = c.send_in_flight
      /\ d.close_after_send = c.close_after_send
      /\ d.outstanding = c.outstanding
      /\ d.close_reason = c.close_reason
      /\ c.state # "Active" => d.timer_armed = c.timer_armed
  BY <1>0 DEF ConnType, UpdateIdleTimerLocked
<1> HIDE DEF d
<1>3. Unsettled(d)
  BY <1>1, <1>2 DEF Unsettled
<1> QED BY <1>2, <1>3 DEF d

------------------------------------------------------------------------------
(* The inductive invariant *)

\* The registry and the thread on its way to it.
RegistryOK(c, l, r) ==
    /\ l \in BOOLEAN /\ r \in BOOLEAN
    /\ c.state = "Closed" => (l <=> r)
    /\ c.state # "Closed" => ~l /\ r

\* The flags of the fields tell what the kernel has.
CInv ==
    /\ TypeOK
    /\ Settled(conn)
    /\ conn.receive_in_flight <=> recv_op # "none"
    /\ conn.send_in_flight <=> send_op.at # "none"
    /\ RegistryOK(conn, leaving, registered)
    /\ OneReceiver

\* Unlock hands the removal to exactly one thread.
LEMMA UnlockKeepsRegistry ==
    ASSUME NEW c, Unlock(c), c.state \in {"Active", "Closing", "Closed"},
           RegistryOK(conn, leaving, registered),
           conn.state = "Closed" => c.state = "Closed"
    PROVE  conn' = c /\ RegistryOK(conn', leaving', registered)
BY DEF Unlock, RegistryOK

\* A settled connection is in one of the three states of ConnectionState.
LEMMA SettledState ==
    ASSUME NEW c, Unsettled(c)
    PROVE  c.state \in {"Active", "Closing", "Closed"}
BY DEF Unsettled, ConnType

\* What a critical section leaves behind is a legal start of the next.
LEMMA SettledIsUnsettled ==
    ASSUME NEW c, Settled(c)
    PROVE  Unsettled(c)
BY DEF Settled

\* A critical section that ends in a close.
LEMMA CloseStep ==
    ASSUME NEW c, Unsettled(c), NEW reason \in CloseReason,
           Unlock(CloseLocked(c, reason)),
           RegistryOK(conn, leaving, registered),
           conn.state = "Closed" => c.state = "Closed"
    PROVE  /\ Settled(conn') /\ RegistryOK(conn', leaving', registered)
           /\ conn'.state # "Active"
           /\ conn'.receive_in_flight <=> c.receive_in_flight
           /\ conn'.send_in_flight <=> c.send_in_flight
<1> DEFINE d == CloseLocked(c, reason)
<1>1. /\ Settled(d) /\ d.state # "Active"
      /\ d.receive_in_flight <=> c.receive_in_flight
      /\ d.send_in_flight <=> c.send_in_flight
      /\ c.state = "Closed" => d.state = "Closed"
  BY CloseSettles
<1>2. Unlock(d)
  OBVIOUS
<1> HIDE DEF d
<1>3. d.state \in {"Active", "Closing", "Closed"}
  BY <1>1, SettledIsUnsettled, SettledState
<1> QED BY <1>1, <1>2, <1>3, UnlockKeepsRegistry

\* A critical section that posts the next receive or closes.
LEMMA PostReceiveStep ==
    ASSUME NEW c, Settled(c), PostReceiveOrClose(c),
           RegistryOK(conn, leaving, registered),
           conn.state = "Closed" => c.state = "Closed",
           c.receive_in_flight <=> recv_op # "none"
    PROVE  /\ Settled(conn') /\ RegistryOK(conn', leaving', registered)
           /\ conn'.receive_in_flight <=> recv_op' # "none"
           /\ conn'.send_in_flight <=> c.send_in_flight
           /\ \/ /\ c.state = "Active" /\ conn'.state = "Active"
                 /\ recv_op = "none" /\ recv_op' = "pending"
              \/ conn'.state # "Active" /\ recv_op' = recv_op
<1>0. Unsettled(c) /\ c \in ConnType
  BY DEF Settled, Unsettled
<1>1. CASE /\ c.state = "Active" /\ ~c.receive_in_flight
           /\ Unlock([c EXCEPT !.outstanding = @ + 1, !.receive_in_flight = TRUE])
           /\ recv_op' = "pending"
  <2> DEFINE d == [c EXCEPT !.outstanding = @ + 1, !.receive_in_flight = TRUE]
  <2>0. c.outstanding + 1 \in Nat
    BY <1>0 DEF ConnType
  <2>1. d \in ConnType
    BY <1>0, <2>0 DEF ConnType
  <2>2. /\ d.state = "Active" /\ d.outstanding = c.outstanding + 1
        /\ d.receive_in_flight = TRUE
        /\ d.send_in_flight = c.send_in_flight
        /\ d.queue = c.queue
        /\ d.close_after_send = c.close_after_send
    BY <1>0, <1>1 DEF ConnType
  <2>3. Unlock(d)
    BY <1>1
  <2> HIDE DEF d
  <2>4. Settled(d)
    BY <1>0, <1>1, <2>1, <2>2 DEF Settled, Unsettled, Flag, ConnType
  <2> QED BY <1>1, <2>2, <2>3, <2>4, UnlockKeepsRegistry
<1>2. CASE /\ Unlock(CloseLocked(UpdateIdleTimerLocked(c), "ReceiveError"))
           /\ UNCHANGED recv_op
  <2> DEFINE u == UpdateIdleTimerLocked(c)
  <2>1. /\ Unsettled(u) /\ u.state = c.state
        /\ u.receive_in_flight = c.receive_in_flight
        /\ u.send_in_flight = c.send_in_flight
    BY <1>0, TimerKeeps
  <2>2. Unlock(CloseLocked(u, "ReceiveError"))
    BY <1>2
  <2> HIDE DEF u
  <2>3. "ReceiveError" \in CloseReason
    BY DEF CloseReason
  <2> QED BY <1>2, <2>1, <2>2, <2>3, CloseStep
<1> QED BY <1>1, <1>2 DEF PostReceiveOrClose

SendType ==
    [at : {"none", "pending", "ok", "error"}, bytes : Seq(Byte), sent : Nat]

\* The idle send operation is well formed.
LEMMA NoSendIsTyped == NoSend \in SendType /\ NoSend.at = "none"
BY EmptyIsTyped DEF NoSend, SendType

\* A critical section that posts the next send or closes.
LEMMA PostSendStep ==
    ASSUME NEW c, Unsettled(c), c.state = "Active", ~c.send_in_flight,
           PostSendOrClose(c),
           RegistryOK(conn, leaving, registered), conn.state # "Closed"
    PROVE  /\ Settled(conn') /\ RegistryOK(conn', leaving', registered)
           /\ conn'.send_in_flight <=> send_op'.at # "none"
           /\ conn'.receive_in_flight <=> c.receive_in_flight
           /\ send_op' \in SendType
<1>0. c \in ConnType
  BY DEF Unsettled
<1>1. ASSUME NEW n \in GatherLengths(c.queue, GatherSegments, GatherBytes),
             Unlock([c EXCEPT !.outstanding = @ + 1, !.send_in_flight = TRUE]),
             send_op' = [at |-> "pending", bytes |-> SubSeq(c.queue, 1, n),
                         sent |-> 0]
      PROVE  /\ Settled(conn') /\ RegistryOK(conn', leaving', registered)
             /\ conn'.send_in_flight <=> send_op'.at # "none"
             /\ conn'.receive_in_flight <=> c.receive_in_flight
             /\ send_op' \in SendType
  <2> DEFINE d == [c EXCEPT !.outstanding = @ + 1, !.send_in_flight = TRUE]
  <2>0. c.outstanding + 1 \in Nat
    BY <1>0 DEF ConnType
  <2>1. d \in ConnType
    BY <1>0, <2>0 DEF ConnType
  <2>2. /\ d.state = "Active" /\ d.outstanding = c.outstanding + 1
        /\ d.send_in_flight = TRUE
        /\ d.receive_in_flight = c.receive_in_flight
    BY <1>0 DEF ConnType
  <2>3. Unlock(d)
    BY <1>1
  <2> HIDE DEF d
  <2>4. Settled(d)
    BY <1>0, <2>1, <2>2 DEF Settled, Unsettled, Flag, ConnType
  <2>5. SubSeq(c.queue, 1, n) \in Seq(Byte)
    <3>1. c.queue \in Seq(Byte) /\ n \in 0..Len(c.queue)
      BY <1>0 DEF ConnType, GatherLengths
    <3> QED BY <3>1
  <2>6. send_op' \in SendType /\ send_op'.at # "none"
    BY <1>1, <2>5 DEF SendType
  <2> QED BY <2>2, <2>3, <2>4, <2>6, UnlockKeepsRegistry
<1>2. CASE /\ Unlock(CloseLocked(UpdateIdleTimerLocked(c), "SendError"))
           /\ send_op' = NoSend
  <2> DEFINE u == UpdateIdleTimerLocked(c)
  <2>1. /\ Unsettled(u) /\ u.state = c.state
        /\ u.receive_in_flight = c.receive_in_flight
        /\ u.send_in_flight = c.send_in_flight
    BY TimerKeeps
  <2>2. Unlock(CloseLocked(u, "SendError"))
    BY <1>2
  <2> HIDE DEF u
  <2>3. "SendError" \in CloseReason
    BY DEF CloseReason
  <2> QED BY <1>2, <2>1, <2>2, <2>3, CloseStep, NoSendIsTyped
<1> QED BY <1>1, <1>2 DEF PostSendOrClose

\* A critical section that ends in MoveToClosedIfDrainedLocked alone.
LEMMA DrainStep ==
    ASSUME NEW c, Unsettled(c), c.state # "Active",
           Unlock(MoveToClosedIfDrainedLocked(c)),
           RegistryOK(conn, leaving, registered),
           conn.state = "Closed" => c.state = "Closed"
    PROVE  /\ Settled(conn') /\ RegistryOK(conn', leaving', registered)
           /\ conn'.state # "Active"
           /\ conn'.receive_in_flight <=> c.receive_in_flight
           /\ conn'.send_in_flight <=> c.send_in_flight
<1> DEFINE d == MoveToClosedIfDrainedLocked(c)
<1>1. /\ Settled(d) /\ d.state # "Active"
      /\ d.receive_in_flight <=> c.receive_in_flight
      /\ d.send_in_flight <=> c.send_in_flight
      /\ c.state = "Closed" => d.state = "Closed"
  BY DrainSettles
<1>2. Unlock(d)
  OBVIOUS
<1> HIDE DEF d
<1>3. d.state \in {"Active", "Closing", "Closed"}
  BY <1>1, SettledIsUnsettled, SettledState
<1> QED BY <1>1, <1>2, <1>3, UnlockKeepsRegistry

\* The first lines of OnReceiveComplete and of OnSendComplete take back
\* exactly the count and the flag the post put there.
LEMMA CompleteReceiveKeeps ==
    ASSUME NEW c, Settled(c), c.receive_in_flight
    PROVE  LET d == CompleteReceive(c)
           IN  /\ Unsettled(d) /\ ~d.receive_in_flight
               /\ d.state = c.state /\ d.queue = c.queue
               /\ d.send_in_flight = c.send_in_flight
               /\ d.close_after_send = c.close_after_send
<1> DEFINE e == [c EXCEPT !.outstanding = IF @ > 0 THEN @ - 1 ELSE @,
                          !.receive_in_flight = FALSE]
<1>0. Unsettled(c) /\ c \in ConnType
  BY DEF Settled, Unsettled
<1>1. c.outstanding \in Nat /\ c.outstanding > 0 /\ c.outstanding - 1 \in Nat
  BY <1>0 DEF ConnType, Unsettled, Flag
<1>2. e \in ConnType
  BY <1>0, <1>1 DEF ConnType
<1>3. /\ e.outstanding = c.outstanding - 1 /\ e.receive_in_flight = FALSE
      /\ e.state = c.state /\ e.queue = c.queue
      /\ e.send_in_flight = c.send_in_flight
      /\ e.close_after_send = c.close_after_send
      /\ e.timer_armed = c.timer_armed
  BY <1>0, <1>1 DEF ConnType
<1>4. CompleteReceive(c) = UpdateIdleTimerLocked(e)
  BY DEF CompleteReceive
<1> HIDE DEF e
<1>5. Unsettled(e)
  BY <1>0, <1>1, <1>2, <1>3 DEF Unsettled, Flag, ConnType
<1> QED BY <1>3, <1>4, <1>5, TimerKeeps

\* The same for the completion of a send (OnSendComplete, first lines).
LEMMA CompleteSendKeeps ==
    ASSUME NEW c, Settled(c), c.send_in_flight
    PROVE  LET d == CompleteSend(c)
           IN  /\ Unsettled(d) /\ ~d.send_in_flight
               /\ d.state = c.state /\ d.queue = c.queue
               /\ d.receive_in_flight = c.receive_in_flight
               /\ d.close_after_send = c.close_after_send
               /\ d.close_reason = c.close_reason
<1> DEFINE e == [c EXCEPT !.outstanding = IF @ > 0 THEN @ - 1 ELSE @,
                          !.send_in_flight = FALSE]
<1>0. Unsettled(c) /\ c \in ConnType
  BY DEF Settled, Unsettled
<1>1. c.outstanding \in Nat /\ c.outstanding > 0 /\ c.outstanding - 1 \in Nat
  BY <1>0 DEF ConnType, Unsettled, Flag
<1>2. e \in ConnType
  BY <1>0, <1>1 DEF ConnType
<1>3. /\ e.outstanding = c.outstanding - 1 /\ e.send_in_flight = FALSE
      /\ e.state = c.state /\ e.queue = c.queue
      /\ e.receive_in_flight = c.receive_in_flight
      /\ e.close_after_send = c.close_after_send
      /\ e.close_reason = c.close_reason
      /\ e.timer_armed = c.timer_armed
  BY <1>0, <1>1 DEF ConnType
<1>4. CompleteSend(c) = UpdateIdleTimerLocked(e)
  BY DEF CompleteSend
<1> HIDE DEF e
<1>5. Unsettled(e)
  BY <1>0, <1>1, <1>2, <1>3 DEF Unsettled, Flag, ConnType
<1> QED BY <1>3, <1>4, <1>5, TimerKeeps

\* Gathering, consuming and appending bytes yields bytes.
LEMMA BytesAreTyped ==
    ASSUME NEW n \in Nat, NEW batch \in Seq(Nat)
    PROVE  BytesOf(n, batch) \in Seq(Byte)
<1>1. Len(batch) \in Nat
  OBVIOUS
<1>2. ASSUME NEW i \in 1..Len(batch)
      PROVE  [seg |-> <<n, batch[i]>>, pos |-> i] \in Byte
  <2>1. batch[i] \in Nat /\ i \in Nat
    OBVIOUS
  <2> QED BY <2>1 DEF Byte
<1> QED BY <1>1, <1>2 DEF BytesOf

\* A connection that was just constructed satisfies the invariant.
LEMMA InitCInv == Init => CInv
<1> SUFFICES ASSUME Init PROVE CInv
  OBVIOUS
<1>1. conn \in ConnType
  BY EmptyIsTyped DEF Init, ConnType, CloseReason
<1>2. send_op \in SendType /\ send_op.at = "none"
  BY NoSendIsTyped DEF Init
<1>3. TypeOK
  BY <1>1, <1>2, EmptyIsTyped DEF Init, TypeOK, SendType
<1>4. Settled(conn)
  BY <1>1 DEF Init, Settled, Unsettled, Flag
<1>5. conn.state = "Active" /\ ~conn.receive_in_flight /\ ~conn.send_in_flight
  BY DEF Init
<1>6. RegistryOK(conn, leaving, registered)
  BY <1>5 DEF Init, RegistryOK
<1>7. OneReceiver
  <2>1. handlers = 0 /\ recv_op = "none" /\ started = FALSE
    BY DEF Init
  <2> QED BY <2>1 DEF OneReceiver
<1> QED BY <1>2, <1>3, <1>4, <1>5, <1>6, <1>7 DEF Init, CInv

\* Start and HandlerReturns: the token of the receive side goes to the kernel.
LEMMA StartKeeps == CInv /\ Start => CInv'
<1> SUFFICES ASSUME CInv, Start PROVE CInv'
  OBVIOUS
<1>1. /\ Settled(conn') /\ RegistryOK(conn', leaving', registered)
      /\ conn'.receive_in_flight <=> recv_op' # "none"
      /\ conn'.send_in_flight <=> conn.send_in_flight
      /\ \/ /\ conn.state = "Active" /\ conn'.state = "Active"
            /\ recv_op = "none" /\ recv_op' = "pending"
         \/ conn'.state # "Active" /\ recv_op' = recv_op
  BY PostReceiveStep DEF CInv, Start
<1>3. TypeOK'
  BY <1>1 DEF CInv, TypeOK, Start, Settled, Unsettled, RegistryOK
<1>4. OneReceiver'
  BY <1>1 DEF CInv, TypeOK, OneReceiver, Start
<1> QED BY <1>1, <1>3, <1>4 DEF CInv, Start

\* OnReceiveComplete after its handler: the next receive, or the close.
LEMMA HandlerReturnsKeeps == CInv /\ HandlerReturns => CInv'
<1> SUFFICES ASSUME CInv, HandlerReturns PROVE CInv'
  OBVIOUS
<1>0. handlers \in Nat /\ handlers > 0 /\ handlers' = handlers - 1
  BY DEF CInv, TypeOK, HandlerReturns
<1>1. /\ Settled(conn') /\ RegistryOK(conn', leaving', registered)
      /\ conn'.receive_in_flight <=> recv_op' # "none"
      /\ conn'.send_in_flight <=> conn.send_in_flight
      /\ \/ /\ conn.state = "Active" /\ conn'.state = "Active"
            /\ recv_op = "none" /\ recv_op' = "pending"
         \/ conn'.state # "Active" /\ recv_op' = recv_op
  <2>1. CASE conn.state = "Active"
    BY <2>1, PostReceiveStep DEF CInv, HandlerReturns, Repost
  <2>2. CASE conn.state # "Active"
    BY <2>2 DEF CInv, HandlerReturns, Repost
  <2> QED BY <2>1, <2>2
<1>2. TypeOK'
  BY <1>0, <1>1 DEF CInv, TypeOK, HandlerReturns, Settled, Unsettled, RegistryOK
<1>3. OneReceiver'
  BY <1>0, <1>1 DEF CInv, TypeOK, OneReceiver, HandlerReturns
<1> QED BY <1>1, <1>2, <1>3 DEF CInv, HandlerReturns

\* A step that closes the connection and changes no operation keeps CInv.
LEMMA CloseKeeps ==
    ASSUME CInv, NEW reason \in CloseReason, Unlock(CloseLocked(conn, reason)),
           UNCHANGED <<started, recv_op, send_op, registered, accepted, wire>>,
           sends' \in Nat, receives' \in Nat, idle_firing' \in BOOLEAN,
           handlers' \in Nat, handlers' <= handlers
    PROVE  CInv'
<1>1. /\ Settled(conn') /\ RegistryOK(conn', leaving', registered)
      /\ conn'.state # "Active"
      /\ conn'.receive_in_flight <=> conn.receive_in_flight
      /\ conn'.send_in_flight <=> conn.send_in_flight
  BY CloseStep DEF CInv, Settled
<1>2. TypeOK'
  BY <1>1 DEF CInv, TypeOK, Settled, Unsettled, RegistryOK
<1>3. OneReceiver'
  <2>1. /\ handlers \in Nat /\ recv_op' = recv_op
        /\ handlers + (IF recv_op = "none" THEN 0 ELSE 1) <= 1
    BY DEF CInv, TypeOK, OneReceiver
  <2>2. handlers' + (IF recv_op' = "none" THEN 0 ELSE 1) <= 1
    <3> DEFINE h == handlers'
               k == IF recv_op = "none" THEN 0 ELSE 1
    <3>1. h \in Nat /\ h <= handlers /\ k \in Nat /\ handlers + k <= 1
      BY <2>1
    <3>2. h + k <= 1
      <4> HIDE DEF h, k
      <4> QED BY <2>1, <3>1
    <3> QED BY <2>1, <3>2
  <2> QED BY <1>1, <2>2 DEF OneReceiver
<1> QED BY <1>1, <1>2, <1>3 DEF CInv

\* BeginClose called by any thread, with any reason.
LEMMA CallBeginCloseKeeps ==
    ASSUME CInv, NEW reason \in CloseReason, CallBeginClose(reason),
           idle_firing' \in BOOLEAN
    PROVE  CInv'
<1>1. sends' \in Nat /\ receives' \in Nat /\ handlers' \in Nat
      /\ handlers' <= handlers
  BY DEF CInv, TypeOK, CallBeginClose
<1> QED BY <1>1, CloseKeeps DEF CallBeginClose

\* OnReceiveComplete when its handler throws.
LEMMA HandlerThrowsKeeps == CInv /\ HandlerThrows => CInv'
<1> SUFFICES ASSUME CInv, HandlerThrows PROVE CInv'
  OBVIOUS
<1>1. /\ sends' \in Nat /\ receives' \in Nat /\ handlers' \in Nat
      /\ handlers' <= handlers /\ idle_firing' \in BOOLEAN
  BY DEF CInv, TypeOK, HandlerThrows
<1>2. "HandlerError" \in CloseReason
  BY DEF CloseReason
<1> QED BY <1>1, <1>2, CloseKeeps DEF HandlerThrows

\* A send call: the whole batch is queued with a send to serve it, or the
\* connection closes.
LEMMA SendBatchKeeps ==
    ASSUME CInv, NEW batch \in Batches, NEW final \in BOOLEAN,
           SendBatchInternal(batch, final)
    PROVE  CInv'
<1> DEFINE bytes == BytesOf(sends, batch)
           c == [conn EXCEPT !.queue = @ \o bytes, !.close_after_send = final]
<1>1. /\ conn \in ConnType /\ conn.state = "Active" /\ sends \in Nat
      /\ sends' \in Nat /\ receives' \in Nat /\ handlers' \in Nat
      /\ handlers' <= handlers /\ idle_firing' \in BOOLEAN
  BY DEF CInv, TypeOK, SendBatchInternal, TakesSends
<1>2. bytes \in Seq(Byte)
  BY <1>1, BytesAreTyped, BatchesAreByteStrings
<1> HIDE DEF bytes
<1>3. CASE \/ ItemCount(bytes) > BatchSegments
           \/ ~Admits(conn.queue, bytes)
  <2>1. /\ Unlock(CloseLocked(conn, "SendQueueOverflow"))
        /\ UNCHANGED <<send_op, accepted>>
    BY <1>3 DEF SendBatchInternal, bytes
  <2>2. "SendQueueOverflow" \in CloseReason
    BY DEF CloseReason
  <2> QED BY <1>1, <2>1, <2>2, CloseKeeps DEF SendBatchInternal
<1>4. CASE ~(\/ ItemCount(bytes) > BatchSegments
             \/ ~Admits(conn.queue, bytes))
  <2>1. /\ PostUnlessInFlight(c)
        /\ accepted' = IF conn'.state = "Active" THEN accepted \o bytes
                                                 ELSE accepted
    BY <1>4 DEF SendBatchInternal, bytes
  <2>2. conn.queue \o bytes \in Seq(Byte) /\ accepted' \in Seq(Byte)
    BY <1>1, <1>2, <2>1 DEF CInv, TypeOK, ConnType
  <2>3. c \in ConnType
    BY <1>1, <2>2 DEF ConnType
  <2>4. /\ c.state = "Active" /\ c.outstanding = conn.outstanding
        /\ c.receive_in_flight = conn.receive_in_flight
        /\ c.send_in_flight = conn.send_in_flight
    BY <1>1 DEF ConnType
  <2> HIDE DEF c
  <2>5. Unsettled(c)
    BY <1>1, <2>3, <2>4 DEF CInv, Settled, Unsettled
  <2>6. /\ Settled(conn') /\ RegistryOK(conn', leaving', registered)
        /\ conn'.send_in_flight <=> send_op'.at # "none"
        /\ conn'.receive_in_flight <=> conn.receive_in_flight
        /\ send_op' \in SendType
    <3>1. CASE c.send_in_flight
      <4>1. Unlock(c) /\ UNCHANGED send_op
        BY <2>1, <3>1 DEF PostUnlessInFlight
      <4>2. Settled(c)
        BY <2>4, <2>5, <3>1 DEF Settled
      <4> QED
        BY <1>1, <2>4, <3>1, <4>1, <4>2, UnlockKeepsRegistry
        DEF CInv, TypeOK, SendType
    <3>2. CASE ~c.send_in_flight
      BY <1>1, <2>1, <2>4, <2>5, <3>2, PostSendStep DEF PostUnlessInFlight, CInv
    <3> QED BY <3>1, <3>2
  <2>7. TypeOK'
    BY <1>1, <2>2, <2>6
    DEF CInv, TypeOK, SendBatchInternal, Settled, Unsettled, RegistryOK, SendType
  <2>8. OneReceiver'
    BY <1>1 DEF CInv, TypeOK, OneReceiver, SendBatchInternal
  <2> QED BY <2>6, <2>7, <2>8 DEF CInv, SendBatchInternal
<1> QED BY <1>3, <1>4

\* SetTimerService and IdleTimerDue touch the timer's fields alone.
LEMMA TimerFieldsKeep ==
    ASSUME CInv, NEW c \in ConnType, conn' = c,
           c.state = conn.state, c.outstanding = conn.outstanding,
           c.receive_in_flight = conn.receive_in_flight,
           c.send_in_flight = conn.send_in_flight,
           c.close_after_send = conn.close_after_send, c.queue = conn.queue,
           c.state # "Active" => ~c.timer_armed,
           idle_firing' \in BOOLEAN,
           UNCHANGED <<started, recv_op, send_op, handlers, leaving, registered,
                       sends, receives, accepted, wire>>
    PROVE  CInv'
<1>1. Settled(c)
  BY DEF CInv, Settled, Unsettled
<1>2. TypeOK' /\ RegistryOK(conn', leaving', registered')
  BY DEF CInv, TypeOK, RegistryOK
<1>3. OneReceiver'
  BY DEF CInv, OneReceiver
<1> QED BY <1>1, <1>2, <1>3 DEF CInv

\* SetTimerService arms the timer of a connection that is still Active only.
LEMMA SetTimerServiceKeeps == CInv /\ SetTimerService => CInv'
<1> SUFFICES ASSUME CInv, SetTimerService PROVE CInv'
  OBVIOUS
<1> DEFINE b == [conn EXCEPT !.timed = TRUE]
           c == UpdateIdleTimerLocked(b)
<1>1. conn \in ConnType /\ Unsettled(conn)
  BY DEF CInv, TypeOK, Settled
<1>2. /\ b \in ConnType /\ b.state = conn.state
      /\ b.outstanding = conn.outstanding
      /\ b.receive_in_flight = conn.receive_in_flight
      /\ b.send_in_flight = conn.send_in_flight
      /\ b.close_after_send = conn.close_after_send /\ b.queue = conn.queue
      /\ b.timer_armed = conn.timer_armed
  BY <1>1 DEF ConnType
<1>3. Unlock(c)
  BY DEF SetTimerService
<1> HIDE DEF b
<1>4. Unsettled(b)
  BY <1>1, <1>2 DEF Unsettled
<1>5. /\ Unsettled(c) /\ c.state = b.state /\ c.queue = b.queue
      /\ c.receive_in_flight = b.receive_in_flight
      /\ c.send_in_flight = b.send_in_flight
      /\ c.close_after_send = b.close_after_send
      /\ c.outstanding = b.outstanding
  BY <1>4, TimerKeeps
<1> HIDE DEF c
<1>6. conn' = c /\ leaving' = leaving
  BY <1>2, <1>3, <1>5 DEF Unlock, CInv, TypeOK
<1>7. c \in ConnType /\ (c.state # "Active" => ~c.timer_armed)
  BY <1>5 DEF Unsettled
<1>8. idle_firing' \in BOOLEAN
  BY DEF CInv, TypeOK, SetTimerService
<1> QED
  BY <1>2, <1>5, <1>6, <1>7, <1>8, TimerFieldsKeep DEF SetTimerService

\* The timer thread takes the armed callback.
LEMMA IdleTimerDueKeeps == CInv /\ IdleTimerDue => CInv'
<1> SUFFICES ASSUME CInv, IdleTimerDue PROVE CInv'
  OBVIOUS
<1> DEFINE c == [conn EXCEPT !.timer_armed = FALSE]
<1>1. conn \in ConnType
  BY DEF CInv, TypeOK
<1>2. /\ c \in ConnType /\ c.state = conn.state
      /\ c.outstanding = conn.outstanding
      /\ c.receive_in_flight = conn.receive_in_flight
      /\ c.send_in_flight = conn.send_in_flight
      /\ c.close_after_send = conn.close_after_send /\ c.queue = conn.queue
      /\ c.timer_armed = FALSE
  BY <1>1 DEF ConnType
<1>3. conn' = c /\ idle_firing' \in BOOLEAN
  BY DEF IdleTimerDue
<1> HIDE DEF c
<1> QED BY <1>2, <1>3, TimerFieldsKeep DEF IdleTimerDue

\* What the kernel does to an operation it holds leaves the fields alone.
LEMMA KernelKeeps ==
    CInv /\ (RemoveFromRegistry \/ KernelReceives \/ KernelSends) => CInv'
<1>1. CInv /\ RemoveFromRegistry => CInv'
  <2> SUFFICES ASSUME CInv, RemoveFromRegistry PROVE CInv'
    OBVIOUS
  <2>1. conn.state = "Closed" /\ conn' = conn
    BY DEF CInv, RegistryOK, RemoveFromRegistry
  <2>2. RegistryOK(conn', leaving', registered')
    BY <2>1 DEF RemoveFromRegistry, RegistryOK
  <2>3. TypeOK' /\ OneReceiver'
    BY DEF CInv, TypeOK, OneReceiver, RemoveFromRegistry
  <2> QED BY <2>1, <2>2, <2>3 DEF CInv, RemoveFromRegistry
<1>2. CInv /\ KernelReceives => CInv'
  <2> SUFFICES ASSUME CInv, KernelReceives PROVE CInv'
    OBVIOUS
  <2>1. /\ recv_op # "none" /\ recv_op' \in {"data", "eof", "error"}
        /\ receives' \in Nat /\ conn' = conn
    BY DEF CInv, TypeOK, KernelReceives
  <2>2. TypeOK' /\ OneReceiver'
    BY <2>1 DEF CInv, TypeOK, OneReceiver, KernelReceives
  <2> QED BY <2>1, <2>2 DEF CInv, KernelReceives
<1>3. CInv /\ KernelSends => CInv'
  <2> SUFFICES ASSUME CInv, KernelSends PROVE CInv'
    OBVIOUS
  <2>0. send_op \in SendType /\ wire \in Seq(Byte) /\ send_op.at = "pending"
    BY DEF CInv, TypeOK, SendType, KernelSends
  <2>1. PICK n \in 0..Len(send_op.bytes), result \in {"ok", "error"} :
          /\ send_op' = [send_op EXCEPT !.at = result, !.sent = n]
          /\ wire' = wire \o SubSeq(send_op.bytes, 1, n)
    BY DEF KernelSends
  <2>2. send_op.bytes \in Seq(Byte) /\ n \in Nat
    BY <2>0 DEF SendType
  <2>3. send_op' \in SendType /\ send_op'.at # "none"
    BY <2>0, <2>1, <2>2 DEF SendType
  <2>4. SubSeq(send_op.bytes, 1, n) \in Seq(Byte)
    BY <2>2
  <2>5. wire' \in Seq(Byte)
    BY <2>0, <2>1, <2>4
  <2>6. TypeOK' /\ OneReceiver'
    BY <2>3, <2>5 DEF CInv, TypeOK, SendType, OneReceiver, KernelSends
  <2> QED BY <2>0, <2>3, <2>6 DEF CInv, KernelSends
<1> QED BY <1>1, <1>2, <1>3

\* The critical section of OnReceiveComplete, on all its outcomes.
LEMMA OnReceiveCompleteKeeps == CInv /\ OnReceiveComplete => CInv'
<1> SUFFICES ASSUME CInv, OnReceiveComplete PROVE CInv'
  OBVIOUS
<1> DEFINE c == CompleteReceive(conn)
<1>0. /\ recv_op \in {"data", "eof", "error"} /\ recv_op' = "none"
      /\ handlers \in Nat /\ handlers = 0
      /\ Settled(conn) /\ conn.receive_in_flight
      /\ RegistryOK(conn, leaving, registered)
      /\ UNCHANGED <<started, send_op, registered>>
  BY DEF CInv, TypeOK, OneReceiver, OnReceiveComplete
<1>1. /\ Unsettled(c) /\ ~c.receive_in_flight
      /\ c.state = conn.state /\ c.queue = conn.queue
      /\ c.send_in_flight = conn.send_in_flight
      /\ c.close_after_send = conn.close_after_send
  BY <1>0, CompleteReceiveKeeps
<1>2. /\ recv_op = "error" => Unlock(CloseLocked(c, "ReceiveError"))
      /\ recv_op = "eof" => Unlock(CloseLocked(c, "PeerClosed"))
      /\ recv_op = "data" => Unlock(MoveToClosedIfDrainedLocked(c))
  BY DEF OnReceiveComplete
<1>3. handlers' = IF recv_op = "data" /\ conn.state = "Active"
                  THEN handlers + 1 ELSE handlers
  BY DEF OnReceiveComplete
<1> HIDE DEF c
<1>4. "ReceiveError" \in CloseReason /\ "PeerClosed" \in CloseReason
  BY DEF CloseReason
<1>5. /\ Settled(conn') /\ RegistryOK(conn', leaving', registered)
      /\ conn'.receive_in_flight <=> c.receive_in_flight
      /\ conn'.send_in_flight <=> c.send_in_flight
      /\ conn'.state = "Active" => recv_op = "data" /\ conn.state = "Active"
  <2>1. CASE recv_op = "error"
    BY <1>0, <1>1, <1>2, <1>4, <2>1, CloseStep
  <2>2. CASE recv_op = "eof"
    BY <1>0, <1>1, <1>2, <1>4, <2>2, CloseStep
  <2>3. CASE recv_op = "data" /\ conn.state # "Active"
    BY <1>0, <1>1, <1>2, <2>3, DrainStep
  <2>4. CASE recv_op = "data" /\ conn.state = "Active"
    <3>1. MoveToClosedIfDrainedLocked(c) = c
      BY <1>1, <2>4 DEF MoveToClosedIfDrainedLocked
    <3>2. Settled(c)
      BY <1>0, <1>1, <2>4 DEF Settled
    <3>3. Unlock(c)
      BY <1>2, <2>4, <3>1
    <3> QED BY <1>0, <1>1, <2>4, <3>2, <3>3, UnlockKeepsRegistry
  <2> QED BY <1>0, <2>1, <2>2, <2>3, <2>4
<1>6. TypeOK'
  BY <1>0, <1>3, <1>5
  DEF CInv, TypeOK, OnReceiveComplete, Settled, Unsettled, RegistryOK
<1>7. OneReceiver'
  <2>1. conn.state = "Active" => started = TRUE
    BY <1>0 DEF CInv, TypeOK, OneReceiver
  <2> QED BY <1>0, <1>3, <1>5, <2>1 DEF OneReceiver
<1> QED BY <1>0, <1>1, <1>5, <1>6, <1>7 DEF CInv

\* OnSendComplete: error, partial send, next gather, graceful close.
LEMMA OnSendCompleteKeeps == CInv /\ OnSendComplete => CInv'
<1> SUFFICES ASSUME CInv, OnSendComplete PROVE CInv'
  OBVIOUS
<1> DEFINE c == CompleteSend(conn)
           after == ConsumeTransferred(c)
<1>0. /\ send_op \in SendType /\ send_op.at \in {"ok", "error"}
      /\ Settled(conn) /\ conn.send_in_flight
      /\ RegistryOK(conn, leaving, registered)
      /\ UNCHANGED <<recv_op, registered>>
  BY DEF CInv, TypeOK, SendType, OnSendComplete
<1>1. /\ Unsettled(c) /\ ~c.send_in_flight
      /\ c.state = conn.state /\ c.queue = conn.queue
      /\ c.receive_in_flight = conn.receive_in_flight
      /\ c.close_after_send = conn.close_after_send
  BY <1>0, CompleteSendKeeps
<1>2. IF send_op.at = "error" \/ (c.state = "Active" /\ ~ValidTransfer(c))
      THEN Unlock(CloseLocked(c, "SendError")) /\ send_op' = NoSend
      ELSE IF c.state # "Active"
      THEN Unlock(MoveToClosedIfDrainedLocked(c)) /\ send_op' = NoSend
      ELSE IF after.queue # <<>> THEN PostSendOrClose(after)
      ELSE /\ Unlock(IF c.close_after_send
                     THEN CloseLocked(after, "ProtocolClose") ELSE after)
           /\ send_op' = NoSend
  BY DEF OnSendComplete
<1> HIDE DEF c
<1>3. ASSUME c.state = "Active"
      PROVE  /\ Unsettled(after) /\ ~after.send_in_flight
             /\ after.state = "Active"
             /\ after.receive_in_flight = c.receive_in_flight
             /\ after.close_after_send = c.close_after_send
  <2>1. c \in ConnType /\ c.queue \in Seq(Byte) /\ send_op.sent \in Nat
    BY <1>0, <1>1 DEF Unsettled, ConnType, SendType
  <2>2. Consume(c.queue, send_op.sent) \in Seq(Byte)
    BY <2>1 DEF Consume
  <2>3. after \in ConnType
    BY <2>1, <2>2 DEF ConnType, ConsumeTransferred
  <2>4. /\ after.state = c.state /\ after.outstanding = c.outstanding
        /\ after.receive_in_flight = c.receive_in_flight
        /\ after.send_in_flight = c.send_in_flight
        /\ after.close_after_send = c.close_after_send
    BY <2>1 DEF ConnType, ConsumeTransferred
  <2> HIDE DEF after
  <2> QED BY <1>1, <1>3, <2>3, <2>4 DEF Unsettled
<1> HIDE DEF after
<1>4. "SendError" \in CloseReason /\ "ProtocolClose" \in CloseReason
  BY DEF CloseReason
<1>5. /\ Settled(conn') /\ RegistryOK(conn', leaving', registered)
      /\ conn'.receive_in_flight <=> conn.receive_in_flight
      /\ conn'.send_in_flight <=> send_op'.at # "none"
      /\ send_op' \in SendType
      /\ conn'.state = "Active" => conn.state = "Active"
  <2>1. CASE send_op.at = "error" \/ (c.state = "Active" /\ ~ValidTransfer(c))
    BY <1>0, <1>1, <1>2, <1>4, <2>1, CloseStep, NoSendIsTyped
  <2>2. CASE ~(send_op.at = "error" \/ (c.state = "Active" /\ ~ValidTransfer(c)))
             /\ c.state # "Active"
    BY <1>0, <1>1, <1>2, <2>2, DrainStep, NoSendIsTyped
  <2>3. CASE ~(send_op.at = "error" \/ (c.state = "Active" /\ ~ValidTransfer(c)))
             /\ c.state = "Active" /\ after.queue # <<>>
    BY <1>0, <1>1, <1>2, <1>3, <2>3, PostSendStep
  <2>4. CASE ~(send_op.at = "error" \/ (c.state = "Active" /\ ~ValidTransfer(c)))
             /\ c.state = "Active" /\ after.queue = <<>> /\ c.close_after_send
    <3>1. Unlock(CloseLocked(after, "ProtocolClose")) /\ send_op' = NoSend
      BY <1>2, <2>4
    <3> QED BY <1>0, <1>1, <1>3, <1>4, <2>4, <3>1, CloseStep, NoSendIsTyped
  <2>5. CASE ~(send_op.at = "error" \/ (c.state = "Active" /\ ~ValidTransfer(c)))
             /\ c.state = "Active" /\ after.queue = <<>> /\ ~c.close_after_send
    <3>1. Unlock(after) /\ send_op' = NoSend
      BY <1>2, <2>5
    <3>2. Settled(after)
      BY <1>3, <2>5 DEF Settled
    <3> QED
      BY <1>0, <1>1, <1>3, <2>5, <3>1, <3>2, UnlockKeepsRegistry, NoSendIsTyped
  <2> QED BY <2>1, <2>2, <2>3, <2>4, <2>5
<1>6. TypeOK'
  BY <1>0, <1>5
  DEF CInv, TypeOK, OnSendComplete, Settled, Unsettled, RegistryOK, SendType
<1>7. OneReceiver'
  BY <1>0, <1>5 DEF CInv, OneReceiver, OnSendComplete
<1> QED BY <1>0, <1>5, <1>6, <1>7 DEF CInv

\* Every step of every thread preserves the invariant: one case per action.
LEMMA CInvInductive == CInv /\ [Next]_vars => CInv'
<1> SUFFICES ASSUME CInv, [Next]_vars PROVE CInv'
  OBVIOUS
<1>0. /\ "None" \in CloseReason /\ "LocalShutdown" \in CloseReason
      /\ "HandlerError" \in CloseReason /\ "ProtocolClose" \in CloseReason
  BY DEF CloseReason
<1>1. CASE Start
  BY <1>1, StartKeeps
<1>2. ASSUME NEW batch \in Batches, NEW final \in BOOLEAN,
             SendBatchInternal(batch, final)
      PROVE  CInv'
  BY <1>2, SendBatchKeeps
<1>3. CASE SendEmptyAndClose
  <2>1. idle_firing' \in BOOLEAN
    BY <1>3 DEF SendEmptyAndClose, CInv, TypeOK
  <2> QED BY <1>0, <1>3, <2>1, CallBeginCloseKeeps DEF SendEmptyAndClose
<1>4. ASSUME NEW reason \in {"LocalShutdown", "HandlerError"}, BeginClose(reason)
      PROVE  CInv'
  <2>1. idle_firing' \in BOOLEAN
    BY <1>4 DEF BeginClose, CInv, TypeOK
  <2>2. reason \in CloseReason
    BY <1>0
  <2> QED BY <1>4, <2>1, <2>2, CallBeginCloseKeeps DEF BeginClose
<1>5. CASE SetTimerService
  BY <1>5, SetTimerServiceKeeps
<1>6. CASE IdleTimerDue
  BY <1>6, IdleTimerDueKeeps
<1>7. CASE IdleTimerFires
  <2>1. idle_firing' \in BOOLEAN
    BY <1>7 DEF IdleTimerFires
  <2> QED BY <1>0, <1>7, <2>1, CallBeginCloseKeeps DEF IdleTimerFires
<1>8. CASE RemoveFromRegistry \/ KernelReceives \/ KernelSends
  BY <1>8, KernelKeeps
<1>9. CASE OnReceiveComplete
  BY <1>9, OnReceiveCompleteKeeps
<1>10. CASE HandlerReturns
  BY <1>10, HandlerReturnsKeeps
<1>11. CASE HandlerThrows
  BY <1>11, HandlerThrowsKeeps
<1>12. CASE OnSendComplete
  BY <1>12, OnSendCompleteKeeps
<1>13. CASE UNCHANGED vars
  BY <1>13 DEF vars, CInv, TypeOK, OneReceiver
<1> QED
  BY <1>1, <1>2, <1>3, <1>4, <1>5, <1>6, <1>7, <1>8, <1>9, <1>10, <1>11,
     <1>12, <1>13 DEF Next

------------------------------------------------------------------------------
(* What a step does to the send queue *)

\* PostSendLocked hands the kernel a prefix of the queue and keeps the queue.
LEMMA PostSendQueue ==
    ASSUME NEW c, Unsettled(c), c.state = "Active", ~c.send_in_flight,
           PostSendOrClose(c),
           RegistryOK(conn, leaving, registered), conn.state # "Closed"
    PROVE  \/ conn'.state # "Active" /\ send_op' = NoSend
           \/ /\ conn'.state = "Active" /\ conn'.queue = c.queue
              /\ send_op'.at = "pending" /\ send_op'.sent = 0
              /\ \E n \in 0..Len(c.queue) : send_op'.bytes = SubSeq(c.queue, 1, n)
              /\ conn'.close_reason = c.close_reason
<1>0. c \in ConnType
  BY DEF Unsettled
<1>1. ASSUME NEW n \in GatherLengths(c.queue, GatherSegments, GatherBytes),
             Unlock([c EXCEPT !.outstanding = @ + 1, !.send_in_flight = TRUE]),
             send_op' = [at |-> "pending", bytes |-> SubSeq(c.queue, 1, n),
                         sent |-> 0]
      PROVE  /\ conn'.state = "Active" /\ conn'.queue = c.queue
             /\ send_op'.at = "pending" /\ send_op'.sent = 0
             /\ \E m \in 0..Len(c.queue) : send_op'.bytes = SubSeq(c.queue, 1, m)
             /\ conn'.close_reason = c.close_reason
  <2>1. conn' = [c EXCEPT !.outstanding = @ + 1, !.send_in_flight = TRUE]
    BY <1>1 DEF Unlock
  <2>2. /\ conn'.state = "Active" /\ conn'.queue = c.queue
        /\ conn'.close_reason = c.close_reason
    BY <1>0, <2>1 DEF ConnType
  <2>3. n \in 0..Len(c.queue)
    BY DEF GatherLengths
  <2> QED BY <1>1, <2>2, <2>3
<1>2. CASE /\ Unlock(CloseLocked(UpdateIdleTimerLocked(c), "SendError"))
           /\ send_op' = NoSend
  <2> DEFINE u == UpdateIdleTimerLocked(c)
  <2>1. Unsettled(u) /\ u.state = c.state
    BY TimerKeeps
  <2>2. Unlock(CloseLocked(u, "SendError"))
    BY <1>2
  <2> HIDE DEF u
  <2>3. "SendError" \in CloseReason
    BY DEF CloseReason
  <2> QED BY <1>2, <2>1, <2>2, <2>3, CloseStep
<1> QED BY <1>1, <1>2 DEF PostSendOrClose

\* Start and HandlerReturns: PostReceiveLocked, and the close when it fails,
\* leave the queue of a connection that stays Active alone.
LEMMA PostReceiveQueue ==
    ASSUME CInv, PostReceiveOrClose(conn)
    PROVE  conn'.state = "Active" =>
               conn.state = "Active" /\ conn'.queue = conn.queue
<1>0. /\ Settled(conn) /\ Unsettled(conn) /\ conn \in ConnType
      /\ RegistryOK(conn, leaving, registered)
  BY DEF CInv, Settled, Unsettled
<1>1. CASE /\ conn.state = "Active"
           /\ Unlock([conn EXCEPT !.outstanding = @ + 1, !.receive_in_flight = TRUE])
  BY <1>0, <1>1 DEF Unlock, ConnType
<1>2. CASE Unlock(CloseLocked(UpdateIdleTimerLocked(conn), "ReceiveError"))
  <2> DEFINE u == UpdateIdleTimerLocked(conn)
  <2>1. Unsettled(u) /\ u.state = conn.state
    BY <1>0, TimerKeeps
  <2>2. Unlock(CloseLocked(u, "ReceiveError"))
    BY <1>2
  <2> HIDE DEF u
  <2>3. "ReceiveError" \in CloseReason
    BY DEF CloseReason
  <2> QED BY <1>0, <2>1, <2>2, <2>3, CloseStep
<1> QED BY <1>1, <1>2 DEF PostReceiveOrClose

\* A close from any thread, on the fields as the step found them.
LEMMA CloseEndsActive ==
    ASSUME CInv, NEW reason \in CloseReason, Unlock(CloseLocked(conn, reason))
    PROVE  conn'.state # "Active"
BY CloseStep DEF CInv, Settled

\* SetTimerService and IdleTimerDue touch the timer's fields alone.
LEMMA TimerKeepsQueue ==
    ASSUME CInv, SetTimerService \/ IdleTimerDue
    PROVE  conn'.state = conn.state /\ conn'.queue = conn.queue
<1>0. conn \in ConnType /\ Unsettled(conn)
  BY DEF CInv, TypeOK, Settled
<1>1. CASE SetTimerService
  <2> DEFINE b == [conn EXCEPT !.timed = TRUE]
  <2>1. conn' = UpdateIdleTimerLocked(b)
    BY <1>1 DEF SetTimerService, Unlock
  <2>2. /\ b \in ConnType /\ b.state = conn.state /\ b.queue = conn.queue
        /\ b.outstanding = conn.outstanding
        /\ b.receive_in_flight = conn.receive_in_flight
        /\ b.send_in_flight = conn.send_in_flight
        /\ b.timer_armed = conn.timer_armed
        /\ b.close_after_send = conn.close_after_send
    BY <1>0 DEF ConnType
  <2> HIDE DEF b
  <2>3. Unsettled(b)
    BY <1>0, <2>2 DEF Unsettled
  <2> QED BY <2>1, <2>2, <2>3, TimerKeeps
<1>2. CASE IdleTimerDue
  BY <1>0, <1>2 DEF IdleTimerDue, ConnType
<1> QED BY <1>1, <1>2

\* OnReceiveComplete moves no byte of the send side.
LEMMA OnReceiveCompleteQueue ==
    ASSUME CInv, OnReceiveComplete
    PROVE  conn'.state = "Active" =>
               conn.state = "Active" /\ conn'.queue = conn.queue
<1> DEFINE c == CompleteReceive(conn)
<1>0. /\ recv_op \in {"data", "eof", "error"}
      /\ Settled(conn) /\ conn.receive_in_flight
      /\ RegistryOK(conn, leaving, registered)
  BY DEF CInv, OnReceiveComplete
<1>1. Unsettled(c) /\ c.state = conn.state /\ c.queue = conn.queue
  BY <1>0, CompleteReceiveKeeps
<1>2. /\ recv_op = "error" => Unlock(CloseLocked(c, "ReceiveError"))
      /\ recv_op = "eof" => Unlock(CloseLocked(c, "PeerClosed"))
      /\ recv_op = "data" => Unlock(MoveToClosedIfDrainedLocked(c))
  BY DEF OnReceiveComplete
<1> HIDE DEF c
<1>3. "ReceiveError" \in CloseReason /\ "PeerClosed" \in CloseReason
  BY DEF CloseReason
<1>4. CASE recv_op \in {"error", "eof"}
  BY <1>0, <1>1, <1>2, <1>3, <1>4, CloseStep
<1>5. CASE recv_op = "data" /\ c.state # "Active"
  BY <1>0, <1>1, <1>2, <1>5, DrainStep
<1>6. CASE recv_op = "data" /\ c.state = "Active"
  BY <1>1, <1>2, <1>6 DEF MoveToClosedIfDrainedLocked, Unlock
<1> QED BY <1>0, <1>4, <1>5, <1>6

------------------------------------------------------------------------------
(* The theorems *)

\* In every behaviour of the connection, whatever the limits and the batches:
\* the mutex-guarded fields tell exactly what the kernel holds.
THEOREM Invariance == Spec => []CInv
BY InitCInv, CInvInductive, PTL DEF Spec

\* The fields keep their types; in particular outstanding never underflows,
\* with or without the code's test for zero.
THEOREM TypeCorrect == Spec => []TypeOK
<1>1. CInv => TypeOK
  BY DEF CInv
<1> QED BY <1>1, Invariance, PTL

\* A Closed connection has nothing in the kernel, and only a Closed one
\* leaves the registry: the barrier WaitEmpty stands on.
THEOREM ClosedMeansDrained == Spec => []ClosedIsDrained
<1>1. CInv => ClosedIsDrained
  <2> SUFFICES ASSUME CInv PROVE ClosedIsDrained
    OBVIOUS
  <2>1. conn.outstanding = KernelOperations
    BY DEF CInv, Settled, Unsettled, Flag, KernelOperations
  <2>2. conn.state = "Closed" => conn.outstanding = 0
    BY DEF CInv, Settled, Unsettled
  <2>3. leaving \/ ~registered => conn.state = "Closed"
    BY DEF CInv, RegistryOK
  <2>4. conn.state = "Closed" => leaving = registered
    BY DEF CInv, RegistryOK
  <2> QED BY <2>1, <2>2, <2>3, <2>4 DEF ClosedIsDrained
<1> QED BY <1>1, Invariance, PTL

\* Received bytes are handled one completion at a time: a WSARecv is in the
\* kernel or a handler runs, never both, and never neither while Active.
THEOREM OneReceiverAtATime == Spec => []OneReceiver
<1>1. CInv => OneReceiver
  BY DEF CInv
<1> QED BY <1>1, Invariance, PTL

\* Queued bytes always have a send in flight to serve them.
THEOREM SendNeverStalls == Spec => []NoStalledSend
<1>1. CInv => NoStalledSend
  BY DEF CInv, Settled, NoStalledSend
<1> QED BY <1>1, Invariance, PTL

\* No idle timer survives the close.
THEOREM TimerEndsWithClose == Spec => []ClosedDisarmsTimer
<1>1. CInv => ClosedDisarmsTimer
  BY DEF CInv, Settled, Unsettled, ClosedDisarmsTimer
<1> QED BY <1>1, Invariance, PTL

------------------------------------------------------------------------------
(* The refinement of ConnectionLifecycle *)

\* A step that keeps the registry, never reopens the connection and, when it
\* leaves the connection closing, has completed at most one operation, is a
\* step of the lifecycle: the settled fields decide between Closing and
\* Closed by the operations still out.
LEMMA LifecycleStep ==
    ASSUME CInv, CInv', registered' = registered,
           conn'.state = "Active" => conn.state = "Active",
           conn'.state # "Active" =>
               \/ KernelOperations' = KernelOperations
               \/ KernelOperations' + 1 = KernelOperations
    PROVE  [Lifecycle!Next]_(Lifecycle!vars)
<1>0. ASSUME NEW m \in 0..2, NEW n \in 0..2, n + 1 = m
      PROVE  m > 0 /\ n = m - 1
  BY <1>0
<1>1. /\ KernelOperations \in 0..2
      /\ conn.state \in {"Active", "Closing", "Closed"}
      /\ conn.state = "Closing" => KernelOperations # 0
      /\ conn.state = "Closed" => KernelOperations = 0
  BY DEF CInv, Settled, Unsettled, ConnType, Flag, KernelOperations
<1>2. /\ KernelOperations' \in 0..2
      /\ conn'.state \in {"Active", "Closing", "Closed"}
      /\ conn'.state = "Closing" => KernelOperations' # 0
      /\ conn'.state = "Closed" => KernelOperations' = 0
  BY DEF CInv, Settled, Unsettled, ConnType, Flag, KernelOperations
<1>3. CASE conn'.state = "Active"
  BY <1>2, <1>3 DEF Lifecycle!Next, Lifecycle!Work
<1>4. CASE conn.state = "Active" /\ conn'.state # "Active"
  BY <1>1, <1>2, <1>4 DEF Lifecycle!Next, Lifecycle!BeginClose
<1>5. CASE conn.state = "Closing" /\ conn'.state # "Active"
  <2>1. CASE KernelOperations' = KernelOperations
    <3>1. conn'.state = conn.state
      BY <1>1, <1>2, <1>5, <2>1
    <3> QED BY <2>1, <3>1 DEF Lifecycle!vars
  <2>2. CASE KernelOperations' + 1 = KernelOperations
    <3>1. KernelOperations > 0 /\ KernelOperations' = KernelOperations - 1
      BY <1>0, <1>1, <1>2, <2>2
    <3> QED BY <1>2, <1>5, <3>1 DEF Lifecycle!Next, Lifecycle!Drain
  <2> QED BY <1>5, <2>1, <2>2
<1>6. CASE conn.state = "Closed" /\ conn'.state # "Active"
  <2>1. KernelOperations' = KernelOperations
    <3>1. ~(KernelOperations > 0)
      BY <1>1, <1>6
    <3> QED BY <1>0, <1>1, <1>2, <1>6, <3>1
  <2>2. conn'.state = conn.state
    BY <1>1, <1>2, <1>6, <2>1
  <2> QED BY <2>1, <2>2 DEF Lifecycle!vars
<1> QED BY <1>1, <1>3, <1>4, <1>5, <1>6

\* A close without a completion leaves the operations out.
LEMMA CloseIsLifecycleStep ==
    ASSUME CInv, CInv', NEW reason \in CloseReason,
           Unlock(CloseLocked(conn, reason)),
           UNCHANGED <<recv_op, send_op, registered>>
    PROVE  [Lifecycle!Next]_(Lifecycle!vars)
<1>1. conn'.state # "Active"
  BY CloseEndsActive
<1>2. KernelOperations' = KernelOperations
  BY DEF KernelOperations
<1> QED BY <1>1, <1>2, LifecycleStep

\* Start and HandlerReturns: a receive is posted, or nothing is and the
\* connection closes.
LEMMA PostReceiveIsLifecycleStep ==
    ASSUME CInv, CInv', PostReceiveOrClose(conn), UNCHANGED <<send_op, registered>>
    PROVE  [Lifecycle!Next]_(Lifecycle!vars)
<1>1. \/ conn.state = "Active" /\ conn'.state = "Active"
      \/ conn'.state # "Active" /\ recv_op' = recv_op
  BY PostReceiveStep DEF CInv
<1>2. recv_op' = recv_op => KernelOperations' = KernelOperations
  BY DEF KernelOperations
<1> QED BY <1>1, <1>2, LifecycleStep

\* A send call posts one send or none; when it closes the connection it has
\* posted none.
LEMMA SendBatchIsLifecycleStep ==
    ASSUME CInv, CInv', NEW batch \in Batches, NEW final \in BOOLEAN,
           SendBatchInternal(batch, final)
    PROVE  [Lifecycle!Next]_(Lifecycle!vars)
<1> DEFINE bytes == BytesOf(sends, batch)
           c == [conn EXCEPT !.queue = @ \o bytes, !.close_after_send = final]
<1>1. /\ conn \in ConnType /\ conn.queue \in Seq(Byte) /\ conn.state = "Active"
      /\ sends \in Nat /\ UNCHANGED <<recv_op, registered>>
      /\ RegistryOK(conn, leaving, registered)
  BY DEF CInv, TypeOK, ConnType, SendBatchInternal, TakesSends
<1>2. bytes \in Seq(Byte) /\ conn.queue \o bytes \in Seq(Byte)
  BY <1>1, BytesAreTyped, BatchesAreByteStrings
<1>3. \/ Unlock(CloseLocked(conn, "SendQueueOverflow")) /\ UNCHANGED send_op
      \/ PostUnlessInFlight(c)
  BY DEF SendBatchInternal
<1>4. CASE Unlock(CloseLocked(conn, "SendQueueOverflow")) /\ UNCHANGED send_op
  <2>1. "SendQueueOverflow" \in CloseReason
    BY DEF CloseReason
  <2> QED BY <1>1, <1>4, <2>1, CloseIsLifecycleStep
<1>5. CASE PostUnlessInFlight(c)
  <2>1. c \in ConnType
    BY <1>1, <1>2 DEF ConnType
  <2>2. /\ c.state = "Active" /\ c.outstanding = conn.outstanding
        /\ c.receive_in_flight = conn.receive_in_flight
        /\ c.send_in_flight = conn.send_in_flight
    BY <1>1 DEF ConnType
  <2> HIDE DEF c
  <2>3. Unsettled(c)
    BY <1>1, <2>1, <2>2 DEF CInv, Settled, Unsettled
  <2>4. CASE c.send_in_flight
    <3>1. conn'.state = "Active"
      BY <1>5, <2>2, <2>4 DEF PostUnlessInFlight, Unlock
    <3> QED BY <1>1, <3>1, LifecycleStep
  <2>5. CASE ~c.send_in_flight
    <3>1. conn'.state # "Active" => send_op' = NoSend
      BY <1>1, <1>5, <2>2, <2>3, <2>5, PostSendQueue DEF PostUnlessInFlight
    <3>2. send_op.at = "none"
      BY <2>2, <2>5 DEF CInv
    <3>3. conn'.state # "Active" => KernelOperations' = KernelOperations
      BY <1>1, <3>1, <3>2, NoSendIsTyped DEF KernelOperations
    <3> QED BY <1>1, <3>3, LifecycleStep
  <2> QED BY <2>4, <2>5
<1> QED BY <1>3, <1>4, <1>5

\* The completion of a send takes one operation away, and posts another only
\* in a connection that stays Active.
LEMMA OnSendCompleteIsLifecycleStep ==
    ASSUME CInv, CInv', OnSendComplete
    PROVE  [Lifecycle!Next]_(Lifecycle!vars)
<1> DEFINE c == CompleteSend(conn)
           after == ConsumeTransferred(c)
<1>0. /\ send_op \in SendType /\ send_op.at \in {"ok", "error"}
      /\ Settled(conn) /\ conn.send_in_flight
      /\ RegistryOK(conn, leaving, registered)
      /\ UNCHANGED <<recv_op, registered>>
  BY DEF CInv, TypeOK, SendType, OnSendComplete
<1>1. /\ Unsettled(c) /\ ~c.send_in_flight
      /\ c.state = conn.state /\ c.queue = conn.queue
  BY <1>0, CompleteSendKeeps
<1>2. \/ c.state # "Active" /\ Unlock(MoveToClosedIfDrainedLocked(c)) /\ send_op' = NoSend
      \/ Unlock(CloseLocked(c, "SendError")) /\ send_op' = NoSend
      \/ c.state = "Active" /\ (PostSendOrClose(after) \/ send_op' = NoSend)
  BY DEF OnSendComplete
<1> HIDE DEF c
<1>3. ASSUME c.state = "Active"
      PROVE  Unsettled(after) /\ ~after.send_in_flight /\ after.state = "Active"
  <2>1. c \in ConnType /\ c.queue \in Seq(Byte) /\ send_op.sent \in Nat
    BY <1>0, <1>1 DEF Unsettled, ConnType, SendType
  <2>2. Consume(c.queue, send_op.sent) \in Seq(Byte)
    BY <2>1 DEF Consume
  <2>3. after \in ConnType
    BY <2>1, <2>2 DEF ConnType, ConsumeTransferred
  <2>4. /\ after.state = c.state /\ after.outstanding = c.outstanding
        /\ after.receive_in_flight = c.receive_in_flight
        /\ after.send_in_flight = c.send_in_flight
    BY <2>1 DEF ConnType, ConsumeTransferred
  <2> HIDE DEF after
  <2> QED BY <1>1, <1>3, <2>3, <2>4 DEF Unsettled
<1> HIDE DEF after
<1>4. "SendError" \in CloseReason
  BY DEF CloseReason
<1>5. /\ conn'.state = "Active" => conn.state = "Active"
      /\ conn'.state # "Active" => send_op' = NoSend
  <2>1. CASE c.state # "Active" /\ Unlock(MoveToClosedIfDrainedLocked(c)) /\ send_op' = NoSend
    BY <1>0, <1>1, <2>1, DrainStep
  <2>2. CASE Unlock(CloseLocked(c, "SendError")) /\ send_op' = NoSend
    BY <1>0, <1>1, <1>4, <2>2, CloseStep
  <2>3. CASE c.state = "Active" /\ send_op' = NoSend
    BY <1>1, <2>3
  <2>4. CASE c.state = "Active" /\ PostSendOrClose(after)
    BY <1>0, <1>1, <1>3, <2>4, PostSendQueue
  <2> QED BY <1>2, <2>1, <2>2, <2>3, <2>4
<1>6. conn'.state # "Active" => KernelOperations' + 1 = KernelOperations
  BY <1>0, <1>5, NoSendIsTyped DEF KernelOperations
<1> QED BY <1>0, <1>5, <1>6, LifecycleStep

\* Every step of the connection is one of its lifecycle, or none: one case
\* per action.
LEMMA NextImplements ==
    CInv /\ CInv' /\ [Next]_vars => [Lifecycle!Next]_(Lifecycle!vars)
<1> SUFFICES ASSUME CInv, CInv', [Next]_vars
             PROVE  [Lifecycle!Next]_(Lifecycle!vars)
  OBVIOUS
<1>0. /\ "None" \in CloseReason /\ "LocalShutdown" \in CloseReason
      /\ "HandlerError" \in CloseReason /\ "ProtocolClose" \in CloseReason
  BY DEF CloseReason
<1>1. CASE Start
  BY <1>1, PostReceiveIsLifecycleStep DEF Start
<1>2. ASSUME NEW batch \in Batches, NEW final \in BOOLEAN,
             SendBatchInternal(batch, final)
      PROVE  [Lifecycle!Next]_(Lifecycle!vars)
  BY <1>2, SendBatchIsLifecycleStep
<1>3. CASE SendEmptyAndClose
  BY <1>0, <1>3, CloseIsLifecycleStep DEF SendEmptyAndClose, CallBeginClose
<1>4. ASSUME NEW reason \in {"LocalShutdown", "HandlerError"}, BeginClose(reason)
      PROVE  [Lifecycle!Next]_(Lifecycle!vars)
  BY <1>0, <1>4, CloseIsLifecycleStep DEF BeginClose, CallBeginClose
<1>5. CASE SetTimerService \/ IdleTimerDue
  <2>1. conn'.state = conn.state
    BY <1>5, TimerKeepsQueue
  <2>2. KernelOperations' = KernelOperations /\ registered' = registered
    BY <1>5 DEF SetTimerService, IdleTimerDue, KernelOperations
  <2> QED BY <2>1, <2>2, LifecycleStep
<1>6. CASE IdleTimerFires
  BY <1>0, <1>6, CloseIsLifecycleStep DEF IdleTimerFires, CallBeginClose
<1>7. CASE RemoveFromRegistry
  <2>1. conn.state = "Closed" /\ conn' = conn /\ registered
    BY <1>7 DEF CInv, RegistryOK, RemoveFromRegistry
  <2>2. KernelOperations' = KernelOperations /\ registered' = FALSE
    BY <1>7 DEF RemoveFromRegistry, KernelOperations
  <2> QED BY <2>1, <2>2 DEF Lifecycle!Next, Lifecycle!Leave
<1>8. CASE KernelReceives \/ KernelSends
  <2>1. conn' = conn /\ registered' = registered
    BY <1>8 DEF KernelReceives, KernelSends
  <2>2. KernelOperations' = KernelOperations
    <3>1. /\ recv_op' = "none" <=> recv_op = "none"
          /\ send_op'.at = "none" <=> send_op.at = "none"
      BY <2>1 DEF CInv
    <3> QED BY <3>1 DEF KernelOperations
  <2> QED BY <2>1, <2>2, LifecycleStep
<1>9. CASE OnReceiveComplete
  <2>1. conn'.state = "Active" => conn.state = "Active"
    BY <1>9, OnReceiveCompleteQueue
  <2>2. KernelOperations' + 1 = KernelOperations
    BY <1>9 DEF OnReceiveComplete, KernelOperations
  <2> QED BY <1>9, <2>1, <2>2, LifecycleStep DEF OnReceiveComplete
<1>10. CASE HandlerReturns
  <2>1. CASE conn.state = "Active"
    BY <1>10, <2>1, PostReceiveIsLifecycleStep DEF HandlerReturns, Repost
  <2>2. CASE conn.state # "Active"
    BY <1>10, <2>2 DEF HandlerReturns, Repost, KernelOperations, Lifecycle!vars
  <2> QED BY <2>1, <2>2
<1>11. CASE HandlerThrows
  BY <1>0, <1>11, CloseIsLifecycleStep DEF HandlerThrows
<1>12. CASE OnSendComplete
  BY <1>12, OnSendCompleteIsLifecycleStep
<1>13. CASE UNCHANGED vars
  BY <1>13 DEF vars, KernelOperations, Lifecycle!vars
<1> QED
  BY <1>1, <1>2, <1>3, <1>4, <1>5, <1>6, <1>7, <1>8, <1>9, <1>10, <1>11,
     <1>12, <1>13 DEF Next

\* The connection implements the lifecycle its server relies on: it closes
\* once, drains what the kernel holds and only then leaves the registry.
THEOREM RefinesLifecycle == Spec => Lifecycle!Spec
<1>1. Init => Lifecycle!Init
  BY DEF Init, Lifecycle!Init, KernelOperations, NoSend
<1> QED BY <1>1, NextImplements, Invariance, PTL DEF Spec, Lifecycle!Spec

------------------------------------------------------------------------------
(***************************************************************************)
(* What the TCP stack is given.  The queue keeps the bytes of a send until *)
(* its completion accounts for them, so queue and gather both lie in the   *)
(* accepted bytes at the place where the send in flight began: that place, *)
(* and not the length of wire, is what a kernel that takes some of the     *)
(* bytes leaves alone.                                                     *)
(***************************************************************************)

\* The bytes of s are those of t from position k on.
LaysAt(s, t, k) ==
    /\ k + Len(s) <= Len(t)
    /\ \A i \in 1..Len(s) : s[i] = t[k + i]

\* Where, in the accepted bytes, the send in flight began.
SendStart == Len(wire) - send_op.sent

\* The bytes out, in flight and queued are pieces of the accepted ones; of a
\* connection that is Active the queue is all that is not out.
StreamInv ==
    /\ send_op.sent <= Len(wire) /\ send_op.sent <= Len(send_op.bytes)
    /\ send_op.at \in {"none", "pending"} => send_op.sent = 0
    /\ LaysAt(wire, accepted, 0)
    /\ LaysAt(send_op.bytes, accepted, SendStart)
    /\ conn.state = "Active" =>
          /\ LaysAt(conn.queue, accepted, SendStart)
          /\ SendStart + Len(conn.queue) = Len(accepted)

\* The types the arithmetic below rests on.
LEMMA StreamTypes ==
    ASSUME TypeOK
    PROVE  /\ wire \in Seq(Byte) /\ accepted \in Seq(Byte)
           /\ send_op.bytes \in Seq(Byte) /\ send_op.sent \in Nat
           /\ conn \in ConnType /\ conn.queue \in Seq(Byte)
           /\ Len(wire) \in Nat /\ Len(accepted) \in Nat
           /\ Len(send_op.bytes) \in Nat /\ Len(conn.queue) \in Nat
<1>1. /\ wire \in Seq(Byte) /\ accepted \in Seq(Byte)
      /\ send_op.bytes \in Seq(Byte) /\ send_op.sent \in Nat
      /\ conn \in ConnType /\ conn.queue \in Seq(Byte)
  BY DEF TypeOK, ConnType
<1> QED BY <1>1

\* What the wire is after the kernel took the first n bytes of b.
LEMMA AppendPrefix ==
    ASSUME NEW w \in Seq(Byte), NEW b \in Seq(Byte), NEW n \in 0..Len(b),
           NEW x, x = w \o SubSeq(b, 1, n)
    PROVE  /\ Len(x) = Len(w) + n
           /\ \A i \in 1..Len(w) : x[i] = w[i]
           /\ \A i \in 1..n : x[Len(w) + i] = b[i]
<1> DEFINE t == SubSeq(b, 1, n)
<1>1. t \in Seq(Byte) /\ Len(t) = n /\ \A i \in 1..n : t[i] = b[i]
  OBVIOUS
<1>2. x = w \o t
  OBVIOUS
<1> HIDE DEF t
<1>3. Len(x) = Len(w) + n
  BY <1>1, <1>2
<1>4. \A i \in 1..Len(w) : x[i] = w[i]
  BY <1>1, <1>2
<1>5. ASSUME NEW i \in 1..n PROVE x[Len(w) + i] = b[i]
  <2>1. Len(w) + i \in 1..(Len(w) + Len(t)) /\ Len(w) + i > Len(w)
    BY <1>1
  <2>2. (w \o t)[Len(w) + i] = t[(Len(w) + i) - Len(w)]
    BY <1>1, <2>1
  <2> QED BY <1>1, <1>2, <2>2
<1> QED BY <1>3, <1>4, <1>5

\* The idle send lies anywhere.
LEMMA NothingLays ==
    ASSUME NEW t \in Seq(Byte), NEW k \in Nat, k <= Len(t)
    PROVE  LaysAt(<<>>, t, k)
BY DEF LaysAt

\* Accepting more bytes moves none of those that lie in the accepted ones.
LEMMA LaysInLonger ==
    ASSUME NEW s \in Seq(Byte), NEW t \in Seq(Byte), NEW u \in Seq(Byte),
           NEW k \in Nat, LaysAt(s, t, k)
    PROVE  LaysAt(s, t \o u, k)
<1>1. Len(t \o u) = Len(t) + Len(u) /\ \A i \in 1..Len(t) : (t \o u)[i] = t[i]
  OBVIOUS
<1>2. \A i \in 1..Len(s) : k + i \in 1..Len(t)
  BY DEF LaysAt
<1> QED BY <1>1, <1>2 DEF LaysAt

\* Where the bytes of a concatenation come from.
LEMMA ConcatBytes ==
    ASSUME NEW q \in Seq(Byte), NEW u \in Seq(Byte)
    PROVE  /\ q \o u \in Seq(Byte) /\ Len(q \o u) = Len(q) + Len(u)
           /\ \A i \in 1..Len(q) : (q \o u)[i] = q[i]
           /\ \A i \in 1..Len(u) : (q \o u)[Len(q) + i] = u[i]
<1>1. ASSUME NEW i \in 1..Len(u) PROVE (q \o u)[Len(q) + i] = u[i]
  <2>1. Len(q) + i \in 1..(Len(q) + Len(u)) /\ Len(q) + i > Len(q)
    OBVIOUS
  <2>2. (q \o u)[Len(q) + i] = u[(Len(q) + i) - Len(q)]
    BY <2>1
  <2> QED BY <2>2
<1> QED BY <1>1

\* A place behind the first q of q + u, counted from the end of those q.
LEMMA PlaceBehind ==
    ASSUME NEW q \in Nat, NEW u \in Nat, NEW t \in Nat, NEW k \in Nat, k + q = t,
           NEW i \in 1..(q + u), i > q
    PROVE  \E j \in 1..u : i = q + j /\ k + i = t + j
<1>1. i - q \in 1..u /\ i = q + (i - q) /\ k + i = t + (i - q)
  OBVIOUS
<1> QED BY <1>1

\* A batch is appended to the queue and to the accepted bytes alike.
LEMMA AppendLays ==
    ASSUME NEW q \in Seq(Byte), NEW t \in Seq(Byte), NEW u \in Seq(Byte),
           NEW k \in Nat, LaysAt(q, t, k), k + Len(q) = Len(t)
    PROVE  LaysAt(q \o u, t \o u, k) /\ k + Len(q \o u) = Len(t \o u)
<1> DEFINE x == q \o u
           y == t \o u
<1>1. /\ x \in Seq(Byte) /\ Len(x) = Len(q) + Len(u)
      /\ \A i \in 1..Len(q) : x[i] = q[i]
      /\ \A i \in 1..Len(u) : x[Len(q) + i] = u[i]
  BY ConcatBytes
<1>2. /\ y \in Seq(Byte) /\ Len(y) = Len(t) + Len(u)
      /\ \A i \in 1..Len(t) : y[i] = t[i]
      /\ \A i \in 1..Len(u) : y[Len(t) + i] = u[i]
  BY ConcatBytes
<1> HIDE DEF x, y
<1>3. /\ Len(t) \in Nat /\ Len(u) \in Nat /\ Len(q) \in Nat
      /\ Len(x) \in Nat /\ Len(y) \in Nat
  BY <1>1, <1>2
<1>4. ASSUME NEW i \in 1..(Len(q) + Len(u))
      PROVE  x[i] = y[k + i]
  <2>1. CASE i <= Len(q)
    <3>1. i \in 1..Len(q) /\ k + i \in 1..Len(t)
      BY <1>3, <2>1
    <3> QED BY <1>1, <1>2, <3>1 DEF LaysAt
  <2>2. CASE i > Len(q)
    <3>1. PICK n, m, l : n = Len(q) /\ m = Len(u) /\ l = Len(t)
      OBVIOUS
    <3>2. /\ n \in Nat /\ m \in Nat /\ l \in Nat /\ k + n = l
          /\ i \in 1..(n + m) /\ i > n
      BY <1>3, <2>2, <3>1
    <3>3. PICK j \in 1..m : i = n + j /\ k + i = l + j
      BY <3>2, PlaceBehind
    <3> QED BY <1>1, <1>2, <3>1, <3>3
  <2> QED BY <1>3, <2>1, <2>2
<1>5. k + Len(x) = Len(y) /\ k + Len(x) <= Len(y)
  <2>1. Len(x) = Len(q) + Len(u) /\ Len(y) = Len(t) + Len(u)
    BY <1>1, <1>2, Zenon
  <2> QED BY <1>3, <2>1
<1>6. LaysAt(x, y, k)
  BY <1>1, <1>4, <1>5 DEF LaysAt
<1> QED BY <1>5, <1>6 DEF x, y

\* What is left of the queue lies where the bytes sent end.
LEMMA ConsumeLays ==
    ASSUME NEW q \in Seq(Byte), NEW t \in Seq(Byte), NEW k \in Nat,
           LaysAt(q, t, k), NEW n \in 0..Len(q)
    PROVE  /\ Consume(q, n) \in Seq(Byte) /\ Len(Consume(q, n)) = Len(q) - n
           /\ LaysAt(Consume(q, n), t, k + n)
<1> DEFINE r == Consume(q, n)
<1>0. n \in Nat /\ Len(q) \in Nat /\ n <= Len(q)
  OBVIOUS
<1>1. /\ r \in Seq(Byte) /\ Len(r) = Len(q) - n
      /\ \A i \in 1..(Len(q) - n) : r[i] = q[n + i]
  BY <1>0 DEF Consume
<1> HIDE DEF r
<1>2. ASSUME NEW i \in 1..(Len(q) - n) PROVE q[n + i] = t[k + n + i]
  <2>1. n + i \in 1..Len(q) /\ k + (n + i) = k + n + i
    BY <1>0
  <2> QED BY <2>1 DEF LaysAt
<1>3. k + n + (Len(q) - n) <= Len(t)
  BY <1>0 DEF LaysAt
<1>4. LaysAt(r, t, k + n)
  BY <1>1, <1>2, <1>3 DEF LaysAt
<1> QED BY <1>1, <1>4 DEF r

\* A step that touches no byte: it leaves the send alone or gives it up with
\* the connection, and a connection that stays Active keeps its queue.
LEMMA QuietKeeps ==
    ASSUME CInv, StreamInv, UNCHANGED <<accepted, wire>>,
           \/ send_op' = send_op
           \/ send_op' = NoSend /\ conn'.state # "Active",
           conn'.state = "Active" =>
               conn.state = "Active" /\ conn'.queue = conn.queue
    PROVE  StreamInv'
<1>0. TypeOK
  BY DEF CInv
<1>1. CASE send_op' = send_op
  BY <1>1 DEF StreamInv, SendStart
<1>2. CASE send_op' = NoSend /\ conn'.state # "Active"
  <2>1. /\ send_op'.sent = 0 /\ send_op'.bytes = <<>> /\ SendStart' = Len(wire)
        /\ Len(wire) \in Nat
    BY <1>0, <1>2, StreamTypes DEF NoSend, SendStart
  <2>2. LaysAt(send_op'.bytes, accepted', SendStart')
    BY <1>0, <2>1, StreamTypes, NothingLays DEF StreamInv, LaysAt
  <2>3. LaysAt(wire', accepted', 0)
    BY DEF StreamInv
  <2> QED BY <1>2, <2>1, <2>2, <2>3 DEF StreamInv
<1> QED BY <1>1, <1>2

\* A queue that is all the accepted bytes that are not out, and a gather from
\* its front.
LEMMA PostedStream ==
    ASSUME TypeOK', NEW q \in Seq(Byte),
           LaysAt(wire', accepted', 0),
           LaysAt(q, accepted', Len(wire')),
           Len(wire') + Len(q) = Len(accepted'),
           conn'.queue = q, send_op'.sent = 0,
           NEW n \in 0..Len(q), send_op'.bytes = SubSeq(q, 1, n)
    PROVE  StreamInv'
<1>1. /\ wire' \in Seq(Byte) /\ Len(wire') \in Nat
      /\ accepted' \in Seq(Byte) /\ Len(accepted') \in Nat
  BY DEF TypeOK
<1>2. SendStart' = Len(wire')
  BY <1>1 DEF SendStart
<1>3. Len(SubSeq(q, 1, n)) = n /\ \A i \in 1..n : SubSeq(q, 1, n)[i] = q[i]
  OBVIOUS
<1>4. LaysAt(send_op'.bytes, accepted', Len(wire'))
  <2>1. \A i \in 1..n : q[i] = accepted'[Len(wire') + i]
    BY DEF LaysAt
  <2>2. Len(wire') + n <= Len(accepted')
    BY <1>1
  <2> QED BY <1>3, <2>1, <2>2 DEF LaysAt
<1>5. send_op'.sent <= Len(wire') /\ send_op'.sent <= Len(send_op'.bytes)
  BY <1>1, <1>3
<1> QED BY <1>2, <1>4, <1>5 DEF StreamInv

------------------------------------------------------------------------------
(* One lemma per action that moves bytes *)

\* The kernel takes bytes from the front of the send in flight: the send, and
\* the queue, began where they began.
LEMMA KernelSendsBytes ==
    ASSUME CInv, StreamInv, KernelSends
    PROVE  StreamInv'
<1>0. TypeOK
  BY DEF CInv
<1>1. PICK n \in 0..Len(send_op.bytes), result \in {"ok", "error"} :
        /\ send_op' = [send_op EXCEPT !.at = result, !.sent = n]
        /\ wire' = wire \o SubSeq(send_op.bytes, 1, n)
  BY DEF KernelSends
<1>2. /\ send_op'.at = result /\ send_op'.sent = n
      /\ send_op'.bytes = send_op.bytes /\ conn' = conn /\ accepted' = accepted
      /\ send_op.sent = 0
  BY <1>0, <1>1 DEF TypeOK, KernelSends, StreamInv
<1> DEFINE b == send_op.bytes
           w == Len(wire)
<1>3. /\ wire \in Seq(Byte) /\ b \in Seq(Byte) /\ accepted \in Seq(Byte)
      /\ w \in Nat /\ Len(b) \in Nat /\ n \in Nat /\ n <= Len(b)
      /\ Len(accepted) \in Nat
  BY <1>0, StreamTypes
<1>4. /\ Len(wire') = w + n
      /\ \A i \in 1..w : wire'[i] = wire[i]
      /\ \A i \in 1..n : wire'[w + i] = b[i]
  <2>1. PICK x : x = wire'
    OBVIOUS
  <2>2. x = wire \o SubSeq(b, 1, n)
    BY <1>1, <2>1
  <2> HIDE DEF b
  <2>3. /\ Len(x) = Len(wire) + n
        /\ \A i \in 1..Len(wire) : x[i] = wire[i]
        /\ \A i \in 1..n : x[Len(wire) + i] = b[i]
    BY <1>3, <2>2, AppendPrefix
  <2> QED BY <2>1, <2>3
<1>5. SendStart = w /\ SendStart' = w
  BY <1>2, <1>3, <1>4 DEF SendStart
<1>6. /\ w <= Len(accepted) /\ \A i \in 1..w : wire[i] = accepted[i]
      /\ w + Len(b) <= Len(accepted)
      /\ \A i \in 1..Len(b) : b[i] = accepted[w + i]
  BY <1>3, <1>5 DEF StreamInv, LaysAt
<1>7. LaysAt(wire', accepted', 0)
  <2>1. ASSUME NEW i \in 1..(w + n) PROVE wire'[i] = accepted[i]
    <3>1. CASE i \in 1..w
      BY <1>4, <1>6, <3>1
    <3>2. CASE i \notin 1..w
      <4>1. i - w \in 1..n /\ i - w \in 1..Len(b) /\ w + (i - w) = i
        BY <1>3, <2>1, <3>2
      <4> QED BY <1>4, <1>6, <4>1
    <3> QED BY <3>1, <3>2
  <2>2. 0 + (w + n) <= Len(accepted) /\ \A i \in 1..(w + n) : 0 + i = i
    BY <1>3, <1>6
  <2> QED BY <1>2, <1>4, <2>1, <2>2 DEF LaysAt
<1>8. send_op'.sent <= Len(wire') /\ send_op'.sent <= Len(send_op'.bytes)
  BY <1>2, <1>3, <1>4
<1>9. LaysAt(send_op'.bytes, accepted', SendStart')
  BY <1>2, <1>5 DEF StreamInv
<1>10. conn'.state = "Active" =>
          /\ LaysAt(conn'.queue, accepted', SendStart')
          /\ SendStart' + Len(conn'.queue) = Len(accepted')
  BY <1>2, <1>5 DEF StreamInv
<1> QED BY <1>2, <1>7, <1>8, <1>9, <1>10 DEF StreamInv

\* A send call queues its bytes behind the ones accepted before it, or closes
\* the connection and accepts none.
LEMMA SendBatchBytes ==
    ASSUME CInv, CInv', StreamInv, NEW batch \in Batches, NEW final \in BOOLEAN,
           SendBatchInternal(batch, final)
    PROVE  StreamInv'
<1> DEFINE bytes == BytesOf(sends, batch)
           c == [conn EXCEPT !.queue = @ \o bytes, !.close_after_send = final]
<1>1. /\ TypeOK /\ conn \in ConnType /\ conn.state = "Active" /\ sends \in Nat
      /\ RegistryOK(conn, leaving, registered) /\ wire' = wire
  BY DEF CInv, TypeOK, SendBatchInternal, TakesSends
<1>2. bytes \in Seq(Byte)
  BY <1>1, BytesAreTyped, BatchesAreByteStrings
<1> HIDE DEF bytes
<1>3. CASE \/ ItemCount(bytes) > BatchSegments
           \/ ~Admits(conn.queue, bytes)
  <2>1. /\ Unlock(CloseLocked(conn, "SendQueueOverflow"))
        /\ UNCHANGED <<send_op, accepted>>
    BY <1>3 DEF SendBatchInternal, bytes
  <2>2. "SendQueueOverflow" \in CloseReason
    BY DEF CloseReason
  <2>3. conn'.state # "Active"
    BY <2>1, <2>2, CloseEndsActive
  <2> QED BY <1>1, <2>1, <2>3, QuietKeeps
<1>4. CASE ~(\/ ItemCount(bytes) > BatchSegments
             \/ ~Admits(conn.queue, bytes))
  <2>1. /\ PostUnlessInFlight(c)
        /\ accepted' = IF conn'.state = "Active" THEN accepted \o bytes
                                                 ELSE accepted
    BY <1>4 DEF SendBatchInternal, bytes
  <2>2. /\ conn.queue \in Seq(Byte) /\ conn.queue \o bytes \in Seq(Byte)
        /\ accepted \in Seq(Byte) /\ wire \in Seq(Byte)
        /\ send_op.bytes \in Seq(Byte) /\ Len(wire) \in Nat
        /\ send_op.sent \in Nat
    BY <1>1, <1>2, StreamTypes
  <2>3. c \in ConnType
    BY <1>1, <2>2 DEF ConnType
  <2>4. /\ c.state = "Active" /\ c.outstanding = conn.outstanding
        /\ c.receive_in_flight = conn.receive_in_flight
        /\ c.send_in_flight = conn.send_in_flight
        /\ c.queue = conn.queue \o bytes
    BY <1>1 DEF ConnType
  <2> HIDE DEF c
  <2>5. Unsettled(c)
    BY <1>1, <2>3, <2>4 DEF CInv, Settled, Unsettled
  <2> DEFINE more == accepted \o bytes
  <2>6. SendStart \in Nat
    BY <2>2 DEF StreamInv, SendStart
  <2>7. /\ LaysAt(wire, more, 0)
        /\ LaysAt(send_op.bytes, more, SendStart)
        /\ LaysAt(c.queue, more, SendStart)
        /\ SendStart + Len(c.queue) = Len(more)
    <3>1. LaysAt(wire, more, 0)
      BY <1>2, <2>2, LaysInLonger DEF StreamInv
    <3>2. LaysAt(send_op.bytes, more, SendStart)
      BY <1>2, <2>2, <2>6, LaysInLonger DEF StreamInv
    <3>3. /\ LaysAt(conn.queue, accepted, SendStart)
          /\ SendStart + Len(conn.queue) = Len(accepted)
      BY <1>1 DEF StreamInv
    <3>4. /\ LaysAt(c.queue, more, SendStart)
          /\ SendStart + Len(c.queue) = Len(more)
      <4>1. more = accepted \o bytes /\ c.queue = conn.queue \o bytes
        BY <2>4
      <4>2. /\ LaysAt(conn.queue \o bytes, accepted \o bytes, SendStart)
            /\ SendStart + Len(conn.queue \o bytes) = Len(accepted \o bytes)
        <5> DEFINE q == conn.queue
                   k == SendStart
        <5>1. /\ q \in Seq(Byte) /\ accepted \in Seq(Byte) /\ k \in Nat
              /\ LaysAt(q, accepted, k) /\ k + Len(q) = Len(accepted)
          BY <2>2, <2>6, <3>3, Zenon
        <5> HIDE DEF q, k
        <5>2. /\ LaysAt(q \o bytes, accepted \o bytes, k)
              /\ k + Len(q \o bytes) = Len(accepted \o bytes)
          BY <1>2, <5>1, AppendLays
        <5> QED BY <5>2 DEF q, k
      <4> QED BY <4>1, <4>2, Zenon
    <3> QED BY <3>1, <3>2, <3>4
  <2> HIDE DEF more
  <2>8. CASE c.send_in_flight
    <3>1. conn' = c /\ send_op' = send_op
      BY <2>1, <2>8 DEF PostUnlessInFlight, Unlock
    <3>2. accepted' = more /\ SendStart' = SendStart
      BY <1>1, <2>1, <2>4, <3>1 DEF more, SendStart
    <3> QED BY <1>1, <2>7, <3>1, <3>2 DEF StreamInv
  <2>9. CASE ~c.send_in_flight
    <3>1. PostSendOrClose(c)
      BY <2>1, <2>9 DEF PostUnlessInFlight
    <3>2. SendStart = Len(wire)
      BY <2>2, <2>4, <2>9 DEF CInv, StreamInv, SendStart
    <3>3. \/ conn'.state # "Active" /\ send_op' = NoSend
          \/ /\ conn'.state = "Active" /\ conn'.queue = c.queue
             /\ send_op'.at = "pending" /\ send_op'.sent = 0
             /\ \E n \in 0..Len(c.queue) : send_op'.bytes = SubSeq(c.queue, 1, n)
      BY <1>1, <2>4, <2>5, <2>9, <3>1, PostSendQueue
    <3>4. CASE conn'.state # "Active" /\ send_op' = NoSend
      <4>1. accepted' = accepted
        BY <2>1, <3>4
      <4> QED BY <1>1, <3>4, <4>1, QuietKeeps
    <3>5. CASE conn'.state = "Active"
      <4>1. PICK n \in 0..Len(c.queue) : send_op'.bytes = SubSeq(c.queue, 1, n)
        BY <3>3, <3>5
      <4>2. accepted' = more
        BY <2>1, <3>5 DEF more
      <4>3. TypeOK'
        BY DEF CInv
      <4> QED
        BY <1>1, <2>2, <2>4, <2>7, <3>2, <3>3, <3>5, <4>1, <4>2, <4>3, PostedStream
    <3> QED BY <3>3, <3>4, <3>5
  <2> QED BY <2>8, <2>9
<1> QED BY <1>3, <1>4

\* A close gives the connection its own reason or leaves the first one, and
\* draining changes no reason.
LEMMA ReasonOfClose ==
    ASSUME NEW c \in ConnType, NEW reason \in CloseReason
    PROVE  /\ CloseLocked(c, reason).close_reason \in {reason, c.close_reason}
           /\ MoveToClosedIfDrainedLocked(c).close_reason = c.close_reason
<1> DEFINE b == BeginCloseLocked(c, reason)
<1>1. b \in ConnType /\ b.close_reason \in {reason, c.close_reason}
  BY DEF BeginCloseLocked, ConnType
<1>2. ASSUME NEW d \in ConnType
      PROVE  MoveToClosedIfDrainedLocked(d).close_reason = d.close_reason
  BY DEF MoveToClosedIfDrainedLocked, ConnType
<1> HIDE DEF b
<1>3. CloseLocked(c, reason) = MoveToClosedIfDrainedLocked(b)
  BY DEF CloseLocked, b
<1> QED BY <1>1, <1>2, <1>3

\* Posting the next send never makes the graceful close.
LEMMA PostSendReason ==
    ASSUME NEW c \in ConnType, PostSendOrClose(c),
           conn'.close_reason = "ProtocolClose"
    PROVE  c.close_reason = "ProtocolClose"
<1>1. ASSUME Unlock([c EXCEPT !.outstanding = @ + 1, !.send_in_flight = TRUE])
      PROVE  conn'.close_reason = c.close_reason
  BY <1>1 DEF Unlock, ConnType
<1>2. ASSUME Unlock(CloseLocked(UpdateIdleTimerLocked(c), "SendError"))
      PROVE  conn'.close_reason \in {"SendError", c.close_reason}
  <2> DEFINE u == UpdateIdleTimerLocked(c)
  <2>1. u \in ConnType /\ u.close_reason = c.close_reason
    BY DEF UpdateIdleTimerLocked, ConnType
  <2>2. conn' = CloseLocked(u, "SendError")
    BY <1>2 DEF Unlock
  <2> HIDE DEF u
  <2>3. "SendError" \in CloseReason
    BY DEF CloseReason
  <2> QED BY <2>1, <2>2, <2>3, ReasonOfClose
<1> QED BY <1>1, <1>2 DEF PostSendOrClose

\* OnSendComplete takes exactly the transferred bytes out of the queue, and
\* makes the graceful close only with none left.
LEMMA OnSendCompleteBytes ==
    ASSUME CInv, CInv', StreamInv, OnSendComplete
    PROVE  /\ StreamInv'
           /\ conn.close_reason = "None" /\ conn'.close_reason = "ProtocolClose"
                 => Len(wire) = Len(accepted)
<1> DEFINE c == CompleteSend(conn)
           after == ConsumeTransferred(c)
           Graceful == /\ conn.close_reason = "None"
                       /\ conn'.close_reason = "ProtocolClose"
<1>0. /\ TypeOK /\ TypeOK' /\ send_op.at \in {"ok", "error"}
      /\ conn \in ConnType /\ Settled(conn) /\ conn.send_in_flight
      /\ RegistryOK(conn, leaving, registered)
      /\ UNCHANGED <<accepted, wire>>
  BY DEF CInv, TypeOK, OnSendComplete
<1>1. /\ Unsettled(c) /\ c \in ConnType /\ ~c.send_in_flight
      /\ c.state = conn.state /\ c.queue = conn.queue
      /\ c.close_after_send = conn.close_after_send
      /\ c.close_reason = conn.close_reason
  BY <1>0, CompleteSendKeeps DEF Unsettled
<1>2. IF send_op.at = "error" \/ (c.state = "Active" /\ ~ValidTransfer(c))
      THEN Unlock(CloseLocked(c, "SendError")) /\ send_op' = NoSend
      ELSE IF c.state # "Active"
      THEN Unlock(MoveToClosedIfDrainedLocked(c)) /\ send_op' = NoSend
      ELSE IF after.queue # <<>> THEN PostSendOrClose(after)
      ELSE /\ Unlock(IF c.close_after_send
                     THEN CloseLocked(after, "ProtocolClose") ELSE after)
           /\ send_op' = NoSend
  BY DEF OnSendComplete
<1> HIDE DEF c
<1>3. /\ wire \in Seq(Byte) /\ accepted \in Seq(Byte)
      /\ send_op.sent \in Nat /\ c.queue \in Seq(Byte)
      /\ Len(wire) \in Nat /\ Len(c.queue) \in Nat /\ Len(accepted) \in Nat
      /\ SendStart \in Nat /\ SendStart + send_op.sent = Len(wire)
  <2>1. /\ wire \in Seq(Byte) /\ accepted \in Seq(Byte) /\ send_op.sent \in Nat
        /\ Len(wire) \in Nat /\ Len(accepted) \in Nat
        /\ conn.queue \in Seq(Byte) /\ Len(conn.queue) \in Nat
    BY <1>0, StreamTypes
  <2>2. send_op.sent <= Len(wire)
    BY DEF StreamInv
  <2>3. SendStart \in Nat /\ SendStart + send_op.sent = Len(wire)
    BY <2>1, <2>2 DEF SendStart
  <2> QED BY <1>1, <2>1, <2>3
<1>4. ASSUME c.state = "Active", ValidTransfer(c)
      PROVE  /\ Unsettled(after) /\ ~after.send_in_flight
             /\ after.state = "Active" /\ after.queue \in Seq(Byte)
             /\ after.close_reason = c.close_reason
             /\ LaysAt(after.queue, accepted, Len(wire))
             /\ Len(wire) + Len(after.queue) = Len(accepted)
  <2> DEFINE q == c.queue
             r == Consume(q, send_op.sent)
  <2>1. /\ q \in Seq(Byte) /\ send_op.sent \in 0..Len(q)
        /\ LaysAt(q, accepted, SendStart)
        /\ SendStart + Len(q) = Len(accepted)
    <3>1. send_op.sent \in 0..Len(q)
      BY <1>3, <1>4 DEF ValidTransfer
    <3>2. conn.state = "Active" /\ conn.queue = q
      BY <1>1, <1>4
    <3>3. LaysAt(q, accepted, SendStart) /\ SendStart + Len(q) = Len(accepted)
      BY <3>2 DEF StreamInv
    <3> QED BY <1>3, <3>1, <3>3
  <2>2. /\ r \in Seq(Byte) /\ Len(r) = Len(q) - send_op.sent
        /\ LaysAt(r, accepted, SendStart + send_op.sent)
    <3> HIDE DEF q
    <3> QED BY <1>3, <2>1, ConsumeLays
  <2>3. after \in ConnType
    BY <1>1, <2>2 DEF ConnType, ConsumeTransferred
  <2>4. /\ after.state = c.state /\ after.outstanding = c.outstanding
        /\ after.receive_in_flight = c.receive_in_flight
        /\ after.send_in_flight = c.send_in_flight
        /\ after.close_reason = c.close_reason /\ after.queue = r
    BY <1>1 DEF ConnType, ConsumeTransferred
  <2> HIDE DEF after
  <2>5. Unsettled(after)
    BY <1>1, <1>4, <2>3, <2>4 DEF Unsettled
  <2>6. Len(wire) + Len(r) = Len(accepted)
    <3> HIDE DEF q, r
    <3> QED BY <1>3, <2>1, <2>2
  <2> QED BY <1>1, <1>3, <1>4, <2>2, <2>4, <2>5, <2>6
<1> HIDE DEF after
<1>5. "SendError" \in CloseReason /\ "ProtocolClose" \in CloseReason
  BY DEF CloseReason
<1>6. CASE send_op.at = "error" \/ (c.state = "Active" /\ ~ValidTransfer(c))
  <2>1. Unlock(CloseLocked(c, "SendError")) /\ send_op' = NoSend
    BY <1>2, <1>6
  <2>2. conn'.state # "Active"
    BY <1>0, <1>1, <1>5, <2>1, CloseStep
  <2>3. conn'.close_reason \in {"SendError", conn.close_reason}
    BY <1>1, <1>5, <2>1, ReasonOfClose DEF Unlock
  <2> QED BY <1>0, <2>1, <2>2, <2>3, QuietKeeps
<1>7. CASE ~(send_op.at = "error" \/ (c.state = "Active" /\ ~ValidTransfer(c)))
           /\ c.state # "Active"
  <2>1. Unlock(MoveToClosedIfDrainedLocked(c)) /\ send_op' = NoSend
    BY <1>2, <1>7
  <2>2. conn'.state # "Active"
    BY <1>0, <1>1, <1>7, <2>1, DrainStep
  <2>3. conn'.close_reason = conn.close_reason
    BY <1>1, <1>5, <2>1, ReasonOfClose DEF Unlock
  <2> QED BY <1>0, <2>1, <2>2, <2>3, QuietKeeps
<1>8. CASE ~(send_op.at = "error" \/ (c.state = "Active" /\ ~ValidTransfer(c)))
           /\ c.state = "Active" /\ after.queue # <<>>
  <2>1. PostSendOrClose(after) /\ ValidTransfer(c)
    BY <1>2, <1>8
  <2>2. \/ conn'.state # "Active" /\ send_op' = NoSend
        \/ /\ conn'.state = "Active" /\ conn'.queue = after.queue
           /\ send_op'.at = "pending" /\ send_op'.sent = 0
           /\ \E n \in 0..Len(after.queue) :
                  send_op'.bytes = SubSeq(after.queue, 1, n)
    BY <1>0, <1>1, <1>4, <1>8, <2>1, PostSendQueue
  <2>3. ~Graceful
    BY <1>1, <1>4, <1>8, <2>1, PostSendReason DEF Unsettled
  <2>4. CASE conn'.state # "Active" /\ send_op' = NoSend
    BY <1>0, <2>3, <2>4, QuietKeeps
  <2>5. CASE conn'.state = "Active"
    <3>1. PICK n \in 0..Len(after.queue) :
            send_op'.bytes = SubSeq(after.queue, 1, n)
      BY <2>2, <2>5
    <3>2. LaysAt(wire', accepted', 0)
      BY <1>0 DEF StreamInv
    <3>3. StreamInv'
      BY <1>0, <1>4, <1>8, <2>1, <2>2, <2>5, <3>1, <3>2, PostedStream
    <3> QED BY <2>3, <3>3
  <2> QED BY <2>2, <2>4, <2>5
<1>9. CASE ~(send_op.at = "error" \/ (c.state = "Active" /\ ~ValidTransfer(c)))
           /\ c.state = "Active" /\ after.queue = <<>>
  <2>1. /\ Unlock(IF c.close_after_send
                  THEN CloseLocked(after, "ProtocolClose") ELSE after)
        /\ send_op' = NoSend /\ ValidTransfer(c)
    BY <1>2, <1>9
  <2>2. Len(wire) = Len(accepted)
    BY <1>3, <1>4, <1>9, <2>1
  <2>3. CASE c.close_after_send
    <3>1. conn'.state # "Active"
      BY <1>0, <1>1, <1>4, <1>5, <1>9, <2>1, <2>3, CloseStep
    <3> QED BY <1>0, <2>1, <2>2, <3>1, QuietKeeps
  <2>4. CASE ~c.close_after_send
    <3>1. conn' = after
      BY <2>1, <2>4 DEF Unlock
    <3>2. /\ send_op'.at = "none" /\ send_op'.sent = 0 /\ send_op'.bytes = <<>>
      BY <2>1 DEF NoSend
    <3>3. SendStart' = Len(wire)
      <4>1. SendStart' = Len(wire) - 0
        BY <1>0, <3>2 DEF SendStart
      <4> QED BY <1>3, <4>1
    <3>4. LaysAt(<<>>, accepted, Len(wire))
      BY <1>4, <1>9, <2>1
    <3>5. LaysAt(wire', accepted', 0)
      BY <1>0 DEF StreamInv
    <3>6. Len(<<>>) = 0 /\ Len(wire) + Len(after.queue) = Len(accepted)
      BY <1>4, <1>9, <2>1
    <3>7. send_op'.sent <= Len(wire') /\ send_op'.sent <= Len(send_op'.bytes)
      BY <1>0, <1>3, <3>2, <3>6
    <3>8. LaysAt(send_op'.bytes, accepted', SendStart')
      BY <1>0, <3>2, <3>3, <3>4
    <3>9. /\ LaysAt(conn'.queue, accepted', SendStart')
          /\ SendStart' + Len(conn'.queue) = Len(accepted')
      BY <1>0, <1>9, <3>1, <3>3, <3>4, <3>6
    <3>10. StreamInv'
      BY <3>2, <3>5, <3>7, <3>8, <3>9 DEF StreamInv
    <3> QED BY <2>2, <3>10
  <2> QED BY <2>3, <2>4
<1> QED BY <1>6, <1>7, <1>8, <1>9

------------------------------------------------------------------------------
(* The theorems *)

\* Nothing is accepted, queued or out when the connection is constructed.
LEMMA InitStreamInv == Init => StreamInv
<1> SUFFICES ASSUME Init PROVE StreamInv
  OBVIOUS
<1>1. /\ conn.state = "Active" /\ conn.queue = <<>> /\ wire = <<>>
      /\ accepted = <<>> /\ send_op.sent = 0 /\ send_op.bytes = <<>>
  BY DEF Init, NoSend
<1>2. SendStart = 0 /\ Len(<<>>) = 0
  BY <1>1 DEF SendStart
<1>3. LaysAt(<<>>, <<>>, 0)
  BY DEF LaysAt
<1> QED BY <1>1, <1>2, <1>3 DEF StreamInv

\* Every step of every thread keeps the bytes in place: one case per action.
LEMMA StreamInvInductive == CInv /\ CInv' /\ StreamInv /\ [Next]_vars => StreamInv'
<1> SUFFICES ASSUME CInv, CInv', StreamInv, [Next]_vars PROVE StreamInv'
  OBVIOUS
<1>0. /\ "None" \in CloseReason /\ "LocalShutdown" \in CloseReason
      /\ "HandlerError" \in CloseReason /\ "ProtocolClose" \in CloseReason
  BY DEF CloseReason
<1>1. CASE Start
  BY <1>1, PostReceiveQueue, QuietKeeps DEF Start
<1>2. ASSUME NEW batch \in Batches, NEW final \in BOOLEAN,
             SendBatchInternal(batch, final)
      PROVE  StreamInv'
  BY <1>2, SendBatchBytes
<1>3. ASSUME NEW reason \in CloseReason, CallBeginClose(reason)
      PROVE  StreamInv'
  BY <1>3, CloseEndsActive, QuietKeeps DEF CallBeginClose
<1>4. CASE SendEmptyAndClose
  BY <1>0, <1>3, <1>4 DEF SendEmptyAndClose
<1>5. ASSUME NEW reason \in {"LocalShutdown", "HandlerError"}, BeginClose(reason)
      PROVE  StreamInv'
  BY <1>0, <1>3, <1>5 DEF BeginClose
<1>6. CASE SetTimerService
  BY <1>6, TimerKeepsQueue, QuietKeeps DEF SetTimerService
<1>7. CASE IdleTimerDue
  BY <1>7, TimerKeepsQueue, QuietKeeps DEF IdleTimerDue
<1>8. CASE IdleTimerFires
  BY <1>0, <1>3, <1>8 DEF IdleTimerFires
<1>9. CASE RemoveFromRegistry
  BY <1>9, QuietKeeps DEF RemoveFromRegistry
<1>10. CASE KernelReceives
  BY <1>10, QuietKeeps DEF KernelReceives
<1>11. CASE KernelSends
  BY <1>11, KernelSendsBytes
<1>12. CASE OnReceiveComplete
  BY <1>12, OnReceiveCompleteQueue, QuietKeeps DEF OnReceiveComplete
<1>13. CASE HandlerReturns
  <2>1. CASE conn.state = "Active"
    BY <1>13, <2>1, PostReceiveQueue, QuietKeeps DEF HandlerReturns, Repost
  <2>2. CASE conn.state # "Active"
    BY <1>13, <2>2, QuietKeeps DEF HandlerReturns, Repost
  <2> QED BY <2>1, <2>2
<1>14. CASE HandlerThrows
  BY <1>0, <1>14, CloseEndsActive, QuietKeeps DEF HandlerThrows
<1>15. CASE OnSendComplete
  BY <1>15, OnSendCompleteBytes
<1>16. CASE UNCHANGED vars
  BY <1>16, QuietKeeps DEF vars
<1> QED
  BY <1>1, <1>2, <1>4, <1>5, <1>6, <1>7, <1>8, <1>9, <1>10, <1>11, <1>12,
     <1>13, <1>14, <1>15, <1>16 DEF Next

\* The bytes out, in flight and queued stay pieces of the accepted ones, in
\* place: partial sends, gathers over several batches, concurrent senders
\* and closes included.
THEOREM StreamInvariance == Spec => []StreamInv
BY InitStreamInv, StreamInvInductive, Invariance, PTL DEF Spec

\* PostSendLocked, OnSendComplete and the send calls together hand the TCP
\* stack a prefix of the accepted bytes: none repeated, skipped or reordered.
THEOREM WireIsPrefix == Spec => []WireIsPrefixOfAccepted
<1>1. CInv /\ StreamInv => WireIsPrefixOfAccepted
  <2> SUFFICES ASSUME CInv, StreamInv PROVE WireIsPrefixOfAccepted
    OBVIOUS
  <2>1. /\ wire \in Seq(Byte) /\ accepted \in Seq(Byte)
        /\ Len(wire) <= Len(accepted)
        /\ \A i \in 1..Len(wire) : wire[i] = accepted[i]
    BY StreamTypes DEF CInv, StreamInv, LaysAt
  <2>2. wire = SubSeq(accepted, 1, Len(wire))
    BY <2>1
  <2> QED BY <2>1, <2>2 DEF WireIsPrefixOfAccepted
<1> QED BY <1>1, Invariance, StreamInvariance, PTL

\* The close that OnSendComplete makes for SendBatchAndClose comes after the
\* last accepted byte: all of them were handed to the TCP stack.
THEOREM FinalBatchSendsAllBytes == Spec => FinalBatchSendsAll
<1> DEFINE Graceful == /\ OnSendComplete
                       /\ conn.close_reason = "None"
                       /\ conn'.close_reason = "ProtocolClose"
<1>1. CInv /\ CInv' /\ StreamInv /\ [Next]_vars => [Graceful => wire = accepted]_vars
  <2> SUFFICES ASSUME CInv, CInv', StreamInv, Graceful PROVE wire = accepted
    OBVIOUS
  <2>1. Len(wire) = Len(accepted)
    BY OnSendCompleteBytes
  <2>2. /\ wire \in Seq(Byte) /\ accepted \in Seq(Byte)
        /\ \A i \in 1..Len(wire) : wire[i] = accepted[i]
    BY StreamTypes DEF CInv, StreamInv, LaysAt
  <2> QED BY <2>1, <2>2
<1> QED BY <1>1, Invariance, StreamInvariance, PTL DEF Spec, FinalBatchSendsAll
==============================================================================
