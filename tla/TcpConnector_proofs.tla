------------------------- MODULE TcpConnector_proofs --------------------------
(***************************************************************************)
(* Proofs about TcpConnector, for any finite set of calls.  The connector  *)
(* trusts its counter for Stopped and its map of pending sockets for what  *)
(* Stop closes; the invariant says what both are, and where the answer of  *)
(* a call is while its operation goes from the kernel to its handler.      *)
(***************************************************************************)
EXTENDS TcpConnector, FiniteSetTheorems, TLAPS

\* The operations that are accounted for.
Out == {c \in Calls : op[c] # "none"}

\* Where Stop finds the sockets to close.
InKernel == {c \in Calls : op[c] \in {"pending", "ok", "error"}}

AnAnswer == {<<"connected">>, <<"failed">>}

\* One call and its operation.
CallOK(c) ==
    /\ op[c] # "none" => call[c] = "accepted"
    /\ call[c] # "accepted" => answers[c] = <<>>
    /\ op[c] \in {"pending", "ok", "error", "connected", "failed"}
          => answers[c] = <<>>
    /\ call[c] = "accepted" /\ op[c] \in {"handler", "none"}
          => answers[c] \in AnAnswer
    /\ call[c] = "post" => socket[c] = "open"
    /\ con.state = "Running" /\ op[c] \in {"pending", "ok", "error"}
          => socket[c] = "open"
    /\ op[c] = "connected" \/ answers[c] = <<"connected">> => socket[c] = "open"

KInv ==
    /\ TypeOK
    /\ answers \in [Calls -> AnAnswer \cup {<<>>}]
    /\ con.outstanding = Cardinality(Out)
    /\ con.pending = InKernel
    /\ con.state = "Stopped" => con.outstanding = 0
    /\ \A c \in Calls : CallOK(c)

------------------------------------------------------------------------------
\* The fields of con, as the steps below assign them.
ConType ==
    [state : {"Running", "Stopping", "Stopped"},
     outstanding : 0..Cardinality(Calls), pending : SUBSET Calls]

\* A set of calls is finite and no larger than all of them.
LEMMA SubsetsOfCalls ==
    ASSUME IsFiniteSet(Calls), NEW S \in SUBSET Calls
    PROVE  IsFiniteSet(S) /\ Cardinality(S) \in 0..Cardinality(Calls)
<1>1. /\ IsFiniteSet(S) /\ Cardinality(S) <= Cardinality(Calls)
      /\ Cardinality(S) \in Nat /\ Cardinality(Calls) \in Nat
  BY FS_Subset, FS_CardinalityType
<1> QED BY <1>1

\* MoveToStoppedIfDrainedLocked changes the state alone, from Stopping to
\* Stopped, and only with nothing outstanding.
LEMMA DrainedStops ==
    ASSUME NEW c \in ConType
    PROVE  LET d == MoveToStoppedIfDrainedLocked(c)
           IN  /\ d \in ConType /\ d.outstanding = c.outstanding
               /\ d.pending = c.pending
               /\ c.state = "Stopping" => d.state \in {"Stopping", "Stopped"}
               /\ c.state # "Stopping" => d.state = c.state
               /\ d.state = "Stopped" => c.state = "Stopped" \/ d.outstanding = 0
BY DEF MoveToStoppedIfDrainedLocked, ConType

\* A constructed connector has no call.
LEMMA InitKInv == IsFiniteSet(Calls) /\ Init => KInv
<1> SUFFICES ASSUME IsFiniteSet(Calls), Init PROVE KInv
  OBVIOUS
<1>1. Cardinality(Calls) \in Nat
  BY FS_CardinalityType
<1>2. Out = {} /\ InKernel = {} /\ Cardinality({}) = 0
  BY FS_EmptySet DEF Init, Out, InKernel
<1>3. TypeOK /\ answers \in [Calls -> AnAnswer \cup {<<>>}]
  BY <1>1 DEF Init, TypeOK
<1>4. \A c \in Calls : CallOK(c)
  BY DEF Init, CallOK, AnAnswer
<1> QED BY <1>2, <1>3, <1>4 DEF Init, KInv

\* A step that starts and ends no operation, and leaves con alone.
LEMMA SameOperations ==
    ASSUME KInv, TypeOK', UNCHANGED con, Out' = Out, InKernel' = InKernel,
           answers' \in [Calls -> AnAnswer \cup {<<>>}],
           \A c \in Calls : CallOK(c)'
    PROVE  KInv'
BY DEF KInv

\* Connect, PrepareSocket and KernelConnects.
LEMMA CallsKeep ==
    ASSUME IsFiniteSet(Calls), KInv, NEW c \in Calls,
           Connect(c) \/ PrepareSocket(c) \/ KernelConnects(c)
    PROVE  KInv'
<1>1. CASE Connect(c)
  <2>1. TypeOK' /\ answers' \in [Calls -> AnAnswer \cup {<<>>}]
    BY <1>1 DEF KInv, TypeOK, Connect
  <2>2. \A d \in Calls : CallOK(d)'
    BY <1>1 DEF KInv, TypeOK, CallOK, Connect
  <2>3. Out' = Out /\ InKernel' = InKernel
    BY <1>1 DEF Connect, Out, InKernel
  <2> QED BY <1>1, <2>1, <2>2, <2>3, SameOperations DEF Connect
<1>2. CASE PrepareSocket(c)
  <2>1. TypeOK' /\ answers' \in [Calls -> AnAnswer \cup {<<>>}]
    BY <1>2 DEF KInv, TypeOK, PrepareSocket
  <2>2. \A d \in Calls : CallOK(d)'
    BY <1>2 DEF KInv, TypeOK, CallOK, PrepareSocket
  <2>3. Out' = Out /\ InKernel' = InKernel
    BY <1>2 DEF PrepareSocket, Out, InKernel
  <2> QED BY <1>2, <2>1, <2>2, <2>3, SameOperations DEF PrepareSocket
<1>3. CASE KernelConnects(c)
  <2>1. TypeOK' /\ answers' \in [Calls -> AnAnswer \cup {<<>>}]
    BY <1>3 DEF KInv, TypeOK, KernelConnects
  <2>2. \A d \in Calls : CallOK(d)'
    BY <1>3 DEF KInv, TypeOK, CallOK, KernelConnects
  <2>3. Out' = Out /\ InKernel' = InKernel
    BY <1>3 DEF KInv, TypeOK, KernelConnects, Out, InKernel
  <2> QED BY <1>3, <2>1, <2>2, <2>3, SameOperations DEF KernelConnects
<1> QED BY <1>1, <1>2, <1>3

\* PostConnect: the operation is counted and entered with its ConnectEx, or
\* the call is refused and its socket closed.
LEMMA PostConnectKeeps ==
    ASSUME IsFiniteSet(Calls), KInv, NEW c \in Calls, PostConnect(c)
    PROVE  KInv'
<1>0. /\ con \in ConType /\ call[c] = "post" /\ op[c] = "none"
      /\ answers' = answers
  BY DEF KInv, TypeOK, ConType, CallOK, PostConnect
<1>1. CASE /\ con.state = "Running"
           /\ con' = [con EXCEPT !.outstanding = @ + 1, !.pending = @ \cup {c}]
           /\ op' = [op EXCEPT ![c] = "pending"]
           /\ call' = [call EXCEPT ![c] = "accepted"]
           /\ UNCHANGED socket
  <2>1. Out' = Out \cup {c} /\ c \notin Out /\ InKernel' = InKernel \cup {c}
    BY <1>0, <1>1 DEF KInv, TypeOK, Out, InKernel
  <2>2. /\ Cardinality(Out') = Cardinality(Out) + 1
        /\ Cardinality(Out') \in 0..Cardinality(Calls)
    <3>1. Out \in SUBSET Calls /\ Out' \in SUBSET Calls
      BY DEF Out
    <3> QED BY <2>1, <3>1, SubsetsOfCalls, FS_AddElement
  <2>3. /\ con'.state = con.state /\ con'.outstanding = con.outstanding + 1
        /\ con'.pending = con.pending \cup {c}
    BY <1>0, <1>1 DEF ConType
  <2>4. con'.outstanding = Cardinality(Out') /\ con'.pending = InKernel'
    BY <2>1, <2>2, <2>3 DEF KInv
  <2>5. con' \in ConType
    BY <1>0, <1>1, <2>2, <2>3, <2>4 DEF ConType
  <2>6. TypeOK' /\ answers' \in [Calls -> AnAnswer \cup {<<>>}]
    BY <1>0, <1>1, <2>5 DEF KInv, TypeOK, ConType
  <2>7. \A d \in Calls : CallOK(d)'
    <3>1. /\ op'[c] = "pending" /\ call'[c] = "accepted"
          /\ \A d \in Calls \ {c} : op'[d] = op[d] /\ call'[d] = call[d]
      BY <1>1 DEF KInv, TypeOK
    <3>2. answers[c] = <<>> /\ socket[c] = "open" /\ <<"connected">> # <<>>
      BY <1>0 DEF KInv, CallOK
    <3>3. CallOK(c)'
      BY <1>0, <1>1, <3>1, <3>2 DEF CallOK
    <3>4. ASSUME NEW d \in Calls \ {c} PROVE CallOK(d)'
      BY <1>0, <1>1, <2>3, <3>1 DEF KInv, CallOK
    <3> QED BY <3>3, <3>4
  <2> QED BY <1>1, <2>3, <2>4, <2>6, <2>7 DEF KInv
<1>2. CASE /\ call' = [call EXCEPT ![c] = "refused"]
           /\ socket' = [socket EXCEPT ![c] = "closed"]
           /\ UNCHANGED <<con, op>>
  <2>1. TypeOK' /\ answers' \in [Calls -> AnAnswer \cup {<<>>}]
    BY <1>0, <1>2 DEF KInv, TypeOK
  <2>2. \A d \in Calls : CallOK(d)'
    <3>1. /\ call'[c] = "refused"
          /\ \A d \in Calls \ {c} : call'[d] = call[d] /\ socket'[d] = socket[d]
      BY <1>2 DEF KInv, TypeOK
    <3>2. answers[c] = <<>> /\ <<"connected">> # <<>>
      BY <1>0 DEF KInv, CallOK
    <3>3. CallOK(c)'
      BY <1>0, <1>2, <3>1, <3>2 DEF CallOK
    <3>4. ASSUME NEW d \in Calls \ {c} PROVE CallOK(d)'
      BY <1>0, <1>2, <3>1 DEF KInv, CallOK
    <3> QED BY <3>3, <3>4
  <2>3. Out' = Out /\ InKernel' = InKernel
    BY <1>2 DEF Out, InKernel
  <2> QED BY <1>2, <2>1, <2>2, <2>3, SameOperations
<1> QED BY <1>1, <1>2 DEF PostConnect

\* OnConnectComplete: out of the pending sockets before the result is known
\* to anybody, so a Stop after it leaves the socket open.
LEMMA OnConnectCompleteKeeps ==
    ASSUME IsFiniteSet(Calls), KInv, NEW c \in Calls, OnConnectComplete(c)
    PROVE  KInv'
<1>0. /\ con \in ConType /\ op[c] \in {"ok", "error"} /\ answers' = answers
      /\ con' = [con EXCEPT !.pending = @ \ {c}] /\ UNCHANGED <<call, socket>>
  BY DEF KInv, TypeOK, ConType, OnConnectComplete
<1>1. /\ con' \in ConType /\ con'.state = con.state
      /\ con'.outstanding = con.outstanding /\ con'.pending = con.pending \ {c}
  BY <1>0 DEF ConType
<1>2. \/ con.state = "Running" /\ op[c] = "ok" /\ op' = [op EXCEPT ![c] = "connected"]
      \/ op' = [op EXCEPT ![c] = "failed"]
  BY DEF OnConnectComplete
<1>3. Out' = Out /\ InKernel' = InKernel \ {c}
  BY <1>0, <1>2 DEF KInv, TypeOK, Out, InKernel
<1>4. TypeOK' /\ answers' \in [Calls -> AnAnswer \cup {<<>>}]
  BY <1>0, <1>1, <1>2 DEF KInv, TypeOK, ConType
<1>5. \A d \in Calls : CallOK(d)'
  BY <1>0, <1>1, <1>2 DEF KInv, TypeOK, CallOK
<1> QED BY <1>1, <1>3, <1>4, <1>5 DEF KInv

\* The handler gets the result, for the first time.
LEMMA CallHandlerKeeps ==
    ASSUME IsFiniteSet(Calls), KInv, NEW c \in Calls, CallHandler(c)
    PROVE  KInv'
<1>0. /\ op[c] \in {"connected", "failed"} /\ answers[c] = <<>>
      /\ op' = [op EXCEPT ![c] = "handler"] /\ UNCHANGED <<con, call, socket>>
  BY DEF KInv, CallOK, CallHandler
<1>1. Append(<<>>, op[c]) = <<op[c]>> /\ <<op[c]>> \in AnAnswer
  BY <1>0 DEF AnAnswer
<1>2. answers' = [answers EXCEPT ![c] = <<op[c]>>]
  BY <1>0, <1>1 DEF CallHandler
<1>3. TypeOK' /\ answers' \in [Calls -> AnAnswer \cup {<<>>}]
  BY <1>0, <1>1, <1>2 DEF KInv, TypeOK
<1>4. /\ answers'[c] = <<op[c]>> /\ op'[c] = "handler"
      /\ \A d \in Calls \ {c} : answers'[d] = answers[d] /\ op'[d] = op[d]
  BY <1>0, <1>2 DEF KInv, TypeOK
<1>5. CallOK(c)'
  <2>1. <<op[c]>> # <<>> /\ (<<op[c]>> = <<"connected">> => op[c] = "connected")
    OBVIOUS
  <2>2. call[c] = "accepted"
    BY <1>0 DEF KInv, CallOK
  <2> QED BY <1>0, <1>1, <1>4, <2>1, <2>2 DEF KInv, CallOK
<1>6. ASSUME NEW d \in Calls \ {c} PROVE CallOK(d)'
  BY <1>0, <1>4 DEF KInv, CallOK
<1>7. Out' = Out /\ InKernel' = InKernel
  BY <1>0, <1>4 DEF KInv, TypeOK, Out, InKernel
<1> QED BY <1>0, <1>3, <1>5, <1>6, <1>7, SameOperations

\* FinishConnect: the operation is accounted for after its handler, and the
\* last one of a Stop makes the connector Stopped.
LEMMA FinishConnectKeeps ==
    ASSUME IsFiniteSet(Calls), KInv, NEW c \in Calls, FinishConnect(c)
    PROVE  KInv'
<1> DEFINE e == [con EXCEPT !.outstanding = IF @ > 0 THEN @ - 1 ELSE @]
<1>0. /\ con \in ConType /\ op[c] = "handler" /\ UNCHANGED <<call, answers>>
      /\ op' = [op EXCEPT ![c] = "none"] /\ con' = MoveToStoppedIfDrainedLocked(e)
      /\ socket' = [socket EXCEPT ![c] =
             IF answers[c] = <<"connected">> THEN @ ELSE "closed"]
  BY DEF KInv, TypeOK, ConType, FinishConnect
<1>1. Out' = Out \ {c} /\ c \in Out /\ InKernel' = InKernel
  BY <1>0 DEF KInv, TypeOK, Out, InKernel
<1>2. /\ Cardinality(Out) \in Nat /\ Cardinality(Out) > 0
      /\ Cardinality(Out') = Cardinality(Out) - 1
      /\ Cardinality(Out') \in 0..Cardinality(Calls)
  <2>1. Out \in SUBSET Calls /\ Out' \in SUBSET Calls
    BY DEF Out
  <2>2. /\ IsFiniteSet(Out) /\ Cardinality(Out) \in Nat
        /\ Cardinality(Out') \in 0..Cardinality(Calls)
    BY <2>1, SubsetsOfCalls, FS_CardinalityType
  <2>3. Cardinality(Out') = Cardinality(Out) - 1
    BY <1>1, <2>2, FS_RemoveElement
  <2>4. Cardinality(Calls) \in Nat
    BY FS_CardinalityType
  <2> QED BY <2>2, <2>3, <2>4
<1>3. con.outstanding = Cardinality(Out)
  BY DEF KInv
<1>4. /\ e.outstanding = Cardinality(Out') /\ e.state = con.state
      /\ e.pending = con.pending
  BY <1>0, <1>2, <1>3 DEF ConType
<1>5. e \in ConType
  BY <1>0, <1>2, <1>3 DEF ConType
<1> HIDE DEF e
<1>6. /\ con' \in ConType /\ con'.outstanding = Cardinality(Out')
      /\ con'.pending = con.pending
      /\ con'.state = "Running" => con.state = "Running"
      /\ con'.state = "Stopped" => con.state = "Stopped" \/ con'.outstanding = 0
  BY <1>0, <1>4, <1>5, DrainedStops DEF ConType
<1>7. con.state # "Stopped"
  BY <1>2, <1>3 DEF KInv
<1>8. TypeOK' /\ answers' \in [Calls -> AnAnswer \cup {<<>>}]
  BY <1>0, <1>6 DEF KInv, TypeOK, ConType
<1>9. /\ op'[c] = "none"
      /\ socket'[c] = IF answers[c] = <<"connected">> THEN socket[c] ELSE "closed"
      /\ \A d \in Calls \ {c} : op'[d] = op[d] /\ socket'[d] = socket[d]
  BY <1>0 DEF KInv, TypeOK
<1>10. CallOK(c)'
  BY <1>0, <1>9 DEF KInv, CallOK
<1>11. ASSUME NEW d \in Calls \ {c} PROVE CallOK(d)'
  BY <1>0, <1>6, <1>9 DEF KInv, CallOK
<1> QED BY <1>1, <1>6, <1>7, <1>8, <1>10, <1>11 DEF KInv

\* Stop closes the pending sockets and no other.
LEMMA StopKeeps ==
    ASSUME IsFiniteSet(Calls), KInv, Stop
    PROVE  KInv'
<1> DEFINE e == [con EXCEPT !.state = "Stopping"]
<1>0. /\ con \in ConType /\ con.state = "Running" /\ UNCHANGED <<call, op, answers>>
      /\ con' = MoveToStoppedIfDrainedLocked(e)
      /\ socket' = [c \in Calls |->
             IF c \in con.pending THEN "closed" ELSE socket[c]]
  BY DEF KInv, TypeOK, ConType, Stop
<1>1. /\ e \in ConType /\ e.state = "Stopping" /\ e.pending = con.pending
      /\ e.outstanding = con.outstanding
  BY <1>0 DEF ConType
<1> HIDE DEF e
<1>2. /\ con' \in ConType /\ con'.outstanding = con.outstanding
      /\ con'.pending = con.pending /\ con'.state # "Running"
      /\ con'.state = "Stopped" => con'.outstanding = 0
  BY <1>0, <1>1, DrainedStops
<1>3. Out' = Out /\ InKernel' = InKernel
  BY <1>0 DEF Out, InKernel
<1>4. TypeOK' /\ answers' \in [Calls -> AnAnswer \cup {<<>>}]
  BY <1>0, <1>2 DEF KInv, TypeOK, ConType
<1>5. ASSUME NEW c \in Calls PROVE CallOK(c)'
  <2>1. op[c] = "connected" \/ answers[c] # <<>> \/ call[c] = "post"
           => c \notin con.pending
    BY DEF KInv, CallOK, InKernel
  <2>2. CallOK(c) /\ answers[c] \in AnAnswer \cup {<<>>}
    BY DEF KInv
  <2>3. <<"connected">> # <<>>
    OBVIOUS
  <2> QED BY <1>0, <1>2, <2>1, <2>2, <2>3 DEF CallOK
<1> QED BY <1>2, <1>3, <1>4, <1>5 DEF KInv

\* Every step of every thread: one case per action.
LEMMA KInvInductive == IsFiniteSet(Calls) /\ KInv /\ [Next]_vars => KInv'
<1> SUFFICES ASSUME IsFiniteSet(Calls), KInv, [Next]_vars PROVE KInv'
  OBVIOUS
<1>1. CASE Stop
  BY <1>1, StopKeeps
<1>2. ASSUME NEW c \in Calls,
             \/ Connect(c) \/ PrepareSocket(c) \/ PostConnect(c)
             \/ KernelConnects(c) \/ CompletionStep(c)
      PROVE  KInv'
  BY <1>2, CallsKeep, PostConnectKeeps, OnConnectCompleteKeeps,
     CallHandlerKeeps, FinishConnectKeeps DEF CompletionStep
<1>3. CASE UNCHANGED vars
  <2>1. TypeOK' /\ answers' = answers /\ con' = con
    BY <1>3 DEF vars, KInv, TypeOK
  <2>2. Out' = Out /\ InKernel' = InKernel /\ \A c \in Calls : CallOK(c)'
    BY <1>3 DEF vars, KInv, CallOK, Out, InKernel
  <2> QED BY <2>1, <2>2 DEF KInv
<1> QED BY <1>1, <1>2, <1>3 DEF Next

\* The counter and the pending sockets of the connector are what its threads
\* and the kernel really have.
THEOREM ConnectorInvariance == ASSUME IsFiniteSet(Calls) PROVE Spec => []KInv
BY InitKInv, KInvInductive, PTL DEF Spec

\* OnConnectComplete and Stop, interleaved in any way: an accepted connect is
\* answered exactly once, before WaitStopped returns, and a socket handed to
\* a handler is not one that Stop closed.
THEOREM ConnectsAreAnsweredOnce ==
    ASSUME IsFiniteSet(Calls) PROVE Spec => []AnsweredOnce
<1>1. KInv => AnsweredOnce
  <2> SUFFICES ASSUME KInv PROVE AnsweredOnce
    OBVIOUS
  <2>1. ASSUME NEW c \in Calls
        PROVE  /\ Len(answers[c]) <= (IF call[c] = "accepted" THEN 1 ELSE 0)
               /\ answers[c] = <<"connected">> => socket[c] = "open"
               /\ call[c] = "accepted" /\ op[c] = "none" => answers[c] # <<>>
    <3>1. CallOK(c) /\ answers[c] \in AnAnswer \cup {<<>>}
      BY DEF KInv
    <3>2. Len(<<>>) = 0 /\ \A a \in AnAnswer : Len(a) = 1 /\ a # <<>>
      BY DEF AnAnswer
    <3>3. CASE answers[c] = <<>>
      BY <3>1, <3>2, <3>3 DEF CallOK
    <3>4. CASE answers[c] \in AnAnswer
      <4>1. call[c] = "accepted" /\ Len(answers[c]) = 1 /\ answers[c] # <<>>
        BY <3>1, <3>2, <3>4 DEF CallOK
      <4> QED BY <3>1, <4>1 DEF CallOK
    <3> QED BY <3>1, <3>3, <3>4
  <2>2. con.state = "Stopped" => \A c \in Calls : op[c] = "none"
    <3> SUFFICES ASSUME con.state = "Stopped" PROVE Out = {}
      BY DEF Out
    <3>1. IsFiniteSet(Out) /\ Cardinality(Out) = 0
      BY SubsetsOfCalls DEF KInv, Out
    <3> QED BY <3>1, FS_EmptySet
  <2> QED BY <2>1, <2>2 DEF AnsweredOnce, KInv
<1> QED BY <1>1, ConnectorInvariance, PTL
==============================================================================
