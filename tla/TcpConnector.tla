----------------------------- MODULE TcpConnector -----------------------------
(***************************************************************************)
(* transport/tcp_connector: any number of ConnectEx operations at once.    *)
(* Connect looks at the state, makes a socket without the lock, and looks  *)
(* again before it starts the operation; a completion decides the result   *)
(* under the lock, calls the handler without it and is accounted for under *)
(* the lock again; Stop closes the sockets of the operations it finds      *)
(* pending.                                                                *)
(***************************************************************************)
EXTENDS Naturals, Sequences, FiniteSets

CONSTANT Calls     \* the calls of Connect, each with its operation

VARIABLES
    con,           \* [state, outstanding, pending]: pending is pending_sockets_
    call,          \* per call: where Connect stands, or what it returned
    op,            \* per call: where its operation is
    socket,        \* per call: "none", "open" or "closed"
    answers        \* per call: what its handler was called with, in order

vars == <<con, call, op, socket, answers>>

MoveToStoppedIfDrainedLocked(c) ==
    IF c.state = "Stopping" /\ c.outstanding = 0
    THEN [c EXCEPT !.state = "Stopped"] ELSE c

Init ==
    /\ con = [state |-> "Running", outstanding |-> 0, pending |-> {}]
    /\ call = [c \in Calls |-> "idle"]
    /\ op = [c \in Calls |-> "none"]
    /\ socket = [c \in Calls |-> "none"]
    /\ answers = [c \in Calls |-> <<>>]

\* Connect up to the first look at the state.
Connect(c) ==
    /\ call[c] = "idle"
    /\ call' = [call EXCEPT ![c] =
           IF con.state = "Running" THEN "prepare" ELSE "refused"]
    /\ UNCHANGED <<con, op, socket, answers>>

\* The socket is made, bound and associated with the port, or one of these
\* fails and Connect returns or throws.
PrepareSocket(c) ==
    /\ call[c] = "prepare"
    /\ \/ /\ call' = [call EXCEPT ![c] = "post"]
          /\ socket' = [socket EXCEPT ![c] = "open"]
       \/ call' = [call EXCEPT ![c] = "refused"] /\ UNCHANGED socket
    /\ UNCHANGED <<con, op, answers>>

\* The second look at the state and ConnectEx, in one section.  When it fails
\* immediately the count and the entry are taken back.
PostConnect(c) ==
    /\ call[c] = "post"
    /\ \/ /\ con.state = "Running"
          /\ con' = [con EXCEPT !.outstanding = @ + 1, !.pending = @ \cup {c}]
          /\ op' = [op EXCEPT ![c] = "pending"]
          /\ call' = [call EXCEPT ![c] = "accepted"]
          /\ UNCHANGED socket
       \/ /\ call' = [call EXCEPT ![c] = "refused"]
          /\ socket' = [socket EXCEPT ![c] = "closed"]
          /\ UNCHANGED <<con, op>>
    /\ UNCHANGED answers

\* The peer accepts, or the attempt fails; closing the socket makes it fail.
KernelConnects(c) ==
    /\ op[c] = "pending"
    /\ \/ socket[c] = "open" /\ op' = [op EXCEPT ![c] = "ok"]
       \/ op' = [op EXCEPT ![c] = "error"]
    /\ UNCHANGED <<con, call, socket, answers>>

\* MUTANT: the connection is accounted for before its handler has run.
OnConnectCompleteAccountsFirst(c) ==
    /\ op[c] \in {"ok", "error"}
    /\ con' = MoveToStoppedIfDrainedLocked(
           [con EXCEPT !.pending = @ \ {c}, !.outstanding = @ - 1])
    /\ op' = [op EXCEPT ![c] =
           IF con.state = "Running" /\ op[c] = "ok" THEN "connected" ELSE "failed"]
    /\ UNCHANGED <<call, socket, answers>>

\* OnConnectComplete, first section: the operation leaves the pending sockets,
\* and its result is a cancellation unless the connector is Running; taking
\* over the connect context may fail.
OnConnectComplete(c) ==
    /\ op[c] \in {"ok", "error"}
    /\ con' = [con EXCEPT !.pending = @ \ {c}]
    /\ \/ /\ con.state = "Running" /\ op[c] = "ok"
          /\ op' = [op EXCEPT ![c] = "connected"]
       \/ op' = [op EXCEPT ![c] = "failed"]
    /\ UNCHANGED <<call, socket, answers>>

\* The handler is called, without the lock.
CallHandler(c) ==
    /\ op[c] \in {"connected", "failed"}
    /\ answers' = [answers EXCEPT ![c] = Append(@, op[c])]
    /\ op' = [op EXCEPT ![c] = "handler"]
    /\ UNCHANGED <<con, call, socket>>

\* The handler returned or threw; what it did not get is closed with the
\* operation.
FinishConnect(c) ==
    /\ op[c] = "handler"
    /\ con' = MoveToStoppedIfDrainedLocked(
           [con EXCEPT !.outstanding = IF @ > 0 THEN @ - 1 ELSE @])
    /\ op' = [op EXCEPT ![c] = "none"]
    /\ socket' = [socket EXCEPT ![c] =
           IF answers[c] = <<"connected">> THEN @ ELSE "closed"]
    /\ UNCHANGED <<call, answers>>

Stop ==
    /\ con.state = "Running"
    /\ con' = MoveToStoppedIfDrainedLocked([con EXCEPT !.state = "Stopping"])
    /\ socket' = [c \in Calls |->
           IF c \in con.pending THEN "closed" ELSE socket[c]]
    /\ UNCHANGED <<call, op, answers>>

CompletionStep(c) == OnConnectComplete(c) \/ CallHandler(c) \/ FinishConnect(c)

Next ==
    \/ Stop
    \/ \E c \in Calls :
        \/ Connect(c) \/ PrepareSocket(c) \/ PostConnect(c)
        \/ KernelConnects(c) \/ CompletionStep(c)

Spec == Init /\ [][Next]_vars

\* IOCP workers handle completions, handlers return, and closing a socket
\* fails its ConnectEx; nothing makes a peer answer.
Fairness ==
    \A c \in Calls :
        /\ WF_vars(CompletionStep(c))
        /\ WF_vars(socket[c] = "closed" /\ KernelConnects(c))

------------------------------------------------------------------------------
(* Properties *)

TypeOK ==
    /\ con \in [state : {"Running", "Stopping", "Stopped"},
                outstanding : 0..Cardinality(Calls), pending : SUBSET Calls]
    /\ call \in [Calls -> {"idle", "prepare", "post", "accepted", "refused"}]
    /\ op \in [Calls -> {"none", "pending", "ok", "error", "connected", "failed",
                         "handler"}]
    /\ socket \in [Calls -> {"none", "open", "closed"}]

\* The handler of an accepted connect is called exactly once and the handler
\* of any other never; the barrier of WaitStopped is behind all of these calls
\* and their return, and a socket handed to a handler is one that Stop did not
\* close.
AnsweredOnce ==
    /\ TypeOK
    /\ \A c \in Calls :
        /\ Len(answers[c]) <= (IF call[c] = "accepted" THEN 1 ELSE 0)
        /\ answers[c] = <<"connected">> => socket[c] = "open"
        /\ call[c] = "accepted" /\ op[c] = "none" => answers[c] # <<>>
        /\ con.state = "Stopped" => op[c] = "none"

\* No Stop is under way.
StopIsOver == con.state # "Stopping"
==============================================================================
