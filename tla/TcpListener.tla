----------------------------- MODULE TcpListener -----------------------------
(***************************************************************************)
(* transport/tcp_listener: one AcceptEx in the kernel, re-posted before    *)
(* the accepted socket is handed over, so that the completions of several  *)
(* accepts can be in progress on different IOCP workers at once.  A        *)
(* completion has four steps: the re-post under the lock, preparing the    *)
(* socket and deciding on delivery under the lock again, the accept        *)
(* handler outside it, and the final accounting.                           *)
(***************************************************************************)
EXTENDS Naturals, FiniteSets

CONSTANTS
    Workers,       \* the IOCP workers
    MaxAccepts     \* bound: connections that arrive

ASSUME WorkersAreFinite == IsFiniteSet(Workers) /\ MaxAccepts \in Nat

VARIABLES
    lst,           \* [state, outstanding]
    accept_op,     \* the AcceptEx: where it is, with its result
    worker,        \* per IOCP worker: its step in a completion, or "idle"
    arrived        \* connections the kernel has accepted

listenerVars == <<lst, accept_op, worker, arrived>>

MoveToStoppedIfDrainedLocked(l) ==
    IF l.state = "Stopping" /\ l.outstanding = 0
    THEN [l EXCEPT !.state = "Stopped"] ELSE l

\* PostAcceptLocked from a completion of a Running listener.  When no socket
\* can be made or AcceptEx fails immediately, the listener stops.
PostAccept(l) ==
    \/ /\ lst' = [l EXCEPT !.outstanding = @ + 1]
       /\ accept_op' = "pending"
    \/ /\ lst' = [l EXCEPT !.state = "Stopping"]
       /\ accept_op' = "none"

\* Create posts the first accept in Start and throws when it fails, so that a
\* listener that exists has one in the kernel.
ListenerInit ==
    /\ lst = [state |-> "Running", outstanding |-> 1]
    /\ accept_op = "pending"
    /\ worker = [w \in Workers |-> "idle"]
    /\ arrived = 0

\* A connection arrives, or the accept fails; closing the listen socket makes
\* a pending accept fail.
KernelAccepts ==
    /\ accept_op = "pending"
    /\ \/ /\ arrived < MaxAccepts /\ arrived' = arrived + 1
          /\ accept_op' = "ok"
       \/ accept_op' = "error" /\ UNCHANGED arrived
    /\ UNCHANGED <<lst, worker>>

\* MUTANT: a failed accept is not replaced by another.
OnAcceptCompleteDeafOnError(w) ==
    /\ worker[w] = "idle" /\ accept_op \in {"ok", "error"}
    /\ IF lst.state = "Running" /\ accept_op = "ok" THEN PostAccept(lst)
       ELSE accept_op' = "none" /\ UNCHANGED lst
    /\ worker' = [worker EXCEPT ![w] =
           IF lst.state = "Running" /\ accept_op = "ok" THEN "prepare"
                                                        ELSE "finish"]
    /\ UNCHANGED arrived

\* OnAcceptCompleteImpl, first section: a Running listener posts the next
\* accept before anything else.  Allocating the operation may throw, out of
\* the section.
OnAcceptComplete(w) ==
    /\ worker[w] = "idle" /\ accept_op \in {"ok", "error"}
    /\ \/ /\ IF lst.state = "Running" THEN PostAccept(lst)
             ELSE accept_op' = "none" /\ UNCHANGED lst
          /\ worker' = [worker EXCEPT ![w] =
                 IF lst.state = "Running" /\ accept_op = "ok" THEN "prepare"
                                                              ELSE "finish"]
       \/ /\ lst.state = "Running" /\ accept_op' = "none"
          /\ worker' = [worker EXCEPT ![w] = "throws"]
          /\ UNCHANGED lst
    /\ UNCHANGED arrived

\* The accept context, the association with the port, and the second look at
\* the state: delivered only by a listener that is still Running.
Prepare(w) ==
    /\ worker[w] = "prepare"
    /\ \/ lst.state = "Running" /\ worker' = [worker EXCEPT ![w] = "handler"]
       \/ worker' = [worker EXCEPT ![w] = "finish"]
    /\ UNCHANGED <<lst, accept_op, arrived>>

\* The accept handler returned or threw.
HandlerDone(w) == worker' = [worker EXCEPT ![w] = "finish"]

FinishAcceptCompletion(w) ==
    /\ worker[w] = "finish"
    /\ lst' = MoveToStoppedIfDrainedLocked(
           [lst EXCEPT !.outstanding = IF @ > 0 THEN @ - 1 ELSE @])
    /\ worker' = [worker EXCEPT ![w] = "idle"]
    /\ UNCHANGED <<accept_op, arrived>>

StopLocked(l) ==
    IF l.state # "Running" THEN l
    ELSE MoveToStoppedIfDrainedLocked([l EXCEPT !.state = "Stopping"])

\* Handling a completion threw: the listener stops, the completion still
\* finishes.
CompletionThrows(w) ==
    /\ worker[w] \in {"prepare", "throws"}
    /\ lst' = StopLocked(lst)
    /\ worker' = [worker EXCEPT ![w] = "finish"]
    /\ UNCHANGED <<accept_op, arrived>>

\* Stop closes the listen socket, which fails a pending accept.
StopListener ==
    /\ lst' = StopLocked(lst)
    /\ UNCHANGED <<accept_op, worker, arrived>>

\* The steps of IOCP worker w in an accept completion.
CompletionStep(w) ==
    \/ OnAcceptComplete(w) \/ Prepare(w) \/ CompletionThrows(w)
    \/ FinishAcceptCompletion(w)

------------------------------------------------------------------------------
(* Properties *)

\* A Running listener never goes deaf: there is an accept in the kernel, a
\* completed one whose handling will post the next, or a worker about to stop
\* the listener because it could not.
NeverDeaf ==
    lst.state = "Running" =>
        accept_op # "none" \/ \E w \in Workers : worker[w] = "throws"

\* A listener that reports Stopped has no accept in the kernel and no
\* completion in progress: its accept handler is not running and will not be
\* called again, which is what WaitStopped promises the server.
ListenerStoppedIsQuiet ==
    lst.state = "Stopped" =>
        /\ accept_op = "none"
        /\ \A w \in Workers :
            worker[w] \notin {"prepare", "handler", "finish", "throws"}

==============================================================================
