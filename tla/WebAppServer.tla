----------------------------- MODULE WebAppServer -----------------------------
(***************************************************************************)
(* apps/webapp: the server of the board application.  Its requests and its *)
(* connections are those of HttpServer.  Its Stop does not look at what    *)
(* the waits return, and OnAccepted reads the state without a lock.        *)
(***************************************************************************)
EXTENDS HttpServer

VARIABLE admitted      \* workers whose OnAccepted has seen Running

webVars == <<serverVars, admitted>>

WebInit == ServerInit /\ admitted = {}

ChecksState(w) ==
    /\ worker[w] = "handler" /\ server = "Running"
    /\ admitted' = admitted \cup {w}
    /\ UNCHANGED serverVars

\* The rest of OnAccepted, for a worker that has seen Running.
Accepts(w) ==
    /\ w \in admitted /\ admitted' = admitted \ {w} /\ HandlerDone(w)
    /\ \/ \E c \in Conns :
             /\ phase[c] = "none"
             /\ member' = [member EXCEPT ![c] = TRUE]
             /\ \/ /\ phase' = [phase EXCEPT ![c] = "Active"]
                   /\ ops' = [ops EXCEPT ![c] = {"recv"}]
                \/ phase' = [phase EXCEPT ![c] = "Closed"] /\ UNCHANGED ops
       \/ UNCHANGED connVars
    /\ UNCHANGED <<lst, accept_op, arrived, server, stopVars, appVars>>

\* The accept handler finds the server no longer Running.
Drops(w) ==
    /\ worker[w] = "handler" /\ w \notin admitted /\ server # "Running"
    /\ HandlerDone(w)
    /\ UNCHANGED <<lst, accept_op, arrived, server, connVars, stopVars, appVars,
                   admitted>>

\* WaitStopped of the listener returns false, which Stop ignores.
ListenerWaitIgnored ==
    /\ stopper = "wait_listener"
    /\ to_close' = {c \in Conns : member[c]}
    /\ stopper' = "close_connections"
    /\ UNCHANGED <<listenerVars, server, connVars, io_stopping, timeouts, appVars>>

\* WaitEmpty returns false, which Stop ignores.
RegistryWaitIgnored ==
    /\ stopper = "wait_registry"
    /\ pool' = "Stopping" /\ stopper' = "wait_pool"
    /\ UNCHANGED <<listenerVars, server, connVars, to_close, io_stopping, timeouts,
                   app, task>>

WebNext ==
    \/ \E w \in Workers : ChecksState(w) \/ Accepts(w) \/ Drops(w)
    \/ /\ \/ /\ \/ ListenerStep \/ SharedStop
                \/ \E w \in Workers : Send(w) \/ HandlerReturns(w) \/ WorkerExits(w)
                \/ \E c \in Conns : ConnStep(c)
             /\ UNCHANGED appVars
          \/ \E w \in Workers : Post(w) \/ FeedCloses(w)
          \/ \E c \in Conns : TaskStep(c)
          \/ ListenerWaitIgnored \/ RegistryWaitIgnored
          \/ RegistryEmptyStopsPool \/ PoolStops \/ PoolStopped
       /\ UNCHANGED admitted

WebSpec == WebInit /\ [][WebNext]_webVars
==============================================================================
