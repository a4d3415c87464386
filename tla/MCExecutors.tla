----------------------------- MODULE MCExecutors ------------------------------
(***************************************************************************)
(* The services that call back on their own time and are stopped with a    *)
(* barrier: the serial executors over their pool, the thread pool, the     *)
(* IOCP executor, the manual executor, the timer service and the           *)
(* connector.  A behaviour is one of these, chosen at the start.           *)
(***************************************************************************)
EXTENDS SerialExecutor

CONSTANTS PoolTasks, PoolLimit, IoWorkers, IoTasks, IoLimit, ManualTasks,
          Callers, Durations, MaxTimers, MaxTime, Calls

VARIABLES
    service,                                                  \* the one at work
    tpool, tworker, toffered, taccepted, ttaken, tdropped,    \* thread pool
    port, port_open, stopping, io_worker, exec, poster, step, \* IOCP executor
    manual, runner, outcome,                                  \* manual executor
    clock, timers, deadline, caller, sleeper, stopper, fired, cancelled,
    con, call, op, socket, answers                            \* connector

Pool == INSTANCE ThreadPoolExecutor WITH
    Tasks <- PoolTasks, MaximumPendingTasks <- PoolLimit, pool <- tpool,
    worker <- tworker, offered <- toffered, accepted <- taccepted,
    taken <- ttaken, dropped <- tdropped

Iocp == INSTANCE IocpExecutor WITH
    Tasks <- IoTasks, MaximumPendingTasks <- IoLimit

Manual == INSTANCE ManualExecutor WITH
    Tasks <- ManualTasks, MaximumPendingTasks <- IoLimit, Runners <- Workers

Timer == INSTANCE TimerService

Connector == INSTANCE TcpConnector

ASSUME OtherOptionsAreValid ==
    /\ Iocp!ContextOptionsAreValid /\ Iocp!ExecutorOptionsAreValid
    /\ PoolLimit \in Nat \ {0} /\ Pool!PoolTasksAreValid
    /\ Timer!TimerOptionsAreValid /\ IsFiniteSet(Calls)

serialVars == <<pool, worker, serial, executing, offered, accepted, begun, direct>>
poolVars == <<tpool, tworker, toffered, taccepted, ttaken, tdropped>>
iocpVars == <<port, port_open, stopping, io_worker, exec, poster, step>>
manualVars == <<manual, runner, outcome>>
timerVars == <<clock, timers, deadline, caller, sleeper, stopper, fired, cancelled>>
connectorVars == <<con, call, op, socket, answers>>
allVars == <<service, serialVars, poolVars, iocpVars, manualVars, timerVars,
             connectorVars>>

ServicesInit ==
    /\ service \in {"serial", "pool", "iocp", "manual", "timer", "connector"}
    /\ Init /\ Pool!Init /\ Iocp!Init /\ Manual!ManualInit /\ Timer!TimerInit
    /\ Connector!Init

ServicesNext ==
    \/ /\ service = "serial" /\ Next
       /\ UNCHANGED <<service, poolVars, iocpVars, manualVars, timerVars,
                      connectorVars>>
    \/ /\ service = "pool" /\ Pool!Next
       /\ UNCHANGED <<service, serialVars, iocpVars, manualVars, timerVars,
                      connectorVars>>
    \/ /\ service = "iocp" /\ Iocp!Next
       /\ UNCHANGED <<service, serialVars, poolVars, manualVars, timerVars,
                      connectorVars>>
    \/ /\ service = "manual" /\ Manual!ManualNext
       /\ UNCHANGED <<service, serialVars, poolVars, iocpVars, timerVars,
                      connectorVars>>
    \/ /\ service = "timer" /\ Timer!TimerNext
       /\ UNCHANGED <<service, serialVars, poolVars, iocpVars, manualVars,
                      connectorVars>>
    \/ /\ service = "connector" /\ Connector!Next
       /\ UNCHANGED <<service, serialVars, poolVars, iocpVars, manualVars,
                      timerVars>>

\* The fairness of each service.  Nothing of a service that is not at work is
\* enabled but the timer's clock and worker, so only they name the service.
ServicesSpec ==
    /\ ServicesInit /\ [][ServicesNext]_allVars
    /\ Fairness /\ Pool!Fairness /\ Iocp!Fairness /\ Connector!Fairness
    /\ WF_timerVars(service = "timer" /\ Timer!Tick)
    /\ WF_timerVars(service = "timer" /\ Timer!WakeIsDue)
    /\ WF_timerVars(service = "timer" /\ (Timer!Turn \/ Timer!CallbackReturns))
    /\ WF_timerVars(service = "timer" /\ Timer!StopGoesOn)
    /\ \A c \in Callers :
        WF_timerVars(service = "timer" /\ (Timer!Push(c) \/ Timer!NotifyPushed(c)))

------------------------------------------------------------------------------
(* The executors implement the contract *)

ManualContract == INSTANCE ExecutorContract WITH
    Tasks <- ManualTasks, phase <- manual.state, mode <- manual.stop_mode,
    status <- outcome

\* Every implementation of IExecutor keeps its contract: a task is admitted only
\* while Running, accepted ones begin at most once, only CancelPending gives one
\* up, and Stopped is reported with nothing under way and is final.
ImplementsContract ==
    /\ \A s \in Serials : Contract(s)!Init
    /\ Pool!Contract!Init /\ Iocp!Contract!Init /\ ManualContract!Init
    /\ [][\A s \in Serials : \/ UNCHANGED Contract(s)!vars
                            \/ Contract(s)!Next]_serialVars
    /\ [][UNCHANGED Pool!Contract!vars \/ Pool!Contract!Next]_poolVars
    /\ [][UNCHANGED Iocp!Contract!vars \/ Iocp!Contract!Next]_iocpVars
    /\ [][UNCHANGED ManualContract!vars \/ ManualContract!Next]_manualVars

------------------------------------------------------------------------------
(* What each promises beyond the contract *)

\* Tasks begin in the order they were accepted: those of a serial executor, and
\* those the workers of a pool take.
AcceptanceOrder == BeginsInOrder /\ Pool!AcceptedRunsOnce

\* The counters that decide when the IOCP executor is Stopped are exact, with
\* posting threads between reserving a slot and giving it back.
CountersAreExact == Iocp!CountersAreExact

\* A timer's callback runs once, not early, and never after a Cancel that
\* returned true.
FiresOnceOnTime == Timer!FiresOnceOnTime

\* An accepted connect is answered once, before the connector is Stopped, and
\* never with a socket that Stop closed.
AnsweredOnce == Connector!AnsweredOnce

\* After the barrier of Stop no thread of any service runs a callback, and none
\* will: the pool's threads are gone, a serial executor's Drain is empty, the
\* IOCP executor has no packet in the port, the timer's worker was joined.
AllStoppedAreQuiet ==
    /\ StoppedIsQuiet /\ Pool!StoppedIsQuiet /\ Iocp!StoppedIsQuiet
    /\ Timer!NoCallbackAfterStop

\* Every Stop reaches its barrier, the IOCP workers leave, and the connector waits
\* for no peer: the services come to rest with no stop under way.
EveryStopCompletes ==
    <>[](/\ StopIsOver /\ Pool!StopIsOver /\ Iocp!StopIsOver
         /\ Timer!TimerStopIsOver /\ Connector!StopIsOver)

\* What was accepted is run, and what is due fires, unless it is cancelled: the
\* services come to rest with nothing waiting.
EverythingAcceptedIsRun ==
    <>[](NoneWaits /\ Pool!NoneWaits /\ Iocp!NoneWaits /\ Timer!NoneIsDue)
==============================================================================
