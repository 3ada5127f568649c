--------------------------- MODULE ServiceShutdown ---------------------------
(***************************************************************************)
(* The whole program from the start of the server to the return of main:   *)
(* io threads that post requests, the worker that runs flows, the threads  *)
(* of their timers, and the order in which main and the destructors stop,  *)
(* join and destroy them (main.cpp, ~Impl, ~Cfactory_mgr, StopAndJoin,     *)
(* ~Cfactory).  Each part is seen through what its own module shows of it. *)
(*                                                                         *)
(* A flow takes three dispatches: the first creates the FSM and posts its  *)
(* continuation, the second starts a timer, the third ends the flow.       *)
(***************************************************************************)
EXTENDS Naturals, FiniteSets

CONSTANTS
    Flows,       \* requests that clients may send
    IoThreads    \* 2 in the code

ASSUME ShutdownAssumption == IoThreads \in Nat \ {0}

VARIABLES
    main,       \* main(): which call it is about to make, or waits in
    alive,      \* the objects that have not been destroyed
    callback,   \* is the manager's completion callback set?
    refusing,   \* the manager's _stopped
    handling,   \* requests whose handler is under way on an io thread
    where,      \* where[f]: which thread or queue holds the flow's next message
    stage,      \* stage[f]: dispatches f has had
    active,     \* flows whose timer has not been cancelled
    fsms,       \* flows whose FSM is in a factory
    freed       \* history; freed[f]: how often its FSM was destroyed

flowVars == <<where, stage, active, fsms, freed>>
vars == <<main, alive, callback, refusing, handling, flowVars>>

Objects == {"server", "pump", "timers", "factories"}

Held == {"new", "io", "pump", "worker", "reporting", "sleeping", "expired"}
Over == {"ended", "refused", "dropped", "orphaned", "cancelled"}

TypeOK ==
    /\ main \in {"start", "serving", "stopIoc", "joinIo", "stopManager", "joinWorker",
                 "destroyServer", "stopTimers", "joinTimers", "clearFactories", "destroyMembers", "exited"}
    /\ alive \subseteq Objects
    /\ callback \in BOOLEAN /\ refusing \in BOOLEAN /\ handling \subseteq Flows
    /\ where \in [Flows -> Held \cup Over]
    /\ stage \in [Flows -> 0..3]
    /\ active \subseteq Flows /\ fsms \subseteq Flows
    /\ freed \in [Flows -> 0..1]

At(place) == {f \in Flows : where[f] = place}

Init ==
    /\ main = "start" /\ alive = Objects
    /\ callback = FALSE /\ refusing = FALSE /\ handling = {}
    /\ where = [f \in Flows |-> "new"] /\ stage = [f \in Flows |-> 0]
    /\ active = {} /\ fsms = {} /\ freed = [f \in Flows |-> 0]
-----------------------------------------------------------------------------
(* Requests, the worker, and the timer threads.                             *)

Move(f, from, to) == where[f] = from /\ where' = [where EXCEPT ![f] = to]
MainUnchanged    == UNCHANGED <<main, alive, callback, refusing>>
ProgramUnchanged == MainUnchanged /\ UNCHANGED handling

\* Handlers begin from Start until _ioc.stop().
Request(f) ==
    /\ main \in {"serving", "stopIoc"} /\ Cardinality(handling) < IoThreads
    /\ Move(f, "new", "io") /\ handling' = handling \cup {f}
    /\ MainUnchanged /\ UNCHANGED <<stage, active, fsms, freed>>

\* SendMsg from a place: the message is queued, or the manager is stopped.
Send(f, from, rejected) == Move(f, from, IF refusing THEN rejected ELSE "pump")

SendInit(f) ==
    /\ Send(f, "io", "refused")
    /\ ProgramUnchanged /\ UNCHANGED <<stage, active, fsms, freed>>

\* HandleRequest returns: at once, or when a synchronous request has been completed
\* or its wait has timed out, and its waiter was unregistered.
EndHandler(f) ==
    /\ f \in handling /\ where[f] # "io"
    /\ handling' = handling \ {f}
    /\ MainUnchanged /\ UNCHANGED flowVars

Take(f) ==
    /\ At("worker") \cup At("reporting") = {}
    /\ Move(f, "pump", "worker")
    /\ stage' = [stage EXCEPT ![f] = @ + 1]
    /\ ProgramUnchanged /\ UNCHANGED <<active, fsms, freed>>

\* MSG_INIT for a full factory.
Drop(f) ==
    /\ stage[f] = 1 /\ Move(f, "worker", "dropped")
    /\ ProgramUnchanged /\ UNCHANGED <<stage, active, fsms, freed>>

\* MSG_INIT: AddFsm, and the FSM posts its next event.
Open(f) ==
    /\ stage[f] = 1 /\ Send(f, "worker", "orphaned")
    /\ fsms' = fsms \cup {f}
    /\ ProgramUnchanged /\ UNCHANGED <<stage, active, freed>>

\* An event whose row has a delay: StartTimer.  Nothing keeps it from starting
\* a timer while the queue is drained after Stop.
StartTimer(f) ==
    /\ stage[f] = 2 /\ Move(f, "worker", "sleeping")
    /\ active' = active \cup {f}
    /\ ProgramUnchanged /\ UNCHANGED <<stage, fsms, freed>>

Erased(f) == fsms \ {f}

Destroy(f) == fsms' = Erased(f) /\ freed' = [freed EXCEPT ![f] = @ + 1]

\* MSG_CLOSE: the callback is copied and called, if it is set.
Report(f) ==
    /\ stage[f] = 3
    /\ Move(f, "worker", IF callback THEN "reporting" ELSE "ended")
    /\ \/ callback /\ UNCHANGED <<fsms, freed>>
       \/ ~callback /\ Destroy(f)
    /\ ProgramUnchanged /\ UNCHANGED <<stage, active>>

KillFsm(f) ==
    /\ Move(f, "reporting", "ended")
    /\ Destroy(f)
    /\ ProgramUnchanged /\ UNCHANGED <<stage, active>>

\* Faulty variant: a thread whose timer was cancelled sleeps on.
AfterSleepOn(f) == IF f \in active THEN "expired" ELSE "sleeping"

AfterSleep(f) == IF f \in active THEN "expired" ELSE "cancelled"

\* The sleep ends and the thread reads its flag; then it posts.
Expire(f) ==
    /\ Move(f, "sleeping", AfterSleep(f))
    /\ ProgramUnchanged /\ UNCHANGED <<stage, active, fsms, freed>>

PostTimeout(f) ==
    /\ Send(f, "expired", "orphaned")
    /\ ProgramUnchanged /\ UNCHANGED <<stage, active, fsms, freed>>
-----------------------------------------------------------------------------
(* main().                                                                  *)

MainStep(from, to) == main = from /\ main' = to

\* httpServer.Start() succeeds; or fails, and main stops the manager.
StartServer ==
    /\ \/ MainStep("start", "serving") /\ callback' = TRUE
       \/ MainStep("start", "stopManager") /\ UNCHANGED callback
    /\ UNCHANGED <<alive, refusing, handling, flowVars>>

\* The signal: Impl::Stop clears the callback, then stops the io context.
StopServer ==
    /\ MainStep("serving", "stopIoc") /\ callback' = FALSE
    /\ UNCHANGED <<alive, refusing, handling, flowVars>>

StopIoc ==
    /\ MainStep("stopIoc", "joinIo")
    /\ UNCHANGED <<alive, callback, refusing, handling, flowVars>>

\* Faulty variant: only the handlers that have not sent are waited for.
HandlersSent == At("io") = {}

HandlersGone == handling = {}

JoinIo ==
    /\ MainStep("joinIo", "stopManager") /\ HandlersGone
    /\ UNCHANGED <<alive, callback, refusing, handling, flowVars>>

StopManager ==
    /\ MainStep("stopManager", "joinWorker") /\ refusing' = TRUE
    /\ UNCHANGED <<alive, callback, handling, flowVars>>

\* Faulty variant: the worker leaves its queue behind.
WorkerAtRest == At("worker") \cup At("reporting") = {}

\* Run has left its loop: the queue is drained.
WorkerGone == At("worker") \cup At("reporting") \cup At("pump") = {}

JoinWorker ==
    /\ MainStep("joinWorker", "destroyServer") /\ WorkerGone
    /\ UNCHANGED <<alive, callback, refusing, handling, flowVars>>

\* ~HttpServer comes first: httpServer was constructed last.  Then ~Cfactory_mgr,
\* whose own Stop finds no thread to join.
DestroyServer ==
    /\ MainStep("destroyServer", "stopTimers") /\ alive' = alive \ {"server"}
    /\ UNCHANGED <<callback, refusing, handling, flowVars>>

\* StopAndJoin: cancel all timers, then wait for their threads.
StopAllTimers ==
    /\ MainStep("stopTimers", "joinTimers") /\ active' = {}
    /\ UNCHANGED <<alive, callback, refusing, handling, where, stage, fsms, freed>>

\* Faulty variant: the threads that sleep are not waited for.
SleepersLeft == At("expired") = {}

TimersGone == At("sleeping") \cup At("expired") = {}

JoinTimers ==
    /\ MainStep("joinTimers", "clearFactories") /\ TimersGone
    /\ UNCHANGED <<alive, callback, refusing, handling, flowVars>>

\* Faulty variant: ~Cfactory destroys no FSM.
FreedByNobody(f) == freed[f]

FreedByFactory(f) == freed[f] + IF f \in fsms THEN 1 ELSE 0

\* _fac_list.clear(): ~Cfactory destroys the FSMs that are left.
ClearFactories ==
    /\ MainStep("clearFactories", "destroyMembers") /\ alive' = alive \ {"factories"}
    /\ fsms' = {} /\ freed' = [f \in Flows |-> FreedByFactory(f)]
    /\ UNCHANGED <<callback, refusing, handling, where, stage, active>>

\* The members of Cfactory_mgr.
DestroyMembers ==
    /\ MainStep("destroyMembers", "exited") /\ alive' = {}
    /\ UNCHANGED <<callback, refusing, handling, flowVars>>
-----------------------------------------------------------------------------
IoThread(f)    == SendInit(f) \/ EndHandler(f)
TimerThread(f) == Expire(f) \/ PostTimeout(f)
Dispatch(f)    == Drop(f) \/ Open(f) \/ StartTimer(f) \/ Report(f) \/ KillFsm(f)
WorkerThread   == \E f \in Flows : Take(f) \/ Dispatch(f)
Shutdown ==
    \/ StopIoc \/ JoinIo \/ StopManager \/ JoinWorker \/ DestroyServer
    \/ StopAllTimers \/ JoinTimers \/ ClearFactories \/ DestroyMembers

Next ==
    \/ \E f \in Flows : Request(f) \/ IoThread(f) \/ TimerThread(f)
    \/ WorkerThread
    \/ StartServer \/ StopServer \/ Shutdown

Spec == Init /\ [][Next]_vars

\* Every thread runs on, and the wait of a handler ends at the latest with its
\* timeout.  No request and no signal has to come.
FairSpec ==
    /\ Spec
    /\ \A f \in Flows : WF_vars(IoThread(f)) /\ WF_vars(TimerThread(f))
    /\ WF_vars(WorkerThread)
    /\ WF_vars(Shutdown)
-----------------------------------------------------------------------------
Needs(place) ==
    CASE place = "io"        -> {"server", "pump"}
      [] place = "pump"      -> {"pump"}
      [] place = "worker"    -> {"pump", "timers", "factories"}
      [] place = "reporting" -> {"server", "factories"}
      [] place \in {"sleeping", "expired"} -> {"timers", "pump"}
      [] OTHER -> {}

\* No thread ever works with an object that has been destroyed: the handlers of the
\* server from their beginning to their return, the worker's dispatch with its copy
\* of the completion callback, and the timer threads, which call into the pump of
\* the manager.
NoUseAfterDestroy ==
    /\ \A f \in Flows : Needs(where[f]) \subseteq alive
    /\ handling # {} => "server" \in alive

\* An FSM is destroyed once, by KillFsm when its flow ended or by ~Cfactory, and
\* by the time main returns every FSM has been.
DestroyedOnce ==
    main = "exited" => \A f \in Flows : freed[f] = IF stage[f] > 0 /\ where[f] # "dropped" THEN 1 ELSE 0

\* When main returns no message is left in the pump, with a thread, or in a timer:
\* each flow ended, was never opened, or was cut off by Stop at its next event or timer.
NothingLeftBehind ==
    main = "exited" => \A f \in Flows : where[f] \in {"new"} \cup Over

\* main returns once it is told to stop.
MainReturns == (main = "stopIoc") ~> (main = "exited")
=============================================================================
