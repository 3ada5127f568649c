----------------------------- MODULE HttpServer -----------------------------
(***************************************************************************)
(* HttpServer.cpp between its sockets and the manager: requests handled by *)
(* a pool of io threads, the waiters of synchronous requests, completion   *)
(* events arriving on the manager's worker thread, the timeout of a wait,  *)
(* and the shutdown that main.cpp drives.                                  *)
(*                                                                         *)
(* The manager is seen through its promise (module FlowService): an        *)
(* accepted request opens at most one flow, which ends with at most one    *)
(* completion event, or is lost (full factory, event rejected by Stop).    *)
(* The transport is left out: a request begins when it has been read and   *)
(* validated, and is answered when its response is handed to async_write.  *)
(***************************************************************************)
EXTENDS Naturals, FiniteSets

CONSTANTS
    Requests,        \* valid POST requests
    Sync,            \* those with wait=true
    ServiceOf,       \* ServiceOf[r]: the factory its route names
    Explicit,        \* Explicit[r]: the sessionId of its body, 0 for none
    IoThreads,       \* 2 in the code
    SessionModulus,  \* 2^32 in the code
    NoRequest        \* not a request

ASSUME RequestAssumption ==
    /\ Sync \subseteq Requests
    /\ Explicit \in [Requests -> Nat]
    /\ NoRequest \notin Requests
    /\ IoThreads \in Nat \ {0} /\ SessionModulus \in Nat \ {0, 1}

VARIABLES
    main,         \* main(): how far start-up or shutdown has come
    callback,     \* is the manager's completion callback set?
    refusing,     \* the manager's _stopped
    nextSession,  \* _nextSessionId
    handler,      \* handler[r]: where HandleRequest is
    session,      \* session[r]: msg.sessionId
    waiters,      \* _waiters: the requests whose entry is in the map
    entry,        \* entry[r]: its WaitEntry; event.result and whose flow it names
    answer,       \* answer[r]: the status of the response
    flow,         \* flow[r]: the flow the manager runs for r
    worker,       \* the manager's worker inside NotifyFsmCompleted
    reported,     \* the request whose flow it reports
    toNotify,     \* OnCompletion: entriesToNotify
    toStop        \* NotifyAllWaitersAsStopped: entriesToNotify

shutdownVars == <<main, callback, refusing, toStop>>
requestVars  == <<nextSession, handler, session, answer>>
managerVars  == <<flow, worker, reported, toNotify>>
vars == <<shutdownVars, requestVars, managerVars, waiters, entry>>

NewEntry == [completed |-> FALSE, result |-> "unset", of |-> NoRequest]

TypeOK ==
    /\ main \in {"init", "serving", "collect", "notify", "joinio", "stopped",
                 "joinworker", "destroyed"}
    /\ callback \in BOOLEAN /\ refusing \in BOOLEAN
    /\ nextSession \in 0..(SessionModulus - 1)
    /\ handler \in [Requests -> {"new", "register", "send", "wait", "unregister", "answered"}]
    /\ session \in [Requests -> Nat]
    /\ waiters \subseteq Sync
    /\ entry \in [Requests -> [completed : BOOLEAN, result : {"unset", "SUCCESS", "INVALID_STATE"},
                               of : Requests \cup {NoRequest}]]
    /\ answer \in [Requests -> {"none", "200", "202", "500", "503", "504"}]
    /\ flow \in [Requests -> {"none", "open", "reporting", "reported", "unreported", "lost"}]
    /\ worker \in {"idle", "collect", "notify", "joined"}
    /\ reported \in Requests \cup {NoRequest}
    /\ toNotify \subseteq Sync /\ toStop \subseteq Sync

Init ==
    /\ main = "init" /\ callback = FALSE /\ refusing = FALSE /\ toStop = {}
    /\ nextSession = 1
    /\ handler = [r \in Requests |-> "new"]
    /\ session = [r \in Requests |-> 0]
    /\ answer = [r \in Requests |-> "none"]
    /\ waiters = {}
    /\ entry = [r \in Requests |-> NewEntry]
    /\ flow = [r \in Requests |-> "none"]
    /\ worker = "idle" /\ reported = NoRequest /\ toNotify = {}
-----------------------------------------------------------------------------
(* A request, on an io thread.                                             *)

Busy == {r \in Requests : handler[r] \notin {"new", "answered"}}
Key(r) == <<ServiceOf[r], session[r]>>

\* GenerateSessionId: the counter wraps and 0 is skipped.
Generated == IF nextSession = 0 THEN 1 ELSE nextSession

Drawn == (Generated + 1) % SessionModulus

\* HandleRequest up to the choice between synchronous and asynchronous.  An id is
\* drawn even when the body brings its own.
Begin(r) ==
    /\ main \in {"serving", "collect", "notify"}
    /\ handler[r] = "new" /\ Cardinality(Busy) < IoThreads
    /\ session' = [session EXCEPT ![r] = IF Explicit[r] # 0 THEN Explicit[r] ELSE Generated]
    /\ nextSession' = Drawn
    /\ handler' = [handler EXCEPT ![r] = IF r \in Sync THEN "register" ELSE "send"]
    /\ UNCHANGED <<shutdownVars, managerVars, waiters, entry, answer>>

\* Faulty variant: an entry replaces those of the same key.
RegisteredAlone(r) == {x \in waiters : Key(x) # Key(r)} \cup {r}

Registered(r) == waiters \cup {r}

RegisterWaiter(r) ==
    /\ handler[r] = "register"
    /\ waiters' = Registered(r)
    /\ handler' = [handler EXCEPT ![r] = "send"]
    /\ UNCHANGED <<shutdownVars, managerVars, entry, nextSession, session, answer>>

\* _manager.SendMsg(msg) of an asynchronous request, which is answered at once.
SendAsync(r) ==
    /\ handler[r] = "send" /\ r \notin Sync
    /\ \/ /\ ~refusing
          /\ flow' = [flow EXCEPT ![r] = "open"]
          /\ answer' = [answer EXCEPT ![r] = "202"]
       \/ /\ refusing
          /\ answer' = [answer EXCEPT ![r] = "503"]
          /\ UNCHANGED flow
    /\ handler' = [handler EXCEPT ![r] = "answered"]
    /\ UNCHANGED <<shutdownVars, worker, reported, toNotify, waiters, entry, nextSession, session>>

\* The same of a synchronous request, which waits.
SendSync(r) ==
    /\ handler[r] = "send" /\ r \in Sync
    /\ \/ /\ ~refusing
          /\ flow' = [flow EXCEPT ![r] = "open"]
          /\ handler' = [handler EXCEPT ![r] = "wait"]
          /\ UNCHANGED answer
       \/ /\ refusing
          /\ answer' = [answer EXCEPT ![r] = "503"]
          /\ handler' = [handler EXCEPT ![r] = "unregister"]
          /\ UNCHANGED flow
    /\ UNCHANGED <<shutdownVars, worker, reported, toNotify, waiters, entry, nextSession, session>>

\* wait_for returns because the entry is complete, or because the time is up and
\* it is not.
WaitCompletes(r) ==
    /\ entry[r].completed
    /\ answer' = [answer EXCEPT ![r] = IF entry[r].result = "SUCCESS" THEN "200" ELSE "500"]

\* Faulty variant: the wait has no timeout.
WaitNeverTimesOut(r) == FALSE

WaitTimesOut(r) ==
    /\ ~entry[r].completed
    /\ answer' = [answer EXCEPT ![r] = "504"]

WaitEnds(r) ==
    /\ handler[r] = "wait"
    /\ WaitCompletes(r) \/ WaitTimesOut(r)
    /\ handler' = [handler EXCEPT ![r] = "unregister"]
    /\ UNCHANGED <<shutdownVars, managerVars, waiters, entry, nextSession, session>>

\* Faulty variant: the entry stays in the map.
StillRegistered(r) == waiters

Unregistered(r) == waiters \ {r}

UnregisterWaiter(r) ==
    /\ handler[r] = "unregister"
    /\ waiters' = Unregistered(r)
    /\ handler' = [handler EXCEPT ![r] = "answered"]
    /\ UNCHANGED <<shutdownVars, managerVars, entry, nextSession, session, answer>>
-----------------------------------------------------------------------------
(* The manager's worker.                                                   *)

\* The flow of r is lost without an event.
LoseFlow(r) ==
    /\ flow[r] = "open"
    /\ flow' = [flow EXCEPT ![r] = "lost"]
    /\ UNCHANGED <<shutdownVars, requestVars, worker, reported, toNotify, waiters, entry>>

\* NotifyFsmCompleted copies the callback under its lock and calls the copy
\* without it.
CopyCallback(r) ==
    /\ worker = "idle" /\ flow[r] = "open"
    /\ \/ /\ callback
          /\ flow' = [flow EXCEPT ![r] = "reporting"]
          /\ worker' = "collect" /\ reported' = r
       \/ /\ ~callback
          /\ flow' = [flow EXCEPT ![r] = "unreported"]
          /\ UNCHANGED <<worker, reported>>
    /\ UNCHANGED <<shutdownVars, requestVars, toNotify, waiters, entry>>

\* Faulty variants: entries of the service, or of the session, alone.
EntriesOfService == {r \in waiters : ServiceOf[r] = ServiceOf[reported]}
EntriesOfSession == {r \in waiters : session[r] = session[reported]}

EntriesToNotify == {r \in waiters : Key(r) = Key(reported)}

\* OnCompletion: the entries of the event's key, then each entry in turn.
CollectEntries ==
    /\ worker = "collect"
    /\ toNotify' = EntriesToNotify
    /\ worker' = "notify"
    /\ UNCHANGED <<shutdownVars, requestVars, flow, reported, waiters, entry>>

CompleteEntry(r) ==
    /\ worker = "notify" /\ r \in toNotify
    /\ entry' = [entry EXCEPT ![r] = [completed |-> TRUE, result |-> "SUCCESS", of |-> reported]]
    /\ toNotify' = toNotify \ {r}
    /\ UNCHANGED <<shutdownVars, requestVars, flow, worker, reported, waiters>>

EndReport ==
    /\ worker = "notify" /\ toNotify = {}
    /\ worker' = "idle" /\ reported' = NoRequest
    /\ flow' = [flow EXCEPT ![reported] = "reported"]
    /\ UNCHANGED <<shutdownVars, requestVars, toNotify, waiters, entry>>
-----------------------------------------------------------------------------
(* main(): start, serve until the signal, stop the server, stop the        *)
(* manager, destroy both.                                                  *)

\* Impl::Start succeeds, or fails before it sets the callback; main then stops
\* the manager.
StartServer ==
    /\ main = "init"
    /\ \/ main' = "serving" /\ callback' = TRUE
       \/ main' = "stopped" /\ UNCHANGED callback
    /\ UNCHANGED <<refusing, toStop, requestVars, managerVars, waiters, entry>>

\* Impl::Stop: clear the callback, close the acceptor.
ClearCallback ==
    /\ main = "serving"
    /\ callback' = FALSE /\ main' = "collect"
    /\ UNCHANGED <<refusing, toStop, requestVars, managerVars, waiters, entry>>

\* Faulty variant: only the requests that sleep already.
SleepingWaiters == {r \in waiters : handler[r] = "wait"}

WaitersToStop == waiters

\* NotifyAllWaitersAsStopped: take all entries out of the map, then complete
\* each, writing nothing of its event but the result.
TakeWaiters ==
    /\ main = "collect"
    /\ toStop' = WaitersToStop /\ waiters' = {}
    /\ main' = "notify"
    /\ UNCHANGED <<callback, refusing, requestVars, managerVars, entry>>

StopEntry(r) ==
    /\ main = "notify" /\ r \in toStop
    /\ entry' = [entry EXCEPT ![r] =
                    [completed |-> TRUE, result |-> "INVALID_STATE", of |-> entry[r].of]]
    /\ toStop' = toStop \ {r}
    /\ UNCHANGED <<main, callback, refusing, requestVars, managerVars, waiters>>

\* _ioc.stop(): handlers that run go on, no other begins; then the io threads
\* are joined.
StopIoc ==
    /\ main = "notify" /\ toStop = {}
    /\ main' = "joinio"
    /\ UNCHANGED <<callback, refusing, toStop, requestVars, managerVars, waiters, entry>>

IoIdle == Busy = {}

JoinIoThreads ==
    /\ main = "joinio" /\ IoIdle
    /\ main' = "stopped"
    /\ UNCHANGED <<callback, refusing, toStop, requestVars, managerVars, waiters, entry>>

\* manager.Stop(): refuse messages, join the worker; then the destructors.
StopManager ==
    /\ main = "stopped"
    /\ refusing' = TRUE /\ main' = "joinworker"
    /\ UNCHANGED <<callback, toStop, requestVars, managerVars, waiters, entry>>

\* Faulty variant: the server is destroyed while the worker may still run.
DestroyFirst ==
    /\ main = "joinworker"
    /\ main' = "destroyed"
    /\ UNCHANGED <<callback, refusing, toStop, requestVars, managerVars, waiters, entry>>

JoinWorker ==
    /\ main = "joinworker" /\ worker = "idle"
    /\ worker' = "joined" /\ main' = "destroyed"
    /\ UNCHANGED <<callback, refusing, toStop, requestVars, flow, reported, toNotify, waiters, entry>>
-----------------------------------------------------------------------------
Handle(r) ==
    \/ RegisterWaiter(r) \/ SendSync(r) \/ SendAsync(r) \/ WaitEnds(r)
    \/ UnregisterWaiter(r)
Report == CollectEntries \/ (\E r \in Requests : CompleteEntry(r)) \/ EndReport
Shutdown ==
    TakeWaiters \/ (\E r \in Requests : StopEntry(r)) \/ StopIoc \/ JoinIoThreads
      \/ StopManager \/ JoinWorker

Next ==
    \/ \E r \in Requests : Begin(r) \/ Handle(r) \/ LoseFlow(r) \/ CopyCallback(r)
    \/ Report
    \/ StartServer \/ ClearCallback \/ Shutdown

Spec == Init /\ [][Next]_vars

\* A handler that has begun runs on: its wait ends at the latest with the
\* timeout.  The worker finishes its report and main its shutdown.  Nobody has to
\* send a request or a signal, and no flow has to end.
FairSpec ==
    /\ Spec
    /\ \A r \in Requests : WF_vars(Handle(r))
    /\ WF_vars(Report)
    /\ WF_vars(Shutdown)
-----------------------------------------------------------------------------
\* 200 is answered only for a completed flow of the request's own service and
\* session, whose event was written in full (Stop writes only its result).
AnsweredByItsKey ==
    \A r \in Requests : answer[r] = "200" =>
        /\ entry[r].of # NoRequest
        /\ Key(entry[r].of) = Key(r)

\* If no other request has the same service and session, it is the flow of the
\* request itself, however requests, reports, timeouts and Stop interleave.
AnsweredByItsFlow ==
    \A r \in Requests :
        (answer[r] = "200" /\ \A q \in Requests \ {r} : Key(q) # Key(r)) => entry[r].of = r

\* The completion of a flow cannot fall between SendMsg and the wait: the waiter
\* of a flow that was reported is complete, however early the event came, or
\* Stop took it and is about to complete it.
NoMissedCompletion ==
    \A r \in Requests : (handler[r] = "wait" /\ flow[r] = "reported") =>
        entry[r].completed \/ r \in toStop

\* After Stop has notified the waiters, the only requests that still sleep are
\* those that registered after the map was emptied; the timeout ends their wait.
StopWakesWaiters ==
    main \in {"joinio", "stopped"} =>
        \A r \in Requests : (handler[r] = "wait" /\ ~entry[r].completed) => r \in waiters

\* The map holds no entry of a request that is over, and the worker writes no
\* entry of one that has not registered.
WaitersAreLive ==
    waiters \cup toNotify \cup toStop
      \subseteq {r \in Requests : handler[r] \notin {"new", "register"}}
    /\ waiters \subseteq {r \in Requests : handler[r] # "answered"}

\* The callback is a copy and may run after it was cleared and after the server
\* stopped, but never after the server is destroyed.
CallbackInLiveServer == worker \in {"collect", "notify"} => main # "destroyed"

\* Every request that began is answered although its flow may never end and nobody
\* but its own timeout wakes it.  A request that still queues for an io thread has not
\* begun here; that its client is served is EveryClientServed of HttpTransport.
EveryRequestAnswered ==
    \A r \in Requests : (handler[r] \in {"register", "send"}) ~> (handler[r] = "answered")

\* The shutdown of main completes.
ShutdownCompletes == (main = "collect") ~> (main = "destroyed")
=============================================================================
