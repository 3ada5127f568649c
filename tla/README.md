# A TLA+ verification of FsmFramework

FsmFramework is a C++11 framework for table-driven state machines (FSMs): a
manager with a message pump and a worker thread, factories that own FSMs,
timers, and an HTTP server that turns requests into flows. This directory holds
TLA+ modules of its concurrent core and of the boundaries where data comes in,
TLC configurations that check them on small instances, and proofs that TLAPS
checks for every value of the constants.

## 1. Inventory

| Part | State | Operations | Interacts with |
|---|---|---|---|
| `Cfactory_mgr` | `_pump`, `_stopped`, `_running`, `_worker_thread`, `_fac_list`, `_completionCallback` | `RegisterFactory`, `SendMsg`, `PumpOnce`, `RunUntilEmpty`, `Run`, `Start`, `Stop`, `Join`, `NotifyFsmCompleted` | clients and timers call `SendMsg` from any thread; the worker calls factories; completion goes to a callback |
| `Cfactory` | `_fsm_list` (at most 32), `_nextFsmId` | `FindFsm`, `AddFsm`, `FacMsgPrc`, `DispatchToFsm`, `KillFsm` | called by the dispatching thread; reports terminal FSMs to the manager |
| `Cfsm`, `RegFsm`, `AuthFsm`, `FsmTableExecutor` | `_state`, the transition tables | `ExecuteFsmTransition`, `PostNextEvent` | posts its own next event, at once or by a timer |
| `TimerManager` | `_timer_list`, `_timer_threads`, an atomic flag per timer | `StartTimer`, `StopTimer`, `StopAllTimers`, `StopAndJoin` | one thread per timer calls back into `SendMsg` |
| `HttpServer::Impl`, requests | `_waiters`, `_nextSessionId` | `HandleRequest`, `HandleSyncRequest`, `OnCompletion`, `NotifyAllWaitersAsStopped` | posts `MSG_INIT`, waits for completion events that arrive on the worker |
| `HttpServer::Impl`, transport | `_running`, `_ioc` and its queue of handlers, `_acceptor`, io threads, sessions with one deadline | `DoAccept`, `OnAccept`, `Run`, `OnRead`, `OnWrite`, `Start`, `Stop` | the sockets (Boost.Asio and Beast) |
| `main.cpp` | options, signal flag | `ParseArgs`, start and shutdown order | manager and server |
| `Logger`, deferred queues of `Cfsm`, tests, benchmark | | | not modelled, see section 8 |

What is hard: the pump is filled by clients, FSMs and timer threads at once; no
lock is held while an FSM runs, so a dispatch is several steps; notifications
come after the lock is released; `Stop` rejects the continuation of flows that
are under way; timers cannot be interrupted and outlive a `Stop`; a completion
travels through a copied callback to waiters that may time out, be stopped or
share a key; waits block the threads that also run the sockets; and everything
is stopped, joined and destroyed in an order spread over five files. What makes
each part correct:

- manager: requests are served in the order they were accepted; no wake-up is
  lost; `Stop` drains and returns; a flow has one continuation, never two, until
  it ends or is orphaned by `Stop`; it is reported once, with its session;
- factories: no use of a reclaimed FSM; the capacity holds; ids that wrap do no
  more harm than they must;
- timers: a cancel before the expiry prevents the post; nothing runs after
  `StopAndJoin`;
- HTTP server: an answer is the answer to that request; no completion is missed;
  every request is answered, every client served; nothing calls into a destroyed
  server;
- inputs: the number a client wrote is its session, untruncated, or it is refused;
  the options of an operator are what `strtoul` reads in them, and usable, or refused.

`PROJECT.json` lists the hazards with their lines and the properties for them.

## 2. Modules

| Module | Models |
|---|---|
| `FsmTables` | message types, states, error numbers (`common.h`, `CMsg.h`), the two transition tables, the lookup |
| `FsmManager` | manager, factories and FSMs; the wait of the pump is its predicate, a timer "posts once, later" |
| `FlowService` | abstract: flows open under fresh ids while there is room and end at most once with their session |
| `PumpLifecycle` | the condition variable of the pump, who sleeps and who is still to notify, `Run` on several threads, `Start`, `Stop` and `Join` by several |
| `MessagePump` | abstract: the sleepless pump that `FsmManager` assumes |
| `FactoryIds` | one factory with its list and ids of finite width |
| `TimerManager` | the timer threads, the flag, the two critical sections of `StartTimer`, `StopAndJoin` |
| `TimerService` | abstract: a timer goes off once, in the end, unless it is cancelled before |
| `HttpServer` | requests on io threads, waiters, completion, timeout, shutdown as in `main.cpp`; the manager is seen through its promise |
| `HttpTransport` | accept loop, sessions, deadlines, the queue of handlers, `Start` and `Stop` of the io context |
| `ServiceShutdown` | the program from start to the return of `main`: io threads, worker, timer threads and destructors |
| `RequestInput`, `CommandLine`, `ServiceInput`, `Widths` | what comes in: a request up to its message, the options, both in one program, the widths of integers |
| `MCFsmManager`, `MCHttpServer` | message sets, routes and session ids for TLC |
| `FsmManagerProofs` | theorems about `FsmManager`: its FSMs, what clients rely on, where its messages are |
| `FactoryIdsProofs`, `PumpProofs`, `TimerProofs`, `HttpServerProofs`, `TransportProofs`, `ServiceShutdownProofs`, `InputProofs` | theorems about the modules they are named after (`InputProofs`: `ServiceInput`) |

**FsmManager.** A critical section is one step, and so is what a thread does
between two of them. A dispatch is `Pop` (queue lock), `FindFsm` (factory and
FSM locks), `AddFsm`, `Execute` (lookup in the table), `SetState`, `Post` (queue
lock or `StartTimer`), `Reap` (state test and completion callback), `KillFsm`.
`pc`, `cur`, `row` and `ret` are the program counter and the locals of each
dispatching thread. `Worker` is the thread of `Start`; `Pumpers` are application
threads in `PumpOnce`. The variables after `ret` are history: they feed
properties and, for `accepted` and `starts`, the bounds; no code reads them.
When `SendMsg` fails inside an FSM the model records the FSM in `orphans`.
A thread that works on an FSM its factory no longer owns (undefined behaviour in
C++) has no step; `NoDanglingFsm` says this does not happen with one dispatching
thread.

**PumpLifecycle.** A critical section of `_pump_lock` is a step; `wait` gives the
lock up and sleeps in one, and a sleeper may wake up spuriously. `SendMsg` and
`Stop` are two steps each, the change under the lock and the notification after
it. `Join` reads `joinable()` and joins in two steps without a lock. Messages are
counted: their order is `FsmManager`'s. A second thread in `Run` is in the model
because it clears `_running` while the worker lives.

**FactoryIds.** `_fsm_list` is a sequence, ids count modulo `IdModulus`, and 0 means
"no FSM", so that which of two FSMs with one id is found, and what happens to one
with id 0, is in the model. A dispatch is one step.

**TimerManager.** An object `o` is the o-th `CTimerCtrl`; its id is
`o % IdModulus`, so that the wrap of the unsigned counter is in the model. The
flag is read (`Expire`) and the message posted (`PostTimeout`) in two steps.
`StopAndJoin` is called by the destructor of the manager after the worker was
joined, so no timer is started once it has begun.

**HttpServer.** A request begins validated. Waiters are `weak_ptr`s under a key in
the code; the model keeps the set of requests whose entry is in the map. The two
steps of a report and of `NotifyAllWaitersAsStopped` (collect under
`_waitersLock`, then complete each entry) are separate, and so are the steps of
`main`. `LoseFlow` stands for a full factory or an orphaned flow.

**HttpTransport.** An asynchronous operation ends in the kernel and queues its
handler; a free io thread calls the first. `HandleRequest` occupies its thread for
up to `SyncTimeout`. `age` is the time since `expires_after`, which covers the
read, the queueing, the wait and the write of a session. The accept loop is a
handler that tests `_running`, and `DoAccept` tests it again before it calls
`async_accept`. Handlers stay queued over `_ioc.stop()` and `restart()`. Asio is
external: queue order and the abort of a closed acceptor are what the code relies
on.

**ServiceShutdown.** Each flow is at one place (`where`), and `Needs` says which
objects a thread uses there. The handler of a request is under way from the read to
its return (`handling`), past its `SendMsg`: a synchronous one waits and unregisters
its waiter in the server all that time, and holds its io thread. The steps of `main`
are its calls in order, through `~Impl`, `~Cfactory_mgr`, `StopAndJoin` and
`~Cfactory`, down to the members.

**Inputs.** `RequestInput` is `HandleRequest` up to the message: route, method,
JSON kind, session id, wait. A target is a sequence of separators and texts, so
that `QueryHasWaitTrue` is its scan and `WaitsIfAsked` the reference definition (an
item of the query equals `wait=true` or `wait=1`). `CommandLine` is `ParseArgs`
argument by argument, with `strtoul` modelled by what it does to blanks, signs,
wide and negative numbers. `Widths` scales the integer types down and keeps their
order; `ServiceInput` runs both.

## 3. Runs

| Run | Instance | Shows |
|---|---|---|
| `Http` | 2 services, 2 sessions, 3 posts, capacity 2; a worker with 2 starts, or a thread in `PumpOnce` | types; one continuation per flow; events always expected; order of service; completion matches its flow; `Stop` drains; refinement of `FlowService` |
| `OpenApi` | 3 posts of an arbitrary client (events out of turn, unknown service), capacity 1, 2 starts, fair | memory safety, single report, capacity and life cycle do not depend on clients; flows end or are orphaned; `Stop` returns |
| `Pump` | worker, one caller of `Run`, 2 posters, 1 controller, 4 messages, fair | no lost wake-up; no worker replaced; refinement of `MessagePump` |
| `Timers` | 4 timers, 2 starters, ids modulo 3, fair | a cancel hits the timer it is meant for, unless its id was in use before the wrap, and wins; nothing left; refinement of `TimerService`; `StopAndJoin` returns |
| `HttpServer` | 2 synchronous requests and one that is not, 2 io threads, chosen ids collide with generated ones modulo 3, fair | answers are for the right flow; no completion missed; waiters live and woken; the callback never meets a destroyed server; all requests answered; shutdown completes |
| `Shutdown` | 3 flows, 2 io threads, fair | no use after destruction; every FSM destroyed once; nothing left; `main` returns |
| `Transport` | 2 connections, 1 io thread, 2 starts, deadline 3, wait 1, fair | a response is late only if the request was; every client served |
| `Inputs` | command lines of 2 arguments, targets of up to 5 texts, scaled widths | the service runs with usable numbers that `strtoul` reads in the options, or not at all; only a query that asks waits; the session id is the client's |
| `Ids` | 5 flows, ids modulo 3, capacity 4, fair | FSMs that share an id still all end, and the one destroyed is the one reported |
| `TwoDispatchers`, `TimerCancel`, `TwoControllers` | violations | the findings of section 6 |

**Why the bounds are enough.** Flows interact through the queue, the capacity and
ids: three posts let a flow start, end and be followed by one with a fresh id
while another is alive, and with capacity 1 a second request meets a full
factory. Two starts are one restart, and a timer can outlive the first run into
the second. In `Http` either the worker dispatches or the pumper does
(`AloneSpec`), as an application that follows the documentation drives it. Four
messages and two runners put both runners to sleep with a notification for one.
Four timers with ids modulo 3 put two timers under one id. Three requests on two
io threads give a request that waits for a thread, two waiters on one key, and a
late one after `Stop`. One io thread and two connections put a request behind
another's wait, and a deadline of 3 is reached by a slow read followed by two
waits. Five ids modulo 3 give 1, 2, 0, 1, 2: one FSM without an id and two pairs.
What a run does not reach: `OpenApi` has one dispatcher, so the window between report
and reclaim, and a deletion by a second dispatching thread, are met in `TwoDispatchers`
only; the sleep of the pump is in `Pump` only; in `HttpServer` a request exists from the
call of its handler, and the queue for an io thread is in `Transport`.
Deadlock is not checked where the system may stop: the bounds are used up or the
application stopped. `Pump`, `Timers`, `TimerCancel` and `TwoControllers` check it.

Every property of a passing run has a mutant in `PROJECT.json`: an operator that
replaces a definition with the faulty form of a plausible bug. The faulty forms
stand before the definitions they replace and are marked as such. `TypeOK` is run
for `FsmManager`; in the other modules it documents the variables and, where
there are theorems, is part of the inductive invariant.

## 4. Fairness

`FsmManager`: weak fairness of the worker's dispatch or exit (the scheduler runs
it), of the timer threads (a sleep ends) and of `Join` (returns when the thread has
ended). That a wait may be seen as its predicate is not assumed but shown by
`PumpLifecycle`, whose fairness is that awake threads run on: notifiers, runners,
and callers inside `Stop` or `Join`; spurious wake-ups are not fair. `TimerManager`:
each timer thread, a starter inside `StartTimer`, the caller of `StopAndJoin`; from
it TLC shows the fairness `TimerService` states. `HttpServer`: a handler that has
begun (its wait ends with the timeout at the latest), the worker inside a report,
the shutdown of `main`. `HttpTransport`: a free thread calls the first handler, a
handler ends, reads and writes end (deadline), and accept does not fail for ever
(strong fairness of a successful accept). `ServiceShutdown`: every thread runs on,
and a handler returns, at the latest when its wait times out. `FactoryIds`: the
worker and the timers. Nothing is assumed of clients, of signals, or, in
`HttpServer`, of flows ending.

## 5. Theorems

All are checked by `tlapm` and hold for every value of the constants that satisfies
the named assumptions of the modules: any messages of clients, capacity, numbers
of posts, restarts, threads, timers and requests, any id widths, and texts of any
length.

| Theorem | States | Under |
|---|---|---|
| `TypeCorrect` | `[]TypeOK` of `FsmManager` | |
| `CapacityKept` | `[]WithinCapacity` | |
| `StopHasDrained` | `[]StopDrains` | |
| `NoDangling` | `[]NoDanglingFsm` | `SingleDispatcher` |
| `Once` | `[]CompletedOnce` | `SingleDispatcher` |
| `FlowStepsKept` | `FlowSteps` (an action property) | `SingleDispatcher` |
| `CompletionMatches` | `[]CompletionMatchesFlow` | `SingleDispatcher`, `InitOnly` |
| `ManagerIsFlowService` | `ImplementsFlowService` | `SingleDispatcher`, `InitOnly` |
| `ServedInOrderKept` | `[]ServedInOrder` | `SingleDispatcher` |
| `OneContinuationKept`, `EventsAreExpectedKept` | `[]OneContinuation`, `[]EventsAreExpected` | `SingleDispatcher`, `InitOnly` |
| `KillsTheReportedKept`, `AsManyMessagesKept` | `[]KillsTheReported`, `[]AsManyMessagesAsFsms` of `FactoryIds` | |
| `NoLostWakeUp`, `StartedOnceKept` | `[]WakeUpOnItsWay`, `StartedOnce` of `PumpLifecycle` | |
| `StepsOfMessagePump` | the pump implements `MessagePump`, fairness aside | |
| `CancelHasWon`, `NothingIsLeft` | `[]CancelWins`, `[]NothingLeft` of `TimerManager` | |
| `StepsOfTimerService` | the timers implement `TimerService`, fairness aside | |
| `KeyAnswered`, `FlowAnswered` | `[]AnsweredByItsKey`, `[]AnsweredByItsFlow` of `HttpServer` | |
| `CompletionNotMissed`, `WaitersLive`, `StopWakes` | `[]NoMissedCompletion`, `[]WaitersAreLive`, `[]StopWakesWaiters` | |
| `CallbackMeetsServer` | `[]CallbackInLiveServer` | |
| `LateOnlyIfReadLateKept` | `[]LateOnlyIfReadLate` of `HttpTransport` | |
| `NothingUsedAfterDestroy`, `EachDestroyedOnce`, `NothingLeft` | `[]NoUseAfterDestroy`, `[]DestroyedOnce`, `[]NothingLeftBehind` of `ServiceShutdown` | |
| `WaitsIfAskedKept`, `SessionIsTheClientsKept` | `[]WaitsIfAsked`, `[]SessionIsTheClients` of `RequestInput` | |
| `RunsWithWhatWasReadKept` | `[]RunsWithWhatWasRead` of `CommandLine` | |

`SingleDispatcher` (`Pumpers = {}`) is what `main.cpp` does; `TwoDispatchers`
shows that `CompletedOnce` fails without it. `InitOnly` says that clients post only
`MSG_INIT` for new flows, which is all `HttpServer` posts.

**FsmManager.** `TypeOK` is strengthened by `Routable` (a thread that is about to
add an FSM has found its factory; the target of a sleeping timer is an FSM handle)
to make the new handle and the orphan well typed. `CapacityKept` adds finiteness
and rests on `AddFsm` testing and inserting in one critical section.

The flow theorems share `FlowInv`. To know that a report is the first for its
flow, one needs that the reported FSM is still owned (`Alive`), that an owned FSM
was not reported unless the worker is about to reclaim it (`ReportedGone`), and
that a reported id is below the counter so that it is not given again
(`IdsUsed`). `Joinable` keeps `Start` from meeting a worker inside a dispatch;
`KillReported` and `RowFits` carry what earlier steps have read to the steps that
reclaim and set the state. `QuietStep` treats the steps that leave FSMs, ids
and reports alone; `AddKeeps`, `SetStateKeeps`, `ReportKeeps` and `KillKeeps` are
the four that do not.

`CompletionMatches` adds `SessionInv`. A completion event takes its session and
its result from the message being dispatched, not from the FSM, so every message
in the pump, in a sleeping timer or with the worker must carry the session of its
flow (`Carries`). That the result is `SUCCESS` needs that the worker never meets
an FSM that is already in `KILL_FSM` (`KilledIsHeld`: one exists only between the
worker's own `SetState` and `KillFsm`) and that only the rows for `MSG_CLOSE` end a
flow (`RowKnown`).

`ManagerIsFlowService` uses all of these. A flow is open from the `AddFsm` that
creates its FSM to the `Reap` that reports it; `AddOpens` and `ReportEnds` map these
two steps, with the freshness of the id from `IdsUsed`, the room from the capacity
and the event from `SessionInv`; everything else leaves the open flows alone.
`StopHasDrained` needs none of it: an exited worker has left an empty queue that
nothing can enter until `Start`, which has to wait for the join (`DrainInv`).

`ServedInOrderKept` rests on `OrderInv`: the requests that were accepted are those
that were served, then the one the worker has taken, then those in the pump, as
sequences. No row names `MSG_INIT` as its next event, so only clients put requests
into the pump. `Requests` filters the pump by a recursive function; what it gives for
`Append`, `Tail` and the empty pump is proved by induction over the length.

`OneContinuation` counts messages, which is hard to prove about, so its invariant
`ContinuationInv` says the same in pairs: any two places of messages hold events of
different flows, and every live flow that is no orphan has a place (`PlacesInv`). A
place is a position in the pump, a timer, or the worker's hands. `FitInv` says that
the event at a place has a row in the table for the state of its FSM, which gives
`EventsAreExpected` and, with a table in which each state but the last has a row that
names the next event, that a step of the worker moves the one event of a flow on.
`NamesInv` keeps services registered and orphans known.

**FactoryIds.** The invariant `IdsInv` counts: for each id but 0 there are as many
messages in the queue and with timers as FSMs in the list (`Balanced`). Which FSM of
an id a message meets does not matter, because all that are in the list are in
`WORKING` between dispatches (`Working`), where each event under way has a row
(`Expected`). `ObjsInv` says that no FSM is in the list twice, nor when it was
reported, so `KillFsm`, which searches by id, erases the first FSM of that id, the
one that `FindFsm` had found. The counts are taken over positions; `CountAppend` and
`CountWithout` say what `Append`, `Tail` and erasing do to them.

**PumpLifecycle.** `WakeUpOnItsWay` is inductive together with `SleepersInRun` (who
sleeps is in the loop of `Run`) and `WorkerIsJoinable` (`joinable` says whether there
is a worker, whatever `_running` says). The latter is also why `Start` replaces no
worker.

**TimerManager.** Each starter works on an object of its own (`InStartTimer`),
nothing is known of objects not made yet (`OnlyMade`), a running thread can be
joined or is about to be kept (`RunningIsKept`, which is what makes the swap in
`StopAndJoin` complete), and a timer that was cancelled in time has not been read
as active (`Cancelled`). `CancelWins` also speaks of the timer that the caller of
`StopTimer` means, which need not be the one that is found by the id: `StopHits` shows
that they are the same unless an earlier timer had the id before the counter wrapped.

**HttpServer.** `ReportReaches` carries `NoMissedCompletion` over a report: once the
entries are collected the one of the reported flow is among them, because a
request registers before it sends (`SleeperIsKnown`, `FlowAfterSend`) and the worker
reports one flow at a time (`OneReport`). `NotifiedByKey` and `EntryByKey` carry the
key from the event to the entry to the answer; sessions are written before
anything refers to the request.

**HttpTransport.** `LateOnlyIfReadLate` is about time, so its invariant has to bound the
waits still ahead of a request that was read early. `QueueInv`: the queue of the io
context holds the sessions whose handler is to be called, each once. `InTime`: the
deadline leaves room for some full turns of the io threads, for what is left of the turn
that has begun, and for the request's own wait; and the requests that must be handled
before it (`Ahead`) or may still hold a thread when that turn is over (`Slow`) are
fewer than the threads serve in these turns. Time passes only while every thread waits
or the queue is empty. `TimeShortensWaits` takes a tick off the begun turn, and when
that is over all threads start on the next; a handler that is called moves a request
from `Ahead` to `Slow` (`HandlingInTime`). When a request is read, the turns that
`LeavesTimeForWaits` counts are enough for all connections (`TurnsTakeAll`). `Fresh` and
`NotBegun` say that a session carries nothing from before it was read. Two accept loops
after a second `Start` are outside the property. The queue mixes sessions with the
numbers of accept loops, so `TransportAssumption` has the two differ.

**ServiceShutdown.** What is alive follows from how far `main` has come
(`AliveUntil`), and each stage rests on the one before: no handler after the io
threads are joined, whether it has sent its message or not (`NoRequestLeft`),
nothing queued after the worker is joined because the manager refuses messages
(`WorkerDone`), no timer thread after `StopAndJoin` because no worker is left to
start one (`TimersDone`). `OneLife` follows the FSM of a flow.

**Inputs.** `WaitsIfAsked` and `SessionIsTheClients` are inductive as they stand: a
request is handled in one step, so the work is in what the helpers compute. The scan
of `QueryHasWaitTrue` is a recursive function. `ScanExists` gives a function that
satisfies its equation, the one that says from each position whether an item asks
to wait (`Asked`), and `ScanUnique` shows that there is no other; `QueryAsks` carries
`Asked` from the query to the target. `RunsWithWhatWasRead` needs `ArgsInv`, in which the
options fit the arguments after each of them (`ReadKeeps`, with `LastOfAppend`), and
that the range test and the cast keep what `strtoul` returns, and what relation that
has to the number in the text (`ParsedIsRead`): it is that number, or one that wrapped
from far below 0, or, where `unsigned long` is as wide as `unsigned int`, its largest
value. The theorem holds for both widths, so for Windows as well. The digits must have
a value, so `SpanBound` and `ValueNat` show that the recursions of `Span` and `Value`
have a function and stay in range.

**Induction.** The library's induction theorems take an operator and cannot be
used. `NatLeast` takes a set of naturals instead and rests on the well-foundedness of
finite subsets; `SetInduction` and the lemmas about sequences follow from it. Of
`FsmManagerProofs`, `FactoryIdsProofs` and `InputProofs` each states those it needs.

The invariants of the concurrent modules were checked with TLC on the instances of
section 3 before they were proved.

Model-checked only: liveness and the fairness of the refinements, which are beyond the
prover because they depend on `ENABLED`.

## 6. Findings

- `TwoDispatchers`: the pump is called thread-safe with `PumpOnce` and `Run`
  (`README_en.md:17`). With both at work two threads dispatch to one FSM, and the
  state test after `ProcessMsg` (`Cfactory.cpp:138`) reports it twice.
- `TimerCancel`: `StopTimer` answers `SUCCESS` and the message is posted all the
  same, when the timer thread has already read its flag (`TimerManager.cpp:41`,
  against `Cfactory_mgr.h:99`).
- `TwoControllers`: `Stop` and `Join` are called thread-safe (`README_en.md:17`). Two
  threads in them both find the worker joinable and both join it
  (`Cfactory_mgr.cpp:183`).

## 7. Observations

Met while modelling, and not the subject of a run of their own:

- The registration timer is 100 ms (`RegFsm.cpp:41`), the documents say 10 ms
  (`README_en.md:107`, `design_en.md:301`).
- An FSM whose id wrapped to 0 never ends: its continuation is addressed to "no
  FSM" (`Cfactory.cpp:80`, `97`). `EveryFsmEnds` excludes it.
- The aborted accept of a server that is stopped and started again runs in the new
  io context, finds `_running` set and goes on: there are two accept loops. Every
  client is still served (`EveryClientServed`), and nothing in the repository promises
  one loop, so no property flags the second.
- One 30 s deadline covers read, queueing, wait and response, so with a large
  `--sync-timeout-ms` a response may be lost (`LateOnlyIfReadLate` says when not).
- An option is not always used as it was written or refused (`main.cpp:52`): `strtoul`
  wraps a negative number without a report, so with a 64 bit `unsigned long`
  `--port=-18446744073709551615` runs on port 1. Where `unsigned long` has 32 bits, as
  on the Windows that the documents name, `--port=-4294967295` does, and a
  `--sync-timeout-ms` that is too large is accepted as the largest `unsigned int`.
  `IsReadIn` names these cases, and `RunsWithWhatWasRead` is true with them.

## 8. Not modelled

The deferred queues of `Cfsm` (no FSM uses them, and each is one end of a private
deque). `Logger`: output under one mutex that no other lock is taken in. Tests and
benchmark: the ways they drive the framework are instances. JSON texts of
answers. Message payloads: nothing reads them. Delays: a timer may expire at any
time. A refused factory is owned by nobody (`Cfactory_mgr.cpp:41`), a leak that no
state depends on. The growth of `_timer_list` and `_timer_threads`. The exits of
`main` before the server exists. Data races inside Asio: `Stop` closes the acceptor
while an io thread may be about to use it; the order of the two is modelled.

## 9. Plan

1. Done: all modules of section 2; theorems of section 5, among them every safety
   property that a passing run checks.
2. Next: `FlowService` as the manager that `HttpServer` composes with.
