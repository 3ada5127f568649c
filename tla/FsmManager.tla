----------------------------- MODULE FsmManager -----------------------------
(***************************************************************************)
(* The core of the framework: Cfactory_mgr (message pump, worker thread,   *)
(* dispatch, completion events), Cfactory (find, create, dispatch to and   *)
(* reclaim FSMs) and the table-driven FSMs that post their own next event. *)
(*                                                                         *)
(* Threads.  Worker is the thread Start creates; it runs Run().  Pumpers   *)
(* are application threads that call PumpOnce or RunUntilEmpty.  One more  *)
(* application thread registers factories and calls Start and Stop, any    *)
(* number of clients call SendMsg, and every timer is a thread of its own. *)
(*                                                                         *)
(* A critical section of _pump_lock, _fac_lock or _fsm_lock is one step;   *)
(* what a thread does between two of them is one step too, so a dispatch   *)
(* is Pop, FindFsm, (AddFsm,) Execute, (SetState, (Post,)) Reap, (KillFsm).*)
(*                                                                         *)
(* FSM ids and timer ids are naturals here: their 32-bit wrap needs 2^32   *)
(* flows and is left out.  A timer expires at any time after it is started *)
(* (delays are not compared).  Nothing here cancels a timer: no FSM calls  *)
(* StopTimer.                                                              *)
(***************************************************************************)
EXTENDS FsmTables, Integers, Sequences, FiniteSets

CONSTANTS
    Worker,              \* the worker thread
    Pumpers,             \* application threads that call PumpOnce
    ClientMsgs,          \* the messages clients may post
    FSM_NUM_IN_FAC,      \* common.h: FSMs one factory may hold
    FAC_NUM_IN_MGR_MAX,  \* common.h: factories one manager may hold
    MaxPosts,            \* bound: messages clients post
    MaxStarts            \* bound: calls of Start that succeed

ASSUME ThreadAssumption == Worker \notin Pumpers
ASSUME ClientAssumption == ClientMsgs \subseteq CMsg
ASSUME LimitAssumption  == FSM_NUM_IN_FAC \in Nat /\ FAC_NUM_IN_MGR_MAX \in Nat
ASSUME BoundAssumption  == MaxPosts \in Nat /\ MaxStarts \in Nat

Threads == {Worker} \cup Pumpers

VARIABLES
    \* Cfactory_mgr
    pump,         \* _pump
    stopped,      \* _stopped
    running,      \* _running
    joinable,     \* _worker_thread.joinable()
    app,          \* the controlling thread: "ready", or "joining" inside Stop
    registered,   \* _fac_list: the ids of the registered factories
    \* Cfactory and Cfsm
    fsms,         \* _fsm_list of every factory: <<serviceId, fsmId>> -> _state
    nextFsmId,    \* _nextFsmId of every factory
    \* TimerManager
    timers,       \* the timers that have not expired
    nextTimerId,  \* _next_timer_id
    \* the dispatching threads
    pc,           \* where the thread is in its dispatch
    cur,          \* the message it dispatches
    row,          \* the transition it executes
    ret,          \* what ProcessMsg returned
    \* history
    accepted,     \* messages SendMsg accepted from clients
    served,       \* MSG_INITs that were given an FSM or refused one
    sessionOf,    \* the session of the MSG_INIT that created an FSM
    completions,  \* events given to the completion callback
    orphans,      \* FSMs whose next event a stopped pump rejected
    starts        \* calls of Start that succeeded

mgrVars    == <<stopped, running, joinable, app, starts>>
facVars    == <<fsms, nextFsmId>>
timerVars  == <<timers, nextTimerId>>
threadVars == <<pc, cur, row, ret>>
histVars   == <<accepted, served, sessionOf, completions, orphans>>
vars == <<pump, registered, mgrVars, facVars, timerVars, threadVars, histVars>>

PC == {"none", "idle", "find", "add", "execute", "transit", "post", "reap", "kill", "exited"}
FsmHandle == FactoryId \X (Nat \ {0})
Timer == [id : Nat \ {0}, msg : CMsg]
FsmCompletionEvent ==
    [serviceId : FactoryId, fsmId : Nat, sessionId : Nat, result : EerrNo, finalEvent : MsgType]

NoMsg == [type |-> "MSG_INIT", serviceId |-> 0, fsmId |-> 0, sessionId |-> 0]
NoRow == Row("IDLE", "MSG_INIT", "IDLE", FALSE, "MSG_INIT", 0)

\* The FSM a message is for, and the FSM a thread works on.
Target(m) == <<m.serviceId, m.fsmId>>
Held(t)   == Target(cur[t])

IsInit(m) == m.type = "MSG_INIT"
-----------------------------------------------------------------------------
TypeOK ==
    /\ pump \in Seq(CMsg)
    /\ stopped \in BOOLEAN /\ running \in BOOLEAN /\ joinable \in BOOLEAN
    /\ app \in {"ready", "joining"}
    /\ registered \subseteq FactoryId
    /\ DOMAIN fsms \subseteq FsmHandle
    /\ fsms \in [DOMAIN fsms -> Tstate]
    /\ nextFsmId \in [FactoryId -> Nat \ {0}]
    /\ timers \subseteq Timer
    /\ nextTimerId \in Nat \ {0}
    /\ pc \in [Threads -> PC]
    /\ cur \in [Threads -> CMsg]
    /\ row \in [Threads -> RegTransitions \cup AuthTransitions \cup {NoRow}]
    /\ ret \in [Threads -> EerrNo]
    /\ accepted \in Seq(CMsg)
    /\ served \in Seq(CMsg)
    /\ DOMAIN sessionOf \subseteq FsmHandle
    /\ sessionOf \in [DOMAIN sessionOf -> Nat]
    /\ completions \in Seq(FsmCompletionEvent)
    /\ orphans \subseteq FsmHandle
    /\ starts \in Nat

\* Faulty variant, for the mutation checks: ids count from 0.
FirstFsmIdZero == 0

FirstFsmId == 1

Init ==
    /\ pump = <<>>
    /\ stopped = FALSE /\ running = FALSE /\ joinable = FALSE
    /\ app = "ready"
    /\ registered = {}
    /\ fsms = [h \in {} |-> "IDLE"]
    /\ nextFsmId = [s \in FactoryId |-> FirstFsmId]
    /\ timers = {}
    /\ nextTimerId = 1
    /\ pc = [t \in Threads |-> IF t = Worker THEN "none" ELSE "idle"]
    /\ cur = [t \in Threads |-> NoMsg]
    /\ row = [t \in Threads |-> NoRow]
    /\ ret = [t \in Threads |-> "INIT"]
    /\ accepted = <<>> /\ served = <<>>
    /\ sessionOf = [h \in {} |-> 0]
    /\ completions = <<>>
    /\ orphans = {}
    /\ starts = 0
-----------------------------------------------------------------------------
(* The application: registration, posting, starting and stopping.          *)

\* A call that returns ERROR (manager full, duplicated id) changes nothing.
RegisterFactory(id) ==
    /\ Cardinality(registered) < FAC_NUM_IN_MGR_MAX
    /\ id \notin registered
    /\ registered' = registered \cup {id}
    /\ UNCHANGED <<pump, mgrVars, facVars, timerVars, threadVars, histVars>>

\* Faulty variant: the message goes to the front.
SendMsgFirst(m) == ~stopped /\ pump' = <<m>> \o pump

\* Cfactory_mgr::SendMsg accepts m; a stopped pump returns INVALID_STATE and
\* changes nothing.
SendMsg(m) ==
    /\ ~stopped
    /\ pump' = Append(pump, m)

ClientSend(m) ==
    /\ Len(accepted) < MaxPosts
    /\ SendMsg(m)
    /\ accepted' = Append(accepted, m)
    /\ UNCHANGED <<registered, mgrVars, facVars, timerVars, threadVars,
                   served, sessionOf, completions, orphans>>

\* Faulty variant: Start begins with an empty queue.
StartClearsPump ==
    /\ app = "ready" /\ starts < MaxStarts
    /\ ~running /\ ~joinable
    /\ stopped' = FALSE /\ running' = TRUE /\ joinable' = TRUE
    /\ starts' = starts + 1
    /\ pump' = <<>>
    /\ pc' = [pc EXCEPT ![Worker] = "idle"]
    /\ UNCHANGED <<app, registered, facVars, timerVars, cur, row, ret, histVars>>

Start ==
    /\ app = "ready" /\ starts < MaxStarts
    /\ ~running /\ ~joinable
    /\ stopped' = FALSE /\ running' = TRUE /\ joinable' = TRUE
    /\ starts' = starts + 1
    /\ pc' = [pc EXCEPT ![Worker] = "idle"]
    /\ UNCHANGED <<pump, app, registered, facVars, timerVars, cur, row, ret, histVars>>

\* Stop up to the join.  Without a worker it returns at once.
Stop ==
    /\ app = "ready"
    /\ stopped' = TRUE
    /\ app' = IF joinable THEN "joining" ELSE "ready"
    /\ UNCHANGED <<pump, running, joinable, starts, registered, facVars, timerVars,
                   threadVars, histVars>>

Join ==
    /\ app = "joining" /\ pc[Worker] = "exited"
    /\ joinable' = FALSE
    /\ app' = "ready"
    /\ pc' = [pc EXCEPT ![Worker] = "none"]
    /\ UNCHANGED <<pump, stopped, running, starts, registered, facVars, timerVars,
                   cur, row, ret, histVars>>
-----------------------------------------------------------------------------
(* One dispatch: Run or PumpOnce, DispatchMsg, FacMsgPrc, DispatchToFsm.   *)

\* The dispatch of t is over.
Return(t) ==
    /\ pc'  = [pc EXCEPT ![t] = "idle"]
    /\ cur' = [cur EXCEPT ![t] = NoMsg]
    /\ row' = [row EXCEPT ![t] = NoRow]
    /\ ret' = [ret EXCEPT ![t] = "INIT"]

Goto(t, label) == pc' = [pc EXCEPT ![t] = label]

\* The loop of Run and the body of PumpOnce: take the front message, then
\* dispatch it without the lock.
Pop(t) ==
    /\ pc[t] = "idle" /\ pump # <<>>
    /\ pump' = Tail(pump)
    /\ cur' = [cur EXCEPT ![t] = Head(pump)]
    /\ Goto(t, "find")
    /\ UNCHANGED <<registered, mgrVars, facVars, timerVars, row, ret, histVars>>

\* Faulty variants: the loop ends at once on Stop; Stop does not end the wait.
DrainedIgnoresPump == stopped
DrainedIgnoresStop == FALSE

Drained == stopped /\ pump = <<>>

\* Run leaves its loop and clears _running.  Nobody can observe the two apart:
\* Start refuses while the thread is joinable.
WorkerExits ==
    /\ pc[Worker] = "idle" /\ Drained
    /\ running' = FALSE
    /\ Goto(Worker, "exited")
    /\ UNCHANGED <<pump, stopped, joinable, app, starts, registered, facVars, timerVars,
                   cur, row, ret, histVars>>

\* Faulty variant: the id is trusted.
FsmFoundUnchecked(m) == m.fsmId # 0

\* FindFactory, then FindFsm.  The factory of a message whose FSM is missing
\* creates one for MSG_INIT and drops every other message.
Routed(m)    == m.serviceId \in registered
FsmFound(m)  == m.fsmId # 0 /\ Target(m) \in DOMAIN fsms
Refuse(t)    ==
    /\ served' = IF IsInit(cur[t]) THEN Append(served, cur[t]) ELSE served
    /\ Return(t)

FindFsm(t) ==
    /\ pc[t] = "find"
    /\ \/ /\ Routed(cur[t]) /\ FsmFound(cur[t])
          /\ Goto(t, "execute")
          /\ served' = IF IsInit(cur[t]) THEN Append(served, cur[t]) ELSE served
          /\ UNCHANGED <<cur, row, ret>>
       \/ /\ Routed(cur[t]) /\ ~FsmFound(cur[t]) /\ IsInit(cur[t])
          /\ Goto(t, "add")
          /\ UNCHANGED <<cur, row, ret, served>>
       \/ /\ ~Routed(cur[t]) \/ (~FsmFound(cur[t]) /\ ~IsInit(cur[t]))
          /\ Refuse(t)
    /\ UNCHANGED <<pump, registered, mgrVars, facVars, timerVars,
                   accepted, sessionOf, completions, orphans>>

\* The FSMs of one factory.
FsmList(s)   == {h \in DOMAIN fsms : h[1] = s}

\* Faulty variants: one FSM too many; ids from the size of the list.
FactoryFullLate(s) == Cardinality(FsmList(s)) > FSM_NUM_IN_FAC
NewFsmIdFromSize(s) == Cardinality(FsmList(s)) + 1

FactoryFull(s) == Cardinality(FsmList(s)) >= FSM_NUM_IN_FAC
NewFsmId(s)    == nextFsmId[s]

\* A full factory returns ERROR and the MSG_INIT is lost.
AddFsm(t) ==
    LET s == cur[t].serviceId
        h == <<s, NewFsmId(s)>>
    IN  /\ pc[t] = "add"
        /\ \/ /\ FactoryFull(s)
              /\ Refuse(t)
              /\ UNCHANGED <<facVars, sessionOf>>
           \/ /\ ~FactoryFull(s)
              /\ fsms' = [x \in DOMAIN fsms \cup {h} |-> IF x = h THEN "IDLE" ELSE fsms[x]]
              /\ nextFsmId' = [nextFsmId EXCEPT ![s] = @ + 1]
              /\ cur' = [cur EXCEPT ![t].fsmId = NewFsmId(s)]
              /\ served' = Append(served, cur[t])
              /\ sessionOf' = [x \in DOMAIN sessionOf \cup {h} |->
                                  IF x = h THEN cur[t].sessionId ELSE sessionOf[x]]
              /\ Goto(t, "execute")
              /\ UNCHANGED <<row, ret>>
        /\ UNCHANGED <<pump, registered, mgrVars, timerVars, accepted, completions, orphans>>

\* ExecuteFsmTransition looks the transition up.  An FSM in KILL_FSM answers
\* INVALID_STATE, an event without a transition INVALID_MSG.  A thread whose
\* FSM is gone has no defined step (NoDanglingFsm).
TransitionsFor(t) ==
    FindFsmTransition(Transitions(cur[t].serviceId), fsms[Held(t)], cur[t].type)

Execute(t) ==
    /\ pc[t] = "execute" /\ Held(t) \in DOMAIN fsms
    /\ \/ /\ fsms[Held(t)] = "KILL_FSM"
          /\ ret' = [ret EXCEPT ![t] = "INVALID_STATE"]
          /\ Goto(t, "reap")
          /\ UNCHANGED row
       \/ /\ fsms[Held(t)] # "KILL_FSM" /\ TransitionsFor(t) = {}
          /\ ret' = [ret EXCEPT ![t] = "INVALID_MSG"]
          /\ Goto(t, "reap")
          /\ UNCHANGED row
       \/ /\ fsms[Held(t)] # "KILL_FSM"
          /\ \E r \in TransitionsFor(t) : row' = [row EXCEPT ![t] = r]
          /\ Goto(t, "transit")
          /\ UNCHANGED ret
    /\ UNCHANGED <<pump, registered, mgrVars, facVars, timerVars, cur, histVars>>

\* RunAction and SetState (whose hooks are empty).  Without a next event the
\* transition is over.
SetState(t) ==
    /\ pc[t] = "transit" /\ Held(t) \in DOMAIN fsms
    /\ fsms' = [fsms EXCEPT ![Held(t)] = row[t].to]
    /\ ret' = [ret EXCEPT ![t] = "SUCCESS"]
    /\ Goto(t, IF row[t].hasNext THEN "post" ELSE "reap")
    /\ UNCHANGED <<pump, registered, mgrVars, nextFsmId, timerVars, cur, row, histVars>>

\* Faulty variants: the next message is not copied from the current one; it is
\* not addressed.
NextMsgNoSession(t)   == [cur[t] EXCEPT !.type = row[t].nextEvent, !.sessionId = 0]
NextMsgUnaddressed(t) == [cur[t] EXCEPT !.type = row[t].nextEvent, !.fsmId = 0]

\* PostNextEvent: the message with the next event, posted to the pump or
\* given to a timer.  A stopped pump rejects it; nobody posts it again.
NextMsg(t) == [cur[t] EXCEPT !.type = row[t].nextEvent]

Post(t) ==
    /\ pc[t] = "post" /\ Held(t) \in DOMAIN fsms
    /\ \/ /\ row[t].delayMs = 0
          /\ SendMsg(NextMsg(t))
          /\ UNCHANGED <<timerVars, ret, orphans>>
       \/ /\ row[t].delayMs = 0 /\ stopped
          /\ ret' = [ret EXCEPT ![t] = "INVALID_STATE"]
          /\ orphans' = orphans \cup {Held(t)}
          /\ UNCHANGED <<pump, timerVars>>
       \/ /\ row[t].delayMs > 0
          /\ timers' = timers \cup {[id |-> nextTimerId, msg |-> NextMsg(t)]}
          /\ nextTimerId' = nextTimerId + 1
          /\ UNCHANGED <<pump, ret, orphans>>
    /\ Goto(t, "reap")
    /\ UNCHANGED <<registered, mgrVars, facVars, cur, row, accepted, served, sessionOf, completions>>

\* The end of DispatchToFsm: a finished FSM is reported to the completion
\* callback, then reclaimed.
CompletionEvent(t) ==
    [serviceId |-> cur[t].serviceId, fsmId |-> cur[t].fsmId, sessionId |-> cur[t].sessionId,
     result |-> ret[t], finalEvent |-> cur[t].type]

Reap(t) ==
    /\ pc[t] = "reap" /\ Held(t) \in DOMAIN fsms
    /\ \/ /\ fsms[Held(t)] # "KILL_FSM"
          /\ Return(t)
          /\ UNCHANGED completions
       \/ /\ fsms[Held(t)] = "KILL_FSM"
          /\ completions' = Append(completions, CompletionEvent(t))
          /\ Goto(t, "kill")
          /\ UNCHANGED <<cur, row, ret>>
    /\ UNCHANGED <<pump, registered, mgrVars, facVars, timerVars,
                   accepted, served, sessionOf, orphans>>

\* Faulty variant: nothing is erased.
EraseNothing(h) == fsms

Erase(h) == [g \in DOMAIN fsms \ {h} |-> fsms[g]]

KillFsm(t) ==
    /\ pc[t] = "kill"
    /\ fsms' = Erase(Held(t))
    /\ Return(t)
    /\ UNCHANGED <<pump, registered, mgrVars, nextFsmId, timerVars, histVars>>

\* A timer thread wakes up and calls SendMsg through its callback.
TimerFires(tm) ==
    /\ timers' = timers \ {tm}
    /\ \/ /\ SendMsg(tm.msg)
          /\ UNCHANGED orphans
       \/ /\ stopped
          /\ orphans' = orphans \cup {Target(tm.msg)}
          /\ UNCHANGED pump
    /\ UNCHANGED <<registered, mgrVars, facVars, nextTimerId, threadVars,
                   accepted, served, sessionOf, completions>>
-----------------------------------------------------------------------------
Dispatch(t) ==
    \/ Pop(t) \/ FindFsm(t) \/ AddFsm(t) \/ Execute(t) \/ SetState(t)
    \/ Post(t) \/ Reap(t) \/ KillFsm(t)

Next ==
    \/ \E id \in FactoryId : RegisterFactory(id)
    \/ \E m \in ClientMsgs : ClientSend(m)
    \/ Start \/ Stop \/ Join \/ WorkerExits
    \/ \E t \in Threads : Dispatch(t)
    \/ \E tm \in timers : TimerFires(tm)

Spec == Init /\ [][Next]_vars
-----------------------------------------------------------------------------
(* Safety.                                                                 *)

\* What main and the HTTP server use: clients post MSG_INIT with fsmId 0 and
\* one thread dispatches.
InitOnly == \A m \in ClientMsgs : IsInit(m) /\ m.fsmId = 0
SingleDispatcher == Pumpers = {}

\* A thread that works on an FSM (between FindFsm or AddFsm and KillFsm it
\* holds only a raw pointer, no lock) works on one its factory still owns.
NoDanglingFsm ==
    \A t \in Threads :
        pc[t] \in {"execute", "transit", "post", "reap", "kill"} => Held(t) \in DOMAIN fsms

\* The completion callback hears of a flow at most once, although the report
\* and the reclaim are two steps and a terminal FSM can still be found between.
CompletedOnce ==
    \A i, j \in 1..Len(completions) :
        Target(completions[i]) = Target(completions[j]) => i = j

\* A completion event names the session whose MSG_INIT opened the flow, five or
\* six messages and one timer earlier, and reports success: this is the key the
\* HTTP server looks its waiters up with, and the result it answers.
CompletionMatchesFlow ==
    \A i \in 1..Len(completions) :
        LET e == completions[i]
        IN  /\ Target(e) \in DOMAIN sessionOf
            /\ e.sessionId = sessionOf[Target(e)]
            /\ e.result = "SUCCESS" /\ e.finalEvent = "MSG_CLOSE"

\* A factory never holds more than FSM_NUM_IN_FAC FSMs, orphans and terminal
\* FSMs that are not reclaimed yet included.
WithinCapacity == \A s \in FactoryId : Cardinality(FsmList(s)) <= FSM_NUM_IN_FAC

\* The places where a message for FSM h, or the duty to post one, can be: the
\* pump, a timer, or a thread that has not come to the end of the transition.
Places(h) ==
    {<<"pump", i>> : i \in {j \in 1..Len(pump) : Target(pump[j]) = h}}
      \cup {<<"timer", tm.id>> : tm \in {x \in timers : Target(x.msg) = h}}
      \cup {<<"thread", t>> : t \in {u \in Threads :
                                  pc[u] \in {"find", "execute", "transit", "post"} /\ Held(u) = h}}

\* Every live flow that can still end has one event on its way, never two; a
\* flow without one is an orphan of Stop or is being reclaimed.  With two events
\* the second would meet a reclaimed FSM, with none the FSM keeps its slot.
OneContinuation ==
    \A h \in DOMAIN fsms :
        /\ \A p, q \in Places(h) : p = q
        /\ (Places(h) # {}) <=> (fsms[h] # "KILL_FSM" /\ h \notin orphans)

\* The messages that are posted and not yet dispatched to an FSM.
InFlight ==
    {pump[i] : i \in 1..Len(pump)} \cup {tm.msg : tm \in timers}
      \cup {cur[t] : t \in {u \in Threads : pc[u] = "find"}}

\* A self-posted event finds its FSM alive, in a state that has a transition
\* for it: with well-behaved clients nothing is ever dropped as INVALID_MSG.
EventsAreExpected ==
    \A m \in InFlight :
        ~IsInit(m) =>
            /\ Target(m) \in DOMAIN fsms
            /\ FindFsmTransition(Transitions(m.serviceId), fsms[Target(m)], m.type) # {}

\* The requests of a sequence of messages, in order.
Requests(s) ==
    LET inits[n \in 0..Len(s)] ==
            IF n = 0 THEN <<>>
            ELSE IF IsInit(s[n]) THEN Append(inits[n - 1], s[n])
            ELSE inits[n - 1]
    IN  inits[Len(s)]

\* What the dispatcher is about to serve, and what is still in the pump.
Serving == {t \in Threads : pc[t] \in {"find", "add"} /\ IsInit(cur[t])}
PendingInits ==
    (IF Serving = {} THEN <<>> ELSE <<cur[CHOOSE t \in Serving : TRUE]>>) \o Requests(pump)

\* Requests are served in the order SendMsg accepted them, none lost, none
\* twice: what was accepted is what was served, what the dispatcher is about to
\* serve and what is still in the pump, although events of running flows and of
\* timers travel through the same queue.
ServedInOrder == Requests(accepted) = served \o PendingInits

\* Stop processes what was queued: once it has joined a worker, and until the
\* next Start, nothing is left in the pump and no dispatch is under way.
StopDrains ==
    (stopped /\ ~joinable /\ starts > 0) => (pump = <<>> /\ pc[Worker] = "none")

\* An FSM leaves its factory only in KILL_FSM and after its completion was
\* reported; the state never goes back; ids are not given twice.
FlowStep ==
    /\ \A h \in DOMAIN fsms \ DOMAIN fsms' :
          /\ fsms[h] = "KILL_FSM"
          /\ \E i \in 1..Len(completions) : Target(completions[i]) = h
    /\ \A h \in DOMAIN fsms \cap DOMAIN fsms' :
          /\ fsms[h] = "WORKING" => fsms'[h] # "IDLE"
          /\ fsms[h] = "KILL_FSM" => fsms'[h] = "KILL_FSM"
    /\ \A h \in DOMAIN fsms' \ DOMAIN fsms : h \notin DOMAIN sessionOf

FlowSteps == [][FlowStep]_vars
-----------------------------------------------------------------------------
(* Refinement.  A flow is open from AddFsm to its completion event.          *)

OpenFlows ==
    {h \in DOMAIN fsms : \A i \in 1..Len(completions) : Target(completions[i]) # h}

Service == INSTANCE FlowService WITH
    Capacity <- FSM_NUM_IN_FAC,
    flows    <- [h \in OpenFlows |-> sessionOf[h]],
    ended    <- completions

\* With clients as the HTTP server (InitOnly) and a single dispatcher, pump,
\* worker, factories, FSMs and timers together behave as a flow service: no
\* interleaving of Stop, timers and posts makes a flow end twice, under
\* another session, or open under an id that was used before.
ImplementsFlowService == Service!Spec
-----------------------------------------------------------------------------
(* Liveness.  The worker is a thread the scheduler keeps running; its wait   *)
(* ends when the pump is not empty or stopped (every writer notifies), and   *)
(* no lock is held across a step, so weak fairness is enough.  A sleeping    *)
(* timer thread wakes up.  Nothing is assumed of clients and the application *)
(* except that join returns when the thread has ended.                       *)

Fairness ==
    /\ WF_vars(Dispatch(Worker) \/ WorkerExits)
    /\ WF_vars(\E tm \in timers : TimerFires(tm))
    /\ WF_vars(Join)

FairSpec == Spec /\ Fairness

\* Every flow that was opened ends, or loses its next event to a stopped pump.
EveryFlowEnds ==
    \A h \in FactoryId \X (1..MaxPosts) :
        h \in DOMAIN fsms ~> (h \notin DOMAIN fsms \/ h \in orphans)

\* Stop returns, however many flows are under way: their events are rejected, so
\* the queue drains.
StopReturns == (app = "joining") ~> (app = "ready")
=============================================================================
