---------------------------- MODULE PumpLifecycle ----------------------------
(***************************************************************************)
(* The pump of Cfactory_mgr down to its condition variable: who sleeps on  *)
(* _pump_cv, who is still to notify it after having changed the queue or   *)
(* the stop flag, and the life of the worker thread under Start, Stop and  *)
(* Join.  FsmManager replaces all of it by the predicate of the wait; this *)
(* module shows that it may (ImplementsMessagePump).                       *)
(*                                                                         *)
(* A critical section of _pump_lock is a step; wait() gives the lock up and*)
(* sleeps in one.  Messages are counted, FsmManager keeps their order.     *)
(***************************************************************************)
EXTENDS Naturals

CONSTANTS
    Worker,       \* the thread Start creates
    Callers,      \* application threads that call Run themselves
    Posters,      \* clients and timer threads, which call SendMsg
    Controllers,  \* threads that call Start, Stop and Join
    MaxPosts      \* bound: messages accepted

ASSUME PumpAssumption == Worker \notin Callers /\ MaxPosts \in Nat

Runners == {Worker} \cup Callers

VARIABLES
    pump,       \* _pump: how many messages are queued
    stopped,    \* _stopped
    running,    \* _running
    joinable,   \* _worker_thread.joinable()
    phase,      \* phase[r]: where runner r is in Run
    asleep,     \* the runners that sleep on _pump_cv
    clearing,   \* those that left the loop and have not cleared _running
    notifying,  \* threads in SendMsg, between the push and notify_one
    control,    \* control[c]: where controller c is in Stop or Join
    posts       \* messages accepted so far

callVars == <<running, joinable, control>>
runVars  == <<phase, asleep, clearing>>
vars == <<pump, stopped, callVars, runVars, notifying, posts>>

TypeOK ==
    /\ pump \in 0..posts /\ posts \in 0..MaxPosts
    /\ stopped \in BOOLEAN /\ running \in BOOLEAN /\ joinable \in BOOLEAN
    /\ phase \in [Runners -> {"none", "loop", "dispatch", "exited"}]
    /\ asleep \subseteq Runners /\ clearing \subseteq Runners
    /\ notifying \subseteq Posters \cup Runners
    /\ control \in [Controllers -> {"out", "notify", "test", "join"}]

Init ==
    /\ pump = 0 /\ posts = 0
    /\ stopped = FALSE /\ running = FALSE /\ joinable = FALSE
    /\ phase = [r \in Runners |-> "none"]
    /\ asleep = {} /\ clearing = {} /\ notifying = {}
    /\ control = [c \in Controllers |-> "out"]
-----------------------------------------------------------------------------
(* SendMsg, by a client, a timer thread, or an FSM inside a dispatch.       *)

MayPost(t) == t \in Posters \/ (t \in Runners /\ phase[t] = "dispatch")

Push(t) ==
    /\ MayPost(t) /\ t \notin notifying
    /\ ~stopped /\ posts < MaxPosts
    /\ pump' = pump + 1 /\ posts' = posts + 1
    /\ notifying' = notifying \cup {t}
    /\ UNCHANGED <<stopped, callVars, runVars>>

\* Faulty variant: nobody is notified.
NotifyNobody(t) == UNCHANGED asleep

\* notify_one: some sleeper wakes up, if there is one.
Notify(t) ==
    IF asleep = {} THEN UNCHANGED asleep ELSE \E r \in asleep : asleep' = asleep \ {r}

NotifyOne(t) ==
    /\ t \in notifying
    /\ Notify(t)
    /\ notifying' = notifying \ {t}
    /\ UNCHANGED <<pump, stopped, callVars, phase, clearing, posts>>

HasMessage == pump > 0

\* PumpOnce and RunUntilEmpty of a thread that never sleeps.
PumpOnce ==
    /\ HasMessage
    /\ pump' = pump - 1
    /\ UNCHANGED <<stopped, callVars, runVars, notifying, posts>>
-----------------------------------------------------------------------------
(* Run.                                                                     *)

InLoop(r) == phase[r] = "loop" /\ r \notin asleep

\* The predicate of the wait is false: sleep, giving up the lock.
Sleep(r) ==
    /\ InLoop(r)
    /\ ~stopped /\ pump = 0
    /\ asleep' = asleep \cup {r}
    /\ UNCHANGED <<pump, stopped, callVars, phase, clearing, notifying, posts>>

\* A sleeper may wake up without a notification; wait() tests again.
WakeSpuriously(r) ==
    /\ r \in asleep
    /\ asleep' = asleep \ {r}
    /\ UNCHANGED <<pump, stopped, callVars, phase, clearing, notifying, posts>>

Take(r) ==
    /\ InLoop(r) /\ pump > 0
    /\ pump' = pump - 1
    /\ phase' = [phase EXCEPT ![r] = "dispatch"]
    /\ UNCHANGED <<stopped, callVars, asleep, clearing, notifying, posts>>

Finish(r) ==
    /\ phase[r] = "dispatch" /\ r \notin notifying
    /\ phase' = [phase EXCEPT ![r] = "loop"]
    /\ UNCHANGED <<pump, stopped, callVars, asleep, clearing, notifying, posts>>

MayLeave(r) == stopped /\ pump = 0

Leave(r) ==
    /\ InLoop(r) /\ MayLeave(r)
    /\ phase' = [phase EXCEPT ![r] = "exited"]
    /\ clearing' = clearing \cup {r}
    /\ UNCHANGED <<pump, stopped, callVars, asleep, notifying, posts>>

\* The last critical section of Run, whoever runs it.
ClearRunning(r) ==
    /\ r \in clearing
    /\ running' = FALSE
    /\ clearing' = clearing \ {r}
    /\ UNCHANGED <<pump, stopped, joinable, control, phase, asleep, notifying, posts>>

CallRun(r) ==
    /\ r \in Callers /\ phase[r] = "none"
    /\ phase' = [phase EXCEPT ![r] = "loop"]
    /\ UNCHANGED <<pump, stopped, callVars, asleep, clearing, notifying, posts>>

RunReturns(r) ==
    /\ r \in Callers /\ phase[r] = "exited" /\ r \notin clearing
    /\ phase' = [phase EXCEPT ![r] = "none"]
    /\ UNCHANGED <<pump, stopped, callVars, asleep, clearing, notifying, posts>>
-----------------------------------------------------------------------------
(* Start, Stop and Join.                                                    *)

Goto(c, label) == control' = [control EXCEPT ![c] = label]

\* Faulty variant: the flag alone is tested.
MayStartRunning == ~running

MayStart == ~running /\ ~joinable

Start(c) ==
    /\ control[c] = "out" /\ MayStart
    /\ stopped' = FALSE /\ running' = TRUE /\ joinable' = TRUE
    /\ phase' = [phase EXCEPT ![Worker] = "loop"]
    /\ UNCHANGED <<pump, control, asleep, clearing, notifying, posts>>

Stop(c) ==
    /\ control[c] = "out"
    /\ stopped' = TRUE
    /\ Goto(c, "notify")
    /\ UNCHANGED <<pump, running, joinable, runVars, notifying, posts>>

\* Faulty variant: one sleeper is notified.
LeftAsleepByOne(c) == IF asleep = {} THEN {} ELSE asleep \ {CHOOSE r \in asleep : TRUE}

\* notify_all leaves nobody asleep.
LeftAsleep(c) == {}

NotifyAll(c) ==
    /\ control[c] = "notify"
    /\ asleep' = LeftAsleep(c)
    /\ Goto(c, "test")
    /\ UNCHANGED <<pump, stopped, running, joinable, phase, clearing, notifying, posts>>

CallJoin(c) ==
    /\ control[c] = "out"
    /\ Goto(c, "test")
    /\ UNCHANGED <<pump, stopped, running, joinable, runVars, notifying, posts>>

\* Join reads _worker_thread without a lock.
TestJoinable(c) ==
    /\ control[c] = "test"
    /\ Goto(c, IF joinable THEN "join" ELSE "out")
    /\ UNCHANGED <<pump, stopped, running, joinable, runVars, notifying, posts>>

WorkerEnded == phase[Worker] = "exited" /\ Worker \notin clearing

JoinReturns(c) ==
    /\ control[c] = "join" /\ WorkerEnded
    /\ joinable' = FALSE
    /\ phase' = [phase EXCEPT ![Worker] = "none"]
    /\ Goto(c, "out")
    /\ UNCHANGED <<pump, stopped, running, asleep, clearing, notifying, posts>>
-----------------------------------------------------------------------------
Post(t)  == Push(t) \/ NotifyOne(t)
InRun(r) == Sleep(r) \/ Take(r) \/ Finish(r) \/ Leave(r) \/ ClearRunning(r) \/ RunReturns(r)
Ending(c) == NotifyAll(c) \/ TestJoinable(c) \/ JoinReturns(c)

Next ==
    \/ \E t \in Posters \cup Runners : Post(t)
    \/ PumpOnce
    \/ \E r \in Runners : InRun(r) \/ WakeSpuriously(r) \/ CallRun(r)
    \/ \E c \in Controllers : Start(c) \/ Stop(c) \/ CallJoin(c) \/ Ending(c)

Spec == Init /\ [][Next]_vars

\* Threads that are awake run on.  Nobody has to post, start or stop, and no
\* sleeper wakes up of itself.
FairSpec ==
    /\ Spec
    /\ \A t \in Posters \cup Runners : WF_vars(NotifyOne(t))
    /\ \A r \in Runners : WF_vars(InRun(r))
    /\ \A c \in Controllers : WF_vars(Ending(c))
-----------------------------------------------------------------------------
\* No wake-up is lost although SendMsg and Stop notify after they released the
\* lock: while somebody sleeps next to a queued message, a notification is on its
\* way or another runner is awake and tests again before it sleeps; while somebody
\* sleeps on a stopped pump, Stop is about to notify all.
WakeUpOnItsWay ==
    asleep # {} =>
        /\ pump > 0 => notifying # {} \/ \E r \in Runners \ asleep : phase[r] \in {"loop", "dispatch"}
        /\ stopped => \E c \in Controllers : control[c] = "notify"

\* Start never replaces a std::thread that has not been joined (that would end the
\* program), although another thread that leaves Run may clear _running at any time
\* after the worker was stopped, joined and started again.
StartedOnce == [][\A c \in Controllers : Start(c) => phase[Worker] = "none"]_vars

\* The worker is joined by one thread at a time ("Thread-safe message pump: ...,
\* Stop, and Join").
JoinedOnce == \A c, d \in Controllers : (control[c] = "join" /\ control[d] = "join") => c = d

\* Mutex-free, sleepless and without notifications this is FsmManager's pump, its
\* fairness included: whatever a runner sleeps through is taken all the same.
Abstract == INSTANCE MessagePump
ImplementsMessagePump == Abstract!Spec

=============================================================================
