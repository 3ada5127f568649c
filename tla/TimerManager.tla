---------------------------- MODULE TimerManager ----------------------------
(***************************************************************************)
(* TimerManager.cpp: one thread per timer, which sleeps, reads the timer's *)
(* active flag and, if it is still set, posts through the callback.  The   *)
(* flag is read outside _timer_lock, and StartTimer takes the lock twice,  *)
(* with the creation of the thread in between; each of those is a step.    *)
(*                                                                         *)
(* A timer is named by its CTimerCtrl object, the o-th one created; its id *)
(* is o % IdModulus, the value of the unsigned _next_timer_id.             *)
(*                                                                         *)
(* StopAndJoin is called by the destructor of the manager, which has       *)
(* joined the worker before: the model starts no timer once StopAndJoin    *)
(* has begun, and does not begin it while a StartTimer is under way.       *)
(***************************************************************************)
EXTENDS Naturals

CONSTANTS
    Starters,   \* threads that call StartTimer
    IdModulus,  \* 2^32 in the code
    MaxTimers   \* bound: timers started

ASSUME TimerBoundAssumption == IdModulus \in Nat \ {0} /\ MaxTimers \in Nat

Object == 1..MaxTimers
NoObject == 0

VARIABLES
    created,   \* CTimerCtrl objects made so far; _next_timer_id is created + 1
    list,      \* _timer_list: the objects StopTimer can find, in order of creation
    active,    \* active[o]: the atomic flag of object o
    thread,    \* thread[o]: "none", "sleeping", "posting" or "done"
    threads,   \* _timer_threads: the objects whose thread StopAndJoin will join
    start,     \* start[s]: where starter s is in StartTimer
    mine,      \* mine[s]: the object it starts
    joiner,    \* where the caller of StopAndJoin is
    joining,   \* timerThreads: the threads it took out to join
    \* history
    posted,    \* objects whose message was posted
    inTime,    \* objects that were cancelled while their thread still slept
    answered   \* objects StopTimer answered SUCCESS for before they posted

vars == <<created, list, active, thread, threads, start, mine, joiner, joining,
          posted, inTime, answered>>

TimerId(o) == o % IdModulus

TypeOK ==
    /\ created \in 0..MaxTimers
    /\ list \subseteq Object
    /\ active \in [Object -> BOOLEAN]
    /\ thread \in [Object -> {"none", "sleeping", "posting", "done"}]
    /\ threads \subseteq Object
    /\ start \in [Starters -> {"out", "listed", "spawned"}]
    /\ mine \in [Starters -> Object \cup {NoObject}]
    /\ joiner \in {"out", "swap", "join", "clear", "done"}
    /\ joining \subseteq Object
    /\ posted \subseteq Object /\ inTime \subseteq Object /\ answered \subseteq Object

Init ==
    /\ created = 0 /\ list = {}
    /\ active = [o \in Object |-> FALSE]
    /\ thread = [o \in Object |-> "none"]
    /\ threads = {}
    /\ start = [s \in Starters |-> "out"]
    /\ mine = [s \in Starters |-> NoObject]
    /\ joiner = "out" /\ joining = {}
    /\ posted = {} /\ inTime = {} /\ answered = {}
-----------------------------------------------------------------------------
NewObject == created + 1

\* The first critical section of StartTimer.
ListTimer(s) ==
    /\ start[s] = "out" /\ created < MaxTimers
    /\ joiner = "out"
    /\ LET o == NewObject
       IN  /\ created' = created + 1
           /\ list' = list \cup {o}
           /\ active' = [active EXCEPT ![o] = TRUE]
           /\ mine' = [mine EXCEPT ![s] = o]
    /\ start' = [start EXCEPT ![s] = "listed"]
    /\ UNCHANGED <<thread, threads, joiner, joining, posted, inTime, answered>>

\* std::thread timerThread(...): the thread may run from here on.
SpawnTimer(s) ==
    /\ start[s] = "listed"
    /\ thread' = [thread EXCEPT ![mine[s]] = "sleeping"]
    /\ start' = [start EXCEPT ![s] = "spawned"]
    /\ UNCHANGED <<created, list, active, threads, mine, joiner, joining, posted, inTime, answered>>

\* The second critical section; StartTimer returns the id.
KeepThread(s) ==
    /\ start[s] = "spawned"
    /\ threads' = threads \cup {mine[s]}
    /\ start' = [start EXCEPT ![s] = "out"]
    /\ mine' = [mine EXCEPT ![s] = NoObject]
    /\ UNCHANGED <<created, list, active, thread, joiner, joining, posted, inTime, answered>>

\* Faulty variants: the flag is not read; a cancelled timer sleeps on.
AfterSleepAlways(o) == "posting"
AfterSleepAgain(o)  == IF active[o] THEN "posting" ELSE "sleeping"

AfterSleep(o) == IF active[o] THEN "posting" ELSE "done"

\* The thread wakes up and reads the flag.
Expire(o) ==
    /\ thread[o] = "sleeping"
    /\ thread' = [thread EXCEPT ![o] = AfterSleep(o)]
    /\ UNCHANGED <<created, list, active, threads, start, mine, joiner, joining,
                   posted, inTime, answered>>

\* _callback: the message goes to the pump.
PostTimeout(o) ==
    /\ thread[o] = "posting"
    /\ thread' = [thread EXCEPT ![o] = "done"]
    /\ posted' = posted \cup {o}
    /\ UNCHANGED <<created, list, active, threads, start, mine, joiner, joining, inTime, answered>>

\* The ids a caller can know: StartTimer has returned them.
Returned(o) == o \in 1..created /\ \A s \in Starters : mine[s] # o

\* The flags of objs are cleared; meant are the timers the caller had in mind.
Deactivate(objs, meant) ==
    /\ active' = [o \in Object |-> active[o] /\ o \notin objs]
    /\ inTime' = inTime \cup {o \in objs \cup meant : thread[o] \in {"none", "sleeping"}}

WithId(id) == {o \in list : TimerId(o) = id}

\* Faulty variant: the last timer of the list that has the id.
LastFound(id) == {o \in WithId(id) : \A x \in WithId(id) : x <= o}

\* The first timer of the list that has the id.  A timer that posted long ago
\* is still listed: StopTimer answers SUCCESS for it as well.
Found(id) == {o \in WithId(id) : \A x \in WithId(id) : o <= x}

\* Was the id of o given to no timer before it?
OwnsItsId(o) == o \in list /\ o <= IdModulus

\* Who started o calls StopTimer with its id.
StopTimer(o) ==
    \E found \in Found(TimerId(o)) :
        /\ Deactivate({found}, {x \in {o} : OwnsItsId(x)})
        /\ answered' = answered \cup ({found} \ posted)
        /\ UNCHANGED <<created, list, thread, threads, start, mine, joiner, joining, posted>>

StopAllTimers ==
    /\ Deactivate(list, {})
    /\ UNCHANGED <<created, list, thread, threads, start, mine, joiner, joining, posted, answered>>

\* StopAndJoin: StopAllTimers, swap, join every thread, clear.
JoinStopsAll ==
    /\ joiner = "out"
    /\ \A s \in Starters : start[s] = "out"
    /\ Deactivate(list, {})
    /\ joiner' = "swap"
    /\ UNCHANGED <<created, list, thread, threads, start, mine, joining, posted, answered>>

SwapThreads ==
    /\ joiner = "swap"
    /\ joining' = threads /\ threads' = {}
    /\ joiner' = "join"
    /\ UNCHANGED <<created, list, active, thread, start, mine, posted, inTime, answered>>

\* Faulty variant: the threads are not waited for.
JoinedAtOnce == TRUE

Joined == \A o \in joining : thread[o] = "done"

JoinThreads ==
    /\ joiner = "join" /\ Joined
    /\ joiner' = "clear"
    /\ joining' = {}
    /\ UNCHANGED <<created, list, active, thread, threads, start, mine, posted, inTime, answered>>

ClearList ==
    /\ joiner = "clear"
    /\ list' = {}
    /\ joiner' = "done"
    /\ UNCHANGED <<created, active, thread, threads, start, mine, joining, posted, inTime, answered>>

StopAndJoin == JoinStopsAll \/ SwapThreads \/ JoinThreads \/ ClearList
-----------------------------------------------------------------------------
StartTimer(s) == ListTimer(s) \/ SpawnTimer(s) \/ KeepThread(s)
TimerThread(o) == Expire(o) \/ PostTimeout(o)

Next ==
    \/ \E s \in Starters : StartTimer(s)
    \/ \E o \in Object : TimerThread(o)
    \/ \E o \in {x \in Object : Returned(x)} : StopTimer(o)
    \/ StopAllTimers
    \/ StopAndJoin

Spec == Init /\ [][Next]_vars

\* A timer thread wakes up and runs; a starter that is inside StartTimer and the
\* caller of StopAndJoin go on.  Nobody has to call either.
FairSpec ==
    /\ Spec
    /\ \A o \in Object : WF_vars(TimerThread(o))
    /\ \A s \in Starters : WF_vars(SpawnTimer(s) \/ KeepThread(s))
    /\ WF_vars(SwapThreads \/ JoinThreads \/ ClearList)
-----------------------------------------------------------------------------
\* A timer that is cancelled while its thread still sleeps does not post, for every
\* interleaving of the waking thread, the starter and the canceller: StopTimer
\* clears the flag of the timer it was called for, unless an earlier timer had the
\* id before it wrapped.
CancelWins == posted \cap inTime = {}

\* "StopTimer only prevents message posting": after it answered SUCCESS for a
\* timer that had not posted, that timer does not post.
StopTimerPreventsPosting == posted \cap answered = {}

\* When StopAndJoin has returned no timer thread runs (it would call back into a
\* manager that is being destroyed) and none is left in _timer_threads (its
\* destructor would terminate the program).
NothingLeft ==
    joiner = "done" =>
        /\ threads = {}
        /\ \A o \in Object : thread[o] \notin {"sleeping", "posting"}

\* The threads, the flag and the two critical sections behave as one timer
\* service, its fairness included; a timer goes off at the read of its flag.
Service == INSTANCE TimerService WITH
    pending <- {o \in 1..created : active[o] /\ thread[o] \in {"none", "sleeping"}},
    due     <- {o \in Object : thread[o] = "posting"}
ImplementsTimerService == Service!Spec

\* StopAndJoin returns: it waits for sleeping threads only.
StopAndJoinReturns == (joiner = "swap") ~> (joiner = "done")
=============================================================================
