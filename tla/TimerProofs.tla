------------------------------ MODULE TimerProofs ------------------------------
(***************************************************************************)
(* Theorems about TimerManager, for every number of timers and starters    *)
(* and every width of the timer ids.                                       *)
(***************************************************************************)
EXTENDS TimerManager, TLAPS

(***************************************************************************)
(* The inductive invariant.                                                *)
(***************************************************************************)

\* A thread inside StartTimer has made one object of its own.
InStartTimer ==
    /\ \A s \in Starters : start[s] # "out" => mine[s] \in 1..created
    /\ \A s, t \in Starters : (mine[s] = mine[t] /\ start[s] # "out" /\ start[t] # "out") => s = t
    /\ \A s \in Starters : start[s] = "listed" => thread[mine[s]] = "none"

\* Nothing is known of objects that were not made yet.
OnlyMade ==
    /\ list \cup threads \cup joining \cup posted \cup inTime \subseteq 1..created
    /\ \A o \in Object : o > created => ~active[o] /\ thread[o] = "none"

\* A thread that runs can be joined, or its starter is about to keep it.
RunningIsKept ==
    \A o \in Object : thread[o] \in {"sleeping", "posting"} =>
        o \in threads \cup joining \/ \E s \in Starters : start[s] = "spawned" /\ mine[s] = o

\* What StopAndJoin may rely on.
JoinPhases ==
    /\ joiner # "out" => \A s \in Starters : start[s] = "out"
    /\ joiner \in {"out", "swap"} => joining = {}
    /\ joiner \in {"join", "clear", "done"} => threads = {}
    /\ joiner \in {"clear", "done"} => \A o \in Object : thread[o] \notin {"sleeping", "posting"}

\* A timer that was cancelled in time, or was meant by the caller, has not been read
\* as active, and no flag is set again.
Cancelled ==
    /\ \A o \in inTime : ~active[o] /\ thread[o] # "posting" /\ o \notin posted
    /\ \A o \in posted : thread[o] = "done"

IInv == TypeOK /\ InStartTimer /\ OnlyMade /\ RunningIsKept /\ JoinPhases /\ Cancelled
--------------------------------------------------------------------------------
USE DEF Object, NoObject

\* What StopTimer does, to the timer o.
Stopped(o) ==
    /\ o \in list /\ o \in 1..created
    /\ Deactivate({o}, {})
    /\ UNCHANGED <<created, list, thread, threads, start, mine, joiner, joining, posted>>
    /\ answered' = answered \cup ({o} \ posted)

\* StopTimer clears the flag of one listed timer, and if no timer had the id
\* before, that is the one it was called for.
LEMMA StopHits ==
    ASSUME TypeOK, OnlyMade, NEW t \in Object, StopTimer(t)
    PROVE  \E o \in Object : Stopped(o)
<1>1. PICK o \in Found(TimerId(t)) :
         /\ Deactivate({o}, {x \in {t} : OwnsItsId(x)})
         /\ answered' = answered \cup ({o} \ posted)
         /\ UNCHANGED <<created, list, thread, threads, start, mine, joiner, joining, posted>>
  BY DEF StopTimer
<1>2. /\ o \in list /\ TimerId(o) = TimerId(t)
      /\ \A x \in list : TimerId(x) = TimerId(t) => o <= x
  BY DEF Found, WithId
<1>3. o \in 1..created /\ o \in Object
  BY <1>2 DEF TypeOK, OnlyMade
<1>4. ASSUME OwnsItsId(t) PROVE t = o
  <2>1. t \in list /\ t <= IdModulus /\ o <= t
    BY <1>2, <1>4 DEF OwnsItsId
  <2>2. t % IdModulus = o % IdModulus
    BY <1>2 DEF TimerId
  <2>3. IdModulus \in Nat \ {0} /\ t \in Nat /\ o \in Nat /\ 1 <= o
    BY <1>3, TimerBoundAssumption
  <2>4. CASE t = IdModulus
    <3>1. t % IdModulus = 0
      BY <2>3, <2>4, Z3
    <3>2. o < IdModulus => o % IdModulus = o
      BY <2>3, Z3
    <3> QED
      BY <2>1, <2>2, <2>3, <2>4, <3>1, <3>2
  <2>5. CASE t < IdModulus
    <3>1. o % IdModulus = o /\ t % IdModulus = t
      BY <2>1, <2>3, <2>5, Z3
    <3> QED
      BY <2>2, <3>1
  <2> QED
    BY <2>1, <2>3, <2>4, <2>5
<1>5. {o} \cup {x \in {t} : OwnsItsId(x)} = {o} \cup {}
  BY <1>4
<1>6. Deactivate({o}, {})
  BY <1>1, <1>5 DEF Deactivate
<1> QED
  BY <1>1, <1>2, <1>3, <1>6 DEF Stopped

\* Types are kept.
LEMMA StepType == IInv /\ [Next]_vars => TypeOK'
<1> SUFFICES ASSUME IInv, [Next]_vars PROVE TypeOK'
  OBVIOUS
<1>1. ASSUME NEW s \in Starters, ListTimer(s) PROVE TypeOK'
  <2>1. created \in 0..MaxTimers /\ created + 1 \in Object /\ created' = created + 1
    BY <1>1, TimerBoundAssumption DEF ListTimer, IInv, TypeOK
  <2>2. start[s] = "out" /\ start' = [start EXCEPT ![s] = "listed"] /\ mine' = [mine EXCEPT ![s] = created + 1]
    BY <1>1 DEF ListTimer, NewObject
  <2> QED
    BY <1>1, <2>1, <2>2 DEF IInv, TypeOK, ListTimer, NewObject
<1>2. ASSUME NEW s \in Starters, SpawnTimer(s) PROVE TypeOK'
  BY <1>2 DEF IInv, TypeOK, SpawnTimer
<1>3. ASSUME NEW s \in Starters, KeepThread(s) PROVE TypeOK'
  <2>1. mine[s] \in 1..created /\ mine[s] \in Object
    BY <1>3 DEF KeepThread, IInv, TypeOK, InStartTimer
  <2> QED
    BY <1>3, <2>1 DEF IInv, TypeOK, KeepThread
<1>4. ASSUME NEW o \in Object, Expire(o) PROVE TypeOK'
  BY <1>4 DEF IInv, TypeOK, Expire, AfterSleep
<1>5. ASSUME NEW o \in Object, PostTimeout(o) PROVE TypeOK'
  BY <1>5 DEF IInv, TypeOK, PostTimeout
<1>6. ASSUME NEW t \in Object, StopTimer(t) PROVE TypeOK'
  <2>1. PICK o \in Object : Stopped(o)
    BY <1>6, StopHits DEF IInv
  <2> QED
    BY <2>1 DEF IInv, TypeOK, Deactivate, Stopped
<1>7. ASSUME StopAllTimers PROVE TypeOK'
  BY <1>7 DEF IInv, TypeOK, StopAllTimers, Deactivate
<1>8. ASSUME JoinStopsAll PROVE TypeOK'
  BY <1>8 DEF IInv, TypeOK, JoinStopsAll, Deactivate
<1>9. ASSUME SwapThreads PROVE TypeOK'
  BY <1>9 DEF IInv, TypeOK, SwapThreads
<1>10. ASSUME JoinThreads PROVE TypeOK'
  BY <1>10 DEF IInv, TypeOK, JoinThreads
<1>11. ASSUME ClearList PROVE TypeOK'
  BY <1>11 DEF IInv, TypeOK, ClearList
<1>12. CASE UNCHANGED vars
  BY <1>12 DEF IInv, TypeOK, vars
<1> QED
  BY <1>1, <1>2, <1>3, <1>4, <1>5, <1>6, <1>7, <1>8, <1>9, <1>10, <1>11, <1>12
     DEF Next, StartTimer, TimerThread, StopAndJoin

\* Starters keep to their own object.
LEMMA StepStart == IInv /\ [Next]_vars => InStartTimer'
<1> SUFFICES ASSUME IInv, [Next]_vars PROVE InStartTimer'
  OBVIOUS
<1>1. ASSUME NEW s \in Starters, ListTimer(s) PROVE InStartTimer'
  <2>1. created \in 0..MaxTimers /\ created + 1 \in Object /\ created' = created + 1
    BY <1>1, TimerBoundAssumption DEF ListTimer, IInv, TypeOK
  <2>2. start[s] = "out" /\ start' = [start EXCEPT ![s] = "listed"] /\ mine' = [mine EXCEPT ![s] = created + 1]
    BY <1>1 DEF ListTimer, NewObject
  <2> QED
    BY <1>1, <2>1, <2>2 DEF IInv, TypeOK, InStartTimer, OnlyMade, ListTimer
<1>2. ASSUME NEW s \in Starters, SpawnTimer(s) PROVE InStartTimer'
  BY <1>2 DEF IInv, TypeOK, InStartTimer, SpawnTimer
<1>3. ASSUME NEW s \in Starters, KeepThread(s) PROVE InStartTimer'
  <2>1. mine[s] \in 1..created /\ mine[s] \in Object
    BY <1>3 DEF KeepThread, IInv, TypeOK, InStartTimer
  <2> QED
    BY <1>3, <2>1 DEF IInv, TypeOK, InStartTimer, KeepThread
<1>4. ASSUME NEW o \in Object, Expire(o) PROVE InStartTimer'
  BY <1>4 DEF IInv, InStartTimer, Expire
<1>5. ASSUME NEW o \in Object, PostTimeout(o) PROVE InStartTimer'
  BY <1>5 DEF IInv, InStartTimer, PostTimeout
<1>6. ASSUME NEW t \in Object, StopTimer(t) PROVE InStartTimer'
  <2>1. PICK o \in Object : Stopped(o)
    BY <1>6, StopHits DEF IInv
  <2> QED
    BY <2>1 DEF IInv, InStartTimer, Stopped
<1>7. ASSUME StopAllTimers PROVE InStartTimer'
  BY <1>7 DEF IInv, InStartTimer, StopAllTimers
<1>8. ASSUME JoinStopsAll PROVE InStartTimer'
  BY <1>8 DEF InStartTimer, JoinStopsAll
<1>9. ASSUME SwapThreads PROVE InStartTimer'
  BY <1>9 DEF IInv, InStartTimer, SwapThreads
<1>10. ASSUME JoinThreads PROVE InStartTimer'
  BY <1>10 DEF IInv, InStartTimer, JoinThreads
<1>11. ASSUME ClearList PROVE InStartTimer'
  BY <1>11 DEF IInv, InStartTimer, ClearList
<1>12. CASE UNCHANGED vars
  BY <1>12 DEF IInv, InStartTimer, vars
<1> QED
  BY <1>1, <1>2, <1>3, <1>4, <1>5, <1>6, <1>7, <1>8, <1>9, <1>10, <1>11, <1>12
     DEF Next, StartTimer, TimerThread, StopAndJoin

\* Objects are made in order.
LEMMA StepMade == IInv /\ [Next]_vars => OnlyMade'
<1> SUFFICES ASSUME IInv, [Next]_vars PROVE OnlyMade'
  OBVIOUS
<1>1. ASSUME NEW s \in Starters, ListTimer(s) PROVE OnlyMade'
  <2>1. created \in 0..MaxTimers /\ created + 1 \in Object /\ created' = created + 1
    BY <1>1, TimerBoundAssumption DEF ListTimer, IInv, TypeOK
  <2>2. start[s] = "out" /\ start' = [start EXCEPT ![s] = "listed"] /\ mine' = [mine EXCEPT ![s] = created + 1]
    BY <1>1 DEF ListTimer, NewObject
  <2> QED
    BY <1>1, <2>1, <2>2 DEF IInv, OnlyMade, ListTimer, NewObject
<1>2. ASSUME NEW s \in Starters, SpawnTimer(s) PROVE OnlyMade'
  BY <1>2 DEF IInv, TypeOK, OnlyMade, InStartTimer, SpawnTimer
<1>3. ASSUME NEW s \in Starters, KeepThread(s) PROVE OnlyMade'
  <2>1. mine[s] \in 1..created /\ mine[s] \in Object
    BY <1>3 DEF KeepThread, IInv, TypeOK, InStartTimer
  <2> QED
    BY <1>3, <2>1 DEF IInv, OnlyMade, KeepThread
<1>4. ASSUME NEW o \in Object, Expire(o) PROVE OnlyMade'
  BY <1>4 DEF IInv, OnlyMade, Expire
<1>5. ASSUME NEW o \in Object, PostTimeout(o) PROVE OnlyMade'
  BY <1>5 DEF IInv, TypeOK, OnlyMade, PostTimeout
<1>6. ASSUME NEW t \in Object, StopTimer(t) PROVE OnlyMade'
  <2>1. PICK o \in Object : Stopped(o)
    BY <1>6, StopHits DEF IInv
  <2> QED
    BY <2>1 DEF IInv, OnlyMade, Deactivate, Stopped
<1>7. ASSUME StopAllTimers PROVE OnlyMade'
  BY <1>7 DEF IInv, OnlyMade, StopAllTimers, Deactivate
<1>8. ASSUME JoinStopsAll PROVE OnlyMade'
  BY <1>8 DEF IInv, OnlyMade, JoinStopsAll, Deactivate
<1>9. ASSUME SwapThreads PROVE OnlyMade'
  BY <1>9 DEF IInv, OnlyMade, SwapThreads
<1>10. ASSUME JoinThreads PROVE OnlyMade'
  BY <1>10 DEF IInv, OnlyMade, JoinThreads
<1>11. ASSUME ClearList PROVE OnlyMade'
  BY <1>11 DEF IInv, OnlyMade, ClearList
<1>12. CASE UNCHANGED vars
  BY <1>12 DEF IInv, OnlyMade, vars
<1> QED
  BY <1>1, <1>2, <1>3, <1>4, <1>5, <1>6, <1>7, <1>8, <1>9, <1>10, <1>11, <1>12
     DEF Next, StartTimer, TimerThread, StopAndJoin

\* No thread is forgotten.
LEMMA StepKept == IInv /\ [Next]_vars => RunningIsKept'
<1> SUFFICES ASSUME IInv, [Next]_vars PROVE RunningIsKept'
  OBVIOUS
<1>1. ASSUME NEW s \in Starters, ListTimer(s) PROVE RunningIsKept'
  <2>1. created \in 0..MaxTimers /\ created + 1 \in Object /\ created' = created + 1
    BY <1>1, TimerBoundAssumption DEF ListTimer, IInv, TypeOK
  <2>2. start[s] = "out" /\ start' = [start EXCEPT ![s] = "listed"] /\ mine' = [mine EXCEPT ![s] = created + 1]
    BY <1>1 DEF ListTimer, NewObject
  <2> QED
    BY <1>1, <2>1, <2>2 DEF IInv, RunningIsKept, ListTimer
<1>2. ASSUME NEW s \in Starters, SpawnTimer(s) PROVE RunningIsKept'
  BY <1>2 DEF IInv, TypeOK, RunningIsKept, SpawnTimer
<1>3. ASSUME NEW s \in Starters, KeepThread(s) PROVE RunningIsKept'
  <2>1. mine[s] \in 1..created /\ mine[s] \in Object
    BY <1>3 DEF KeepThread, IInv, TypeOK, InStartTimer
  <2> QED
    BY <1>3, <2>1 DEF IInv, RunningIsKept, KeepThread
<1>4. ASSUME NEW o \in Object, Expire(o) PROVE RunningIsKept'
  BY <1>4 DEF IInv, RunningIsKept, Expire
<1>5. ASSUME NEW o \in Object, PostTimeout(o) PROVE RunningIsKept'
  BY <1>5 DEF IInv, RunningIsKept, PostTimeout
<1>6. ASSUME NEW t \in Object, StopTimer(t) PROVE RunningIsKept'
  <2>1. PICK o \in Object : Stopped(o)
    BY <1>6, StopHits DEF IInv
  <2> QED
    BY <2>1 DEF IInv, RunningIsKept, Stopped
<1>7. ASSUME StopAllTimers PROVE RunningIsKept'
  BY <1>7 DEF IInv, RunningIsKept, StopAllTimers
<1>8. ASSUME JoinStopsAll PROVE RunningIsKept'
  BY <1>8 DEF IInv, RunningIsKept, JoinStopsAll
<1>9. ASSUME SwapThreads PROVE RunningIsKept'
  BY <1>9 DEF IInv, RunningIsKept, JoinPhases, SwapThreads
<1>10. ASSUME JoinThreads PROVE RunningIsKept'
  BY <1>10 DEF IInv, RunningIsKept, JoinThreads, Joined
<1>11. ASSUME ClearList PROVE RunningIsKept'
  BY <1>11 DEF IInv, RunningIsKept, ClearList
<1>12. CASE UNCHANGED vars
  BY <1>12 DEF IInv, RunningIsKept, vars
<1> QED
  BY <1>1, <1>2, <1>3, <1>4, <1>5, <1>6, <1>7, <1>8, <1>9, <1>10, <1>11, <1>12
     DEF Next, StartTimer, TimerThread, StopAndJoin

\* StopAndJoin goes on undisturbed.
LEMMA StepJoin == IInv /\ [Next]_vars => JoinPhases'
<1> SUFFICES ASSUME IInv, [Next]_vars PROVE JoinPhases'
  OBVIOUS
<1>1. ASSUME NEW s \in Starters, ListTimer(s) PROVE JoinPhases'
  <2>1. created \in 0..MaxTimers /\ created + 1 \in Object /\ created' = created + 1
    BY <1>1, TimerBoundAssumption DEF ListTimer, IInv, TypeOK
  <2>2. start[s] = "out" /\ start' = [start EXCEPT ![s] = "listed"] /\ mine' = [mine EXCEPT ![s] = created + 1]
    BY <1>1 DEF ListTimer, NewObject
  <2> QED
    BY <1>1, <2>1, <2>2 DEF IInv, JoinPhases, ListTimer
<1>2. ASSUME NEW s \in Starters, SpawnTimer(s) PROVE JoinPhases'
  BY <1>2 DEF IInv, JoinPhases, SpawnTimer
<1>3. ASSUME NEW s \in Starters, KeepThread(s) PROVE JoinPhases'
  <2>1. mine[s] \in 1..created /\ mine[s] \in Object
    BY <1>3 DEF KeepThread, IInv, TypeOK, InStartTimer
  <2> QED
    BY <1>3, <2>1 DEF IInv, JoinPhases, KeepThread
<1>4. ASSUME NEW o \in Object, Expire(o) PROVE JoinPhases'
  BY <1>4 DEF IInv, JoinPhases, Expire
<1>5. ASSUME NEW o \in Object, PostTimeout(o) PROVE JoinPhases'
  BY <1>5 DEF IInv, JoinPhases, PostTimeout
<1>6. ASSUME NEW t \in Object, StopTimer(t) PROVE JoinPhases'
  <2>1. PICK o \in Object : Stopped(o)
    BY <1>6, StopHits DEF IInv
  <2> QED
    BY <2>1 DEF IInv, JoinPhases, Stopped
<1>7. ASSUME StopAllTimers PROVE JoinPhases'
  BY <1>7 DEF IInv, JoinPhases, StopAllTimers
<1>8. ASSUME JoinStopsAll PROVE JoinPhases'
  BY <1>8 DEF IInv, JoinPhases, JoinStopsAll
<1>9. ASSUME SwapThreads PROVE JoinPhases'
  BY <1>9 DEF IInv, JoinPhases, SwapThreads
<1>10. ASSUME JoinThreads PROVE JoinPhases'
  BY <1>10 DEF IInv, JoinPhases, RunningIsKept, JoinThreads, Joined
<1>11. ASSUME ClearList PROVE JoinPhases'
  BY <1>11 DEF IInv, JoinPhases, ClearList
<1>12. CASE UNCHANGED vars
  BY <1>12 DEF IInv, JoinPhases, vars
<1> QED
  BY <1>1, <1>2, <1>3, <1>4, <1>5, <1>6, <1>7, <1>8, <1>9, <1>10, <1>11, <1>12
     DEF Next, StartTimer, TimerThread, StopAndJoin

\* A cancelled timer stays cancelled.
LEMMA StepCancelled == IInv /\ [Next]_vars => Cancelled'
<1> SUFFICES ASSUME IInv, [Next]_vars PROVE Cancelled'
  OBVIOUS
<1>1. ASSUME NEW s \in Starters, ListTimer(s) PROVE Cancelled'
  <2>1. created \in 0..MaxTimers /\ created + 1 \in Object /\ created' = created + 1
    BY <1>1, TimerBoundAssumption DEF ListTimer, IInv, TypeOK
  <2>2. start[s] = "out" /\ start' = [start EXCEPT ![s] = "listed"] /\ mine' = [mine EXCEPT ![s] = created + 1]
    BY <1>1 DEF ListTimer, NewObject
  <2> QED
    BY <1>1, <2>1, <2>2 DEF IInv, Cancelled, OnlyMade, ListTimer, NewObject
<1>2. ASSUME NEW s \in Starters, SpawnTimer(s) PROVE Cancelled'
  BY <1>2 DEF IInv, Cancelled, InStartTimer, SpawnTimer
<1>3. ASSUME NEW s \in Starters, KeepThread(s) PROVE Cancelled'
  <2>1. mine[s] \in 1..created /\ mine[s] \in Object
    BY <1>3 DEF KeepThread, IInv, TypeOK, InStartTimer
  <2> QED
    BY <1>3, <2>1 DEF IInv, Cancelled, KeepThread
<1>4. ASSUME NEW o \in Object, Expire(o) PROVE Cancelled'
  BY <1>4 DEF IInv, Cancelled, Expire, AfterSleep
<1>5. ASSUME NEW o \in Object, PostTimeout(o) PROVE Cancelled'
  BY <1>5 DEF IInv, TypeOK, Cancelled, PostTimeout
<1>6. ASSUME NEW t \in Object, StopTimer(t) PROVE Cancelled'
  <2>1. PICK o \in Object : Stopped(o)
    BY <1>6, StopHits DEF IInv
  <2> QED
    BY <2>1 DEF IInv, TypeOK, Cancelled, Deactivate, Stopped
<1>7. ASSUME StopAllTimers PROVE Cancelled'
  BY <1>7 DEF IInv, TypeOK, Cancelled, StopAllTimers, Deactivate
<1>8. ASSUME JoinStopsAll PROVE Cancelled'
  BY <1>8 DEF IInv, TypeOK, Cancelled, JoinStopsAll, Deactivate
<1>9. ASSUME SwapThreads PROVE Cancelled'
  BY <1>9 DEF IInv, Cancelled, SwapThreads
<1>10. ASSUME JoinThreads PROVE Cancelled'
  BY <1>10 DEF IInv, Cancelled, JoinThreads
<1>11. ASSUME ClearList PROVE Cancelled'
  BY <1>11 DEF IInv, Cancelled, ClearList
<1>12. CASE UNCHANGED vars
  BY <1>12 DEF IInv, Cancelled, vars
<1> QED
  BY <1>1, <1>2, <1>3, <1>4, <1>5, <1>6, <1>7, <1>8, <1>9, <1>10, <1>11, <1>12
     DEF Next, StartTimer, TimerThread, StopAndJoin

\* The invariant holds at first and every step keeps it.
LEMMA Invariant == Spec => []IInv
<1>1. Init => IInv
  BY TimerBoundAssumption
     DEF Init, IInv, TypeOK, InStartTimer, OnlyMade, RunningIsKept, JoinPhases, Cancelled
<1>2. IInv /\ [Next]_vars => IInv'
  BY StepType, StepStart, StepMade, StepKept, StepJoin, StepCancelled DEF IInv
<1> QED
  BY <1>1, <1>2, PTL DEF Spec
--------------------------------------------------------------------------------
\* A timer whose flag is cleared while its thread still sleeps does not post, nor does
\* one for which StopTimer is called then, if no timer had its id before (Deactivate
\* and the search for the id in TimerManager.cpp).
THEOREM CancelHasWon == Spec => []CancelWins
<1>1. IInv => CancelWins
  BY DEF IInv, Cancelled, CancelWins
<1> QED
  BY <1>1, Invariant, PTL

\* When StopAndJoin has returned no timer thread runs and none is left to join.
THEOREM NothingIsLeft == Spec => []NothingLeft
<1>1. IInv => NothingLeft
  BY DEF IInv, JoinPhases, NothingLeft
<1> QED
  BY <1>1, Invariant, PTL
-------------------------------------------------------------------------------
(* TimerManager implements TimerService, fairness aside.                    *)

Waiting == {o \in 1..created : active[o] /\ thread[o] \in {"none", "sleeping"}}
Posting == {o \in Object : thread[o] = "posting"}

\* Nothing is started.
LEMMA InitMaps == Init => Service!Init
BY TimerBoundAssumption DEF Init, Service!Init

\* Every step is one of the service or changes nothing of it.
LEMMA StepMaps == IInv /\ [Next]_vars => [Service!Next]_(Service!vars)
<1> SUFFICES ASSUME IInv, [Next]_vars PROVE Service!Next \/ UNCHANGED Service!vars
  OBVIOUS
<1> USE DEF Service!Next, Service!vars
<1>1. ASSUME NEW s \in Starters, ListTimer(s) PROVE Service!Next
  <2>0. PICK o : o = created + 1
    OBVIOUS
  <2>1. Waiting' = Waiting \cup {o} /\ Posting' = Posting /\ posted' = posted
    BY <1>1, <2>0, TimerBoundAssumption
       DEF IInv, TypeOK, OnlyMade, ListTimer, NewObject, Waiting, Posting
  <2>2. o \notin Waiting \cup Posting \cup posted
    BY <1>1, <2>0 DEF IInv, TypeOK, OnlyMade, Waiting, Posting
  <2>3. Service!Begin(o)
    BY <2>1, <2>2 DEF Service!Begin, Service!Known, Waiting, Posting
  <2>4. o \in Waiting'
    BY <2>1
  <2> QED
    BY <2>3, <2>4 DEF Waiting
<1>2. ASSUME NEW s \in Starters, SpawnTimer(s) PROVE UNCHANGED Service!vars
  <2>1. Waiting' = Waiting /\ Posting' = Posting /\ posted' = posted
    BY <1>2 DEF IInv, InStartTimer, SpawnTimer, Waiting, Posting
  <2> QED
    BY <2>1 DEF Waiting, Posting
<1>3. ASSUME NEW s \in Starters, KeepThread(s) PROVE UNCHANGED Service!vars
  BY <1>3 DEF KeepThread
<1>4. ASSUME NEW o \in Object, Expire(o) PROVE Service!Next \/ UNCHANGED Service!vars
  <2>1. CASE active[o]
    <3>1. o \in Waiting /\ Waiting' = Waiting \ {o} /\ Posting' = Posting \cup {o} /\ posted' = posted
      BY <1>4, <2>1 DEF IInv, TypeOK, OnlyMade, Expire, AfterSleep, Waiting, Posting
    <3>2. Service!GoOff(o)
      BY <3>1 DEF Service!GoOff, Waiting, Posting
    <3> QED
      BY <3>1, <3>2 DEF Waiting
  <2>2. CASE ~active[o]
    <3>1. Waiting' = Waiting /\ Posting' = Posting /\ posted' = posted
      BY <1>4, <2>2 DEF Expire, AfterSleep, Waiting, Posting
    <3> QED
      BY <3>1 DEF Waiting, Posting
  <2> QED
    BY <2>1, <2>2
<1>5. ASSUME NEW o \in Object, PostTimeout(o) PROVE Service!Next
  <2>1. o \in Posting /\ Posting' = Posting \ {o} /\ Waiting' = Waiting /\ posted' = posted \cup {o}
    BY <1>5 DEF IInv, TypeOK, PostTimeout, Waiting, Posting
  <2>2. Service!Deliver(o)
    BY <2>1 DEF Service!Deliver, Waiting, Posting
  <2> QED
    BY <2>1, <2>2 DEF Posting
<1>6. ASSUME NEW objs, NEW meant, Deactivate(objs, meant), UNCHANGED created, UNCHANGED thread,
             UNCHANGED posted
      PROVE Service!Next
  <2>1. PICK cancelled \in SUBSET Waiting : Waiting' = Waiting \ cancelled
    <3>1. 1..created \subseteq Object
      BY TimerBoundAssumption DEF IInv, TypeOK
    <3>2. \A o \in 1..created : active'[o] <=> active[o] /\ o \notin objs
      BY <1>6, <3>1 DEF Deactivate
    <3>3. Waiting' = Waiting \ (objs \cap Waiting)
      BY <1>6, <3>2 DEF Waiting
    <3> QED
      BY <3>3
  <2>2. Service!Cancel(cancelled)
    BY <1>6, <2>1 DEF Service!Cancel, Waiting
  <2> QED
    BY <2>2 DEF Waiting
<1>7. ASSUME NEW t \in Object, StopTimer(t) PROVE Service!Next
  BY <1>6, <1>7 DEF StopTimer
<1>8. StopAllTimers \/ JoinStopsAll => Service!Next
  BY <1>6 DEF StopAllTimers, JoinStopsAll
<1>9. ASSUME SwapThreads \/ JoinThreads \/ ClearList PROVE UNCHANGED Service!vars
  BY <1>9 DEF SwapThreads, JoinThreads, ClearList
<1>10. CASE UNCHANGED vars
  BY <1>10 DEF vars
<1> HIDE DEF Service!Next, Service!vars
<1> QED
  BY <1>1, <1>2, <1>3, <1>4, <1>5, <1>7, <1>8, <1>9, <1>10
  DEF Next, StartTimer, TimerThread, StopAndJoin

\* The threads, their flags and the two critical sections of StartTimer behave as one
\* timer service: a timer goes off at most once, never after it was cancelled, and
\* posts once.
THEOREM StepsOfTimerService == Spec => Service!Init /\ [][Service!Next]_(Service!vars)
<1>1. Init => Service!Init
  BY InitMaps
<1>2. IInv /\ [Next]_vars => [Service!Next]_(Service!vars)
  BY StepMaps
<1> QED
  BY <1>1, <1>2, Invariant, PTL DEF Spec
================================================================================
