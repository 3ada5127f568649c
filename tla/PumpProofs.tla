------------------------------ MODULE PumpProofs ------------------------------
(***************************************************************************)
(* For any numbers of posters, callers of Run and controlling threads: no  *)
(* wake-up of the pump is lost, Start replaces no worker that has not been *)
(* joined, and every step of the pump is a step of module MessagePump.     *)
(***************************************************************************)
EXTENDS PumpLifecycle, TLAPS

\* Who sleeps is in the wait of Run, and the worker is joinable from Start to the
\* return of a join, whatever _running says.
SleepersInRun == \A r \in asleep : phase[r] = "loop"
WorkerIsJoinable == joinable <=> phase[Worker] # "none"

IInv == TypeOK /\ SleepersInRun /\ WorkerIsJoinable /\ WakeUpOnItsWay

\* The initial pump is empty and nobody runs.
LEMMA InitIInv == Init => IInv
<1> SUFFICES ASSUME Init PROVE IInv
  OBVIOUS
<1>1. pump \in 0..posts /\ posts \in 0..MaxPosts
  BY PumpAssumption DEF Init
<1>2. stopped \in BOOLEAN /\ running \in BOOLEAN /\ joinable \in BOOLEAN
  BY DEF Init
<1>3. /\ phase \in [Runners -> {"none", "loop", "dispatch", "exited"}]
      /\ control \in [Controllers -> {"out", "notify", "test", "join"}]
      /\ asleep \subseteq Runners /\ clearing \subseteq Runners
      /\ notifying \subseteq Posters \cup Runners
  BY DEF Init
<1>4. SleepersInRun /\ WakeUpOnItsWay
  BY DEF Init, SleepersInRun, WakeUpOnItsWay
<1>5. phase[Worker] = "none"
  BY DEF Init, Runners
<1>6. WorkerIsJoinable
  BY <1>5 DEF Init, WorkerIsJoinable
<1> QED
  BY <1>1, <1>2, <1>3, <1>4, <1>6 DEF IInv, TypeOK

\* Every step keeps the types.
LEMMA StepTypeOK == TypeOK /\ [Next]_vars => TypeOK'
<1> SUFFICES ASSUME TypeOK, [Next]_vars PROVE TypeOK'
  OBVIOUS
<1> USE PumpAssumption DEF TypeOK, Runners, callVars, runVars, Goto
<1>1. ASSUME NEW t \in Posters \cup Runners, Push(t) PROVE TypeOK'
  BY <1>1 DEF Push
<1>2. ASSUME NEW t \in Posters \cup Runners, NotifyOne(t) PROVE TypeOK'
  BY <1>2 DEF NotifyOne, Notify
<1>3. CASE PumpOnce
  BY <1>3 DEF PumpOnce, HasMessage
<1>4. ASSUME NEW r \in Runners, InRun(r) PROVE TypeOK'
  <2>1. CASE Sleep(r)
    BY <2>1 DEF Sleep
  <2>2. CASE Take(r)
    BY <2>2 DEF Take
  <2>3. CASE Finish(r)
    BY <2>3 DEF Finish
  <2>4. CASE Leave(r)
    BY <2>4 DEF Leave
  <2>5. CASE ClearRunning(r)
    BY <2>5 DEF ClearRunning
  <2>6. CASE RunReturns(r)
    BY <2>6 DEF RunReturns
  <2> QED
    BY <1>4, <2>1, <2>2, <2>3, <2>4, <2>5, <2>6 DEF InRun
<1>5. ASSUME NEW r \in Runners, WakeSpuriously(r) \/ CallRun(r) PROVE TypeOK'
  BY <1>5 DEF WakeSpuriously, CallRun
<1>6. ASSUME NEW c \in Controllers, Start(c) \/ Stop(c) \/ CallJoin(c) PROVE TypeOK'
  BY <1>6 DEF Start, Stop, CallJoin
<1>7. ASSUME NEW c \in Controllers, Ending(c) PROVE TypeOK'
  BY <1>7 DEF Ending, NotifyAll, TestJoinable, JoinReturns, LeftAsleep
<1>8. CASE UNCHANGED vars
  BY <1>8 DEF vars
<1>9. QED
  BY <1>1, <1>2, <1>3, <1>4, <1>5, <1>6, <1>7, <1>8 DEF Next, Post

\* A runner leaves the wait awake: nobody starts, ends or dispatches asleep.
LEMMA StepSleepers == TypeOK /\ SleepersInRun /\ [Next]_vars => SleepersInRun'
<1> SUFFICES ASSUME TypeOK, SleepersInRun, [Next]_vars PROVE SleepersInRun'
  OBVIOUS
<1> USE DEF TypeOK, SleepersInRun, callVars, runVars
<1>1. ASSUME NEW t \in Posters \cup Runners, Push(t) \/ NotifyOne(t) PROVE SleepersInRun'
  BY <1>1 DEF Push, NotifyOne, Notify
<1>2. CASE PumpOnce
  BY <1>2 DEF PumpOnce
<1>3. ASSUME NEW r \in Runners, InRun(r) \/ WakeSpuriously(r) \/ CallRun(r)
      PROVE  SleepersInRun'
  <2>1. CASE Sleep(r) \/ WakeSpuriously(r) \/ ClearRunning(r)
    BY <2>1 DEF Sleep, WakeSpuriously, ClearRunning, InLoop
  <2>2. CASE Take(r) \/ Finish(r) \/ Leave(r)
    BY <2>2 DEF Take, Finish, Leave, InLoop
  <2>3. CASE RunReturns(r) \/ CallRun(r)
    BY <2>3 DEF RunReturns, CallRun
  <2> QED
    BY <1>3, <2>1, <2>2, <2>3 DEF InRun
<1>4. ASSUME NEW c \in Controllers, Start(c) \/ Stop(c) \/ CallJoin(c) \/ Ending(c)
      PROVE  SleepersInRun'
  BY <1>4 DEF Start, Stop, CallJoin, Ending, NotifyAll, TestJoinable, JoinReturns, LeftAsleep,
     WorkerEnded
<1>5. CASE UNCHANGED vars
  BY <1>5 DEF vars
<1> QED
  BY <1>1, <1>2, <1>3, <1>4, <1>5 DEF Next, Post

\* Only Start and the return of a join change whether the worker is joinable.
LEMMA StepJoinable == TypeOK /\ WorkerIsJoinable /\ [Next]_vars => WorkerIsJoinable'
<1> SUFFICES ASSUME TypeOK, WorkerIsJoinable, [Next]_vars PROVE WorkerIsJoinable'
  OBVIOUS
<1>1. ASSUME NEW c \in Controllers, Start(c) PROVE joinable' = TRUE /\ phase'[Worker] = "loop"
  BY <1>1 DEF Start, TypeOK, Runners
<1>2. ASSUME NEW c \in Controllers, JoinReturns(c)
      PROVE  joinable' = FALSE /\ phase'[Worker] = "none"
  BY <1>2 DEF JoinReturns, TypeOK, Runners
<1>3. \/ \E c \in Controllers : Start(c) \/ JoinReturns(c)
      \/ joinable' = joinable /\ (phase'[Worker] # "none" <=> phase[Worker] # "none")
  <2>1. ASSUME NEW r \in Runners, InRun(r) \/ CallRun(r)
        PROVE  joinable' = joinable /\ (phase'[Worker] # "none" <=> phase[Worker] # "none")
    BY <2>1, PumpAssumption
    DEF InRun, Sleep, Take, Finish, Leave, ClearRunning, RunReturns, CallRun, InLoop, TypeOK,
        Runners, callVars, runVars
  <2>2. CASE UNCHANGED <<joinable, phase>>
    BY <2>2
  <2> QED
    BY <2>1, <2>2
    DEF Next, Post, Push, NotifyOne, PumpOnce, WakeSpuriously, Stop, CallJoin, Ending,
        NotifyAll, TestJoinable, callVars, runVars, vars
<1> QED
  BY <1>1, <1>2, <1>3 DEF WorkerIsJoinable

(***************************************************************************)
(* WakeUpOnItsWay.  It falls apart into what a queued message and what a   *)
(* stopped pump ask for.                                                   *)
(***************************************************************************)

AwakeInRun == \E r \in Runners \ asleep : phase[r] \in {"loop", "dispatch"}
MessageIsSeen == (asleep # {} /\ pump > 0) => notifying # {} \/ AwakeInRun
StopIsSeen == (asleep # {} /\ stopped) => \E c \in Controllers : control[c] = "notify"

\* The property is the two conjuncts that the proof treats apart.
LEMMA WakeUpParts == WakeUpOnItsWay <=> MessageIsSeen /\ StopIsSeen
BY DEF WakeUpOnItsWay, MessageIsSeen, StopIsSeen, AwakeInRun

\* A sleeper that is woken, and one that takes or finishes a message, is awake.
LEMMA StepMessage ==
    TypeOK /\ SleepersInRun /\ MessageIsSeen /\ [Next]_vars => MessageIsSeen'
<1> SUFFICES ASSUME TypeOK, SleepersInRun, MessageIsSeen, [Next]_vars PROVE MessageIsSeen'
  OBVIOUS
<1> USE DEF TypeOK, SleepersInRun, MessageIsSeen, AwakeInRun
<1>1. ASSUME NEW t \in Posters \cup Runners, Push(t) PROVE MessageIsSeen'
  BY <1>1 DEF Push
<1>2. ASSUME NEW t \in Posters \cup Runners, NotifyOne(t) PROVE MessageIsSeen'
  <2>1. CASE asleep = {}
    BY <1>2, <2>1 DEF NotifyOne, Notify
  <2>2. CASE asleep # {}
    <3>1. PICK r \in asleep : asleep' = asleep \ {r}
      BY <1>2, <2>2 DEF NotifyOne, Notify
    <3>2. r \in Runners \ asleep' /\ phase'[r] = "loop"
      BY <1>2, <3>1 DEF NotifyOne
    <3> QED
      BY <3>2
  <2> QED
    BY <2>1, <2>2
<1>3. CASE PumpOnce
  BY <1>3 DEF PumpOnce, HasMessage, runVars
<1>4. ASSUME NEW r \in Runners, InRun(r) PROVE MessageIsSeen'
  <2>1. CASE Sleep(r)
    BY <2>1 DEF Sleep
  <2>2. CASE Take(r) \/ Finish(r)
    <3>1. r \in Runners \ asleep' /\ phase'[r] \in {"loop", "dispatch"}
      BY <2>2 DEF Take, Finish, InLoop
    <3> QED
      BY <3>1
  <2>3. CASE Leave(r)
    BY <2>3 DEF Leave, MayLeave
  <2>4. CASE ClearRunning(r)
    BY <2>4 DEF ClearRunning
  <2>5. CASE RunReturns(r)
    BY <2>5 DEF RunReturns
  <2> QED
    BY <1>4, <2>1, <2>2, <2>3, <2>4, <2>5 DEF InRun
<1>5. ASSUME NEW r \in Runners, WakeSpuriously(r) PROVE MessageIsSeen'
  <2>1. r \in Runners \ asleep' /\ phase'[r] = "loop"
    BY <1>5 DEF WakeSpuriously
  <2> QED
    BY <2>1
<1>6. ASSUME NEW r \in Runners, CallRun(r) PROVE MessageIsSeen'
  BY <1>6 DEF CallRun
<1>7. ASSUME NEW c \in Controllers, Start(c) PROVE MessageIsSeen'
  BY <1>7 DEF Start, Runners
<1>8. ASSUME NEW c \in Controllers, JoinReturns(c) PROVE MessageIsSeen'
  BY <1>8 DEF JoinReturns, WorkerEnded, Runners
<1>9. ASSUME NEW c \in Controllers, Stop(c) \/ CallJoin(c) \/ NotifyAll(c) \/ TestJoinable(c)
      PROVE  MessageIsSeen'
  BY <1>9 DEF Stop, CallJoin, NotifyAll, LeftAsleep, TestJoinable, runVars
<1>10. CASE UNCHANGED vars
  BY <1>10 DEF vars, runVars
<1> QED
  BY <1>1, <1>2, <1>3, <1>4, <1>5, <1>6, <1>7, <1>8, <1>9, <1>10 DEF Next, Post, Ending

\* Nobody goes to sleep on a stopped pump, and notify_all leaves nobody asleep.
LEMMA StepStop == TypeOK /\ StopIsSeen /\ [Next]_vars => StopIsSeen'
<1> SUFFICES ASSUME TypeOK, StopIsSeen, [Next]_vars PROVE StopIsSeen'
  OBVIOUS
<1> USE DEF TypeOK, StopIsSeen
<1>1. ASSUME NEW c \in Controllers, Start(c) PROVE StopIsSeen'
  BY <1>1 DEF Start
<1>2. ASSUME NEW c \in Controllers, Stop(c) PROVE StopIsSeen'
  BY <1>2 DEF Stop, Goto
<1>3. ASSUME NEW c \in Controllers, NotifyAll(c) PROVE StopIsSeen'
  BY <1>3 DEF NotifyAll, LeftAsleep
<1>4. ASSUME NEW c \in Controllers, CallJoin(c) \/ TestJoinable(c) \/ JoinReturns(c)
      PROVE  StopIsSeen'
  <2>1. asleep' = asleep /\ stopped' = stopped /\ control[c] # "notify"
    BY <1>4 DEF CallJoin, TestJoinable, JoinReturns, runVars
  <2>2. \A d \in Controllers : control[d] = "notify" => control'[d] = "notify"
    BY <1>4, <2>1 DEF CallJoin, TestJoinable, JoinReturns, Goto
  <2> QED
    BY <2>1, <2>2
<1>5. ASSUME NEW r \in Runners, Sleep(r) PROVE StopIsSeen'
  BY <1>5 DEF Sleep
<1>6. CASE asleep' \subseteq asleep /\ UNCHANGED <<stopped, control>>
  BY <1>6
<1> QED
  BY <1>1, <1>2, <1>3, <1>4, <1>5, <1>6
  DEF Next, Post, Push, NotifyOne, Notify, PumpOnce, InRun, Take, Finish, Leave, ClearRunning,
      RunReturns, WakeSpuriously, CallRun, Ending, callVars, runVars, vars

\* The inductive invariant.
LEMMA StepIInv == IInv /\ [Next]_vars => IInv'
BY StepTypeOK, StepSleepers, StepJoinable, StepMessage, StepStop, WakeUpParts
DEF IInv, WakeUpOnItsWay, MessageIsSeen, StopIsSeen, AwakeInRun

\* The inductive invariant holds in every state.
LEMMA IInvKept == Spec => []IInv
BY InitIInv, StepIInv, PTL DEF Spec

\* No wake-up is lost (SendMsg and Stop notify after they released the lock), for
\* any number of threads that post, run, stop and join.
THEOREM NoLostWakeUp == Spec => []WakeUpOnItsWay
<1>1. IInv => WakeUpOnItsWay
  BY DEF IInv
<1> QED
  BY <1>1, IInvKept, PTL

\* Start never replaces a worker that has not been joined, whoever else is in Run
\* and clears _running, and however many threads call Start, Stop and Join.
THEOREM StartedOnceKept == Spec => StartedOnce
<1>1. IInv => \A c \in Controllers : Start(c) => phase[Worker] = "none"
  BY DEF IInv, TypeOK, WorkerIsJoinable, Start, MayStart
<1> QED
  BY <1>1, IInvKept, PTL DEF StartedOnce

(***************************************************************************)
(* The steps of the pump are steps of module MessagePump.                  *)
(***************************************************************************)

\* The queue of the abstract pump is empty at first.
LEMMA InitMaps == Init => Abstract!Init
BY DEF Init, Abstract!Init, Runners, Abstract!Runners

\* A notification, a sleep, a wake-up and the flags of Start and Join are stutters.
LEMMA StepMaps == IInv /\ [Next]_vars => [Abstract!Next]_(Abstract!vars)
<1> SUFFICES ASSUME IInv, [Next]_vars PROVE Abstract!Next \/ UNCHANGED Abstract!vars
  OBVIOUS
<1> USE DEF Abstract!Next, Abstract!vars, Abstract!Runners, Abstract!Move, Runners,
            callVars, runVars
<1>0. Worker \in Runners
  OBVIOUS
<1>1. ASSUME NEW t \in Posters \cup Runners, Push(t) PROVE Abstract!Accept
  BY <1>1 DEF Push, Abstract!Accept
<1>2. CASE PumpOnce
  BY <1>2 DEF PumpOnce, HasMessage, Abstract!PumpOnce
<1>3. ASSUME NEW r \in Runners, InRun(r) PROVE Abstract!Next \/ UNCHANGED Abstract!vars
  <2>1. CASE Sleep(r) \/ ClearRunning(r)
    BY <2>1 DEF Sleep, ClearRunning
  <2>2. CASE Take(r)
    BY <2>2 DEF Take, InLoop, Abstract!Take
  <2>3. CASE Finish(r)
    BY <2>3 DEF Finish, Abstract!Finish
  <2>4. CASE Leave(r)
    BY <2>4 DEF Leave, InLoop, MayLeave, Abstract!Leave
  <2>5. CASE RunReturns(r)
    BY <2>5 DEF RunReturns, Abstract!Gone
  <2> QED
    BY <1>3, <2>1, <2>2, <2>3, <2>4, <2>5 DEF InRun
<1>4. ASSUME NEW r \in Runners, CallRun(r) PROVE Abstract!CallRun(r)
  BY <1>4 DEF CallRun, Abstract!CallRun
<1>5. ASSUME NEW c \in Controllers, Start(c) PROVE Abstract!Start
  <2>1. phase[Worker] = "none"
    BY <1>5 DEF IInv, TypeOK, WorkerIsJoinable, Start, MayStart
  <2> QED
    BY <1>5, <2>1 DEF Start, Abstract!Start
<1>6. ASSUME NEW c \in Controllers, Stop(c) PROVE Abstract!Stop
  BY <1>6 DEF Stop, Abstract!Stop
<1>7. ASSUME NEW c \in Controllers, JoinReturns(c) PROVE Abstract!Gone(Worker)
  BY <1>7 DEF JoinReturns, WorkerEnded, Abstract!Gone
<1>8. CASE UNCHANGED <<pump, stopped, phase>>
  BY <1>8
<1> QED
  BY <1>0, <1>1, <1>2, <1>3, <1>4, <1>5, <1>6, <1>7, <1>8
  DEF Next, Post, NotifyOne, WakeSpuriously, Ending, CallJoin, NotifyAll, TestJoinable, vars

\* For any number of threads the pump with its condition variable does only what
\* the pump that FsmManager assumes does.  (That it does as much, under fairness,
\* is left to ImplementsMessagePump, which TLC checks.)
THEOREM StepsOfMessagePump == Spec => Abstract!Init /\ [][Abstract!Next]_(Abstract!vars)
BY InitMaps, StepMaps, IInvKept, PTL DEF Spec
=============================================================================
