------------------------- MODULE ServiceShutdownProofs -------------------------
(***************************************************************************)
(* Theorems about ServiceShutdown: no use after destruction, and nothing   *)
(* left, for every set of requests and every number of io threads.         *)
(***************************************************************************)
EXTENDS ServiceShutdown, TLAPS

(***************************************************************************)
(* The inductive invariant: what each call of main may rely on.            *)
(***************************************************************************)

\* Which objects are alive is a matter of how far main has come.
AliveUntil ==
    /\ main \in {"start", "serving", "stopIoc", "joinIo", "stopManager", "joinWorker",
                 "destroyServer"} => alive = Objects
    /\ main \in {"stopTimers", "joinTimers", "clearFactories"} => alive = Objects \ {"server"}
    /\ main = "destroyMembers" => alive = {"pump", "timers"}

\* Handlers run only between Start and the join of the io threads, and a request that
\* has not been sent is being handled.
NoRequestLeft ==
    /\ main \notin {"serving", "stopIoc", "joinIo"} => handling = {}
    /\ \A f \in Flows : where[f] = "io" => f \in handling

\* Once the worker is joined nothing is queued or dispatched, and since the manager
\* refuses messages nothing will be.
Joined == {"destroyServer", "stopTimers", "joinTimers", "clearFactories", "destroyMembers",
           "exited"}
WorkerDone ==
    /\ main \in {"joinWorker"} \cup Joined => refusing
    /\ main \in Joined => \A f \in Flows : where[f] \notin {"pump", "worker", "reporting"}

\* Once the timer threads are joined none is left, and none is started.
TimersDone ==
    main \in {"clearFactories", "destroyMembers", "exited"}
      => \A f \in Flows : where[f] \notin {"sleeping", "expired"}

\* An FSM exists from its first dispatch until it is destroyed.
Unborn(f) == stage[f] = 0 \/ where[f] = "dropped" \/ (stage[f] = 1 /\ where[f] = "worker")
OneLife ==
    /\ \A f \in Flows : freed[f] = IF f \in fsms \/ Unborn(f) THEN 0 ELSE 1
    /\ \A f \in fsms : ~Unborn(f)
    /\ \A f \in Flows : where[f] \in {"pump", "worker", "reporting", "sleeping", "expired"} /\ ~Unborn(f)
          => f \in fsms
    /\ \A f \in Flows : where[f] = "reporting" => stage[f] = 3
    /\ \A f \in Flows : where[f] \in {"new", "io"} => stage[f] = 0
    /\ \A f \in Flows : where[f] \in {"sleeping", "expired"} => stage[f] = 2
    /\ \A f \in Flows : where[f] = "pump" => stage[f] \in 0..2
    /\ \A f \in Flows : where[f] = "worker" => stage[f] \in 1..3
    /\ main \in {"destroyMembers", "exited"} => fsms = {}

IInv == TypeOK /\ AliveUntil /\ NoRequestLeft /\ WorkerDone /\ TimersDone /\ OneLife
--------------------------------------------------------------------------------
USE DEF flowVars, Objects

\* Types are kept.
LEMMA StepType == IInv /\ [Next]_vars => TypeOK'
<1> SUFFICES ASSUME IInv, [Next]_vars PROVE TypeOK'
  OBVIOUS
<1>1. ASSUME NEW f \in Flows, Request(f) PROVE TypeOK'
  BY <1>1 DEF IInv, TypeOK, Held, Request, Move, MainUnchanged
<1>2. ASSUME NEW f \in Flows, SendInit(f) PROVE TypeOK'
  BY <1>2 DEF IInv, TypeOK, Held, Over, SendInit, Send, Move, ProgramUnchanged, MainUnchanged
<1>3. ASSUME NEW f \in Flows, Take(f) PROVE TypeOK'
  BY <1>3 DEF IInv, TypeOK, Held, OneLife, Take, Move, ProgramUnchanged, MainUnchanged
<1>4. ASSUME NEW f \in Flows, Drop(f) PROVE TypeOK'
  BY <1>4 DEF IInv, TypeOK, Over, Drop, Move, ProgramUnchanged, MainUnchanged
<1>5. ASSUME NEW f \in Flows, Open(f) PROVE TypeOK'
  BY <1>5 DEF IInv, TypeOK, Held, Over, Open, Send, Move, ProgramUnchanged, MainUnchanged
<1>6. ASSUME NEW f \in Flows, StartTimer(f) PROVE TypeOK'
  BY <1>6 DEF IInv, TypeOK, Held, StartTimer, Move, ProgramUnchanged, MainUnchanged
<1>7. ASSUME NEW f \in Flows, Report(f) PROVE TypeOK'
  BY <1>7 DEF IInv, TypeOK, Held, Over, OneLife, Report, Destroy, Erased, Move, ProgramUnchanged, MainUnchanged
<1>8. ASSUME NEW f \in Flows, KillFsm(f) PROVE TypeOK'
  BY <1>8 DEF IInv, TypeOK, Over, OneLife, KillFsm, Destroy, Erased, Move, ProgramUnchanged, MainUnchanged
<1>9. ASSUME NEW f \in Flows, Expire(f) PROVE TypeOK'
  BY <1>9 DEF IInv, TypeOK, Held, Over, Expire, AfterSleep, Move, ProgramUnchanged, MainUnchanged
<1>10. ASSUME NEW f \in Flows, PostTimeout(f) PROVE TypeOK'
  BY <1>10 DEF IInv, TypeOK, Held, Over, PostTimeout, Send, Move, ProgramUnchanged, MainUnchanged
<1>11. ASSUME StartServer PROVE TypeOK'
  BY <1>11 DEF IInv, TypeOK, StartServer, MainStep
<1>12. ASSUME StopServer PROVE TypeOK'
  BY <1>12 DEF IInv, TypeOK, StopServer, MainStep
<1>13. ASSUME StopIoc PROVE TypeOK'
  BY <1>13 DEF IInv, TypeOK, StopIoc, MainStep
<1>14. ASSUME JoinIo PROVE TypeOK'
  BY <1>14 DEF IInv, TypeOK, JoinIo, MainStep
<1>15. ASSUME StopManager PROVE TypeOK'
  BY <1>15 DEF IInv, TypeOK, StopManager, MainStep
<1>16. ASSUME JoinWorker PROVE TypeOK'
  BY <1>16 DEF IInv, TypeOK, JoinWorker, MainStep
<1>17. ASSUME DestroyServer PROVE TypeOK'
  BY <1>17 DEF IInv, TypeOK, DestroyServer, MainStep
<1>18. ASSUME StopAllTimers PROVE TypeOK'
  BY <1>18 DEF IInv, TypeOK, StopAllTimers, MainStep
<1>19. ASSUME JoinTimers PROVE TypeOK'
  BY <1>19 DEF IInv, TypeOK, JoinTimers, MainStep
<1>20. ASSUME ClearFactories PROVE TypeOK'
  BY <1>20 DEF IInv, TypeOK, OneLife, ClearFactories, FreedByFactory, MainStep
<1>21. ASSUME DestroyMembers PROVE TypeOK'
  BY <1>21 DEF IInv, TypeOK, DestroyMembers, MainStep
<1>22. CASE UNCHANGED vars
  BY <1>22 DEF IInv, TypeOK, vars
<1>23. ASSUME NEW f \in Flows, EndHandler(f) PROVE TypeOK'
  BY <1>23 DEF IInv, TypeOK, EndHandler, MainUnchanged
<1> QED
  BY <1>1, <1>2, <1>3, <1>4, <1>5, <1>6, <1>7, <1>8, <1>9, <1>10, <1>11, <1>12, <1>13, <1>14,
     <1>15, <1>16, <1>17, <1>18, <1>19, <1>20, <1>21, <1>22, <1>23
     DEF Next, IoThread, TimerThread, Dispatch, WorkerThread, Shutdown

\* main destroys in its order.
LEMMA StepAlive == IInv /\ [Next]_vars => AliveUntil'
<1> SUFFICES ASSUME IInv, [Next]_vars PROVE AliveUntil'
  OBVIOUS
<1>1. ASSUME NEW f \in Flows, Request(f) PROVE AliveUntil'
  BY <1>1 DEF IInv, AliveUntil, Request, MainUnchanged
<1>2. ASSUME NEW f \in Flows, SendInit(f) PROVE AliveUntil'
  BY <1>2 DEF IInv, AliveUntil, SendInit, ProgramUnchanged, MainUnchanged
<1>3. ASSUME NEW f \in Flows, Take(f) PROVE AliveUntil'
  BY <1>3 DEF IInv, AliveUntil, Take, ProgramUnchanged, MainUnchanged
<1>4. ASSUME NEW f \in Flows, Drop(f) PROVE AliveUntil'
  BY <1>4 DEF IInv, AliveUntil, Drop, ProgramUnchanged, MainUnchanged
<1>5. ASSUME NEW f \in Flows, Open(f) PROVE AliveUntil'
  BY <1>5 DEF IInv, AliveUntil, Open, ProgramUnchanged, MainUnchanged
<1>6. ASSUME NEW f \in Flows, StartTimer(f) PROVE AliveUntil'
  BY <1>6 DEF IInv, AliveUntil, StartTimer, ProgramUnchanged, MainUnchanged
<1>7. ASSUME NEW f \in Flows, Report(f) PROVE AliveUntil'
  BY <1>7 DEF IInv, AliveUntil, Report, ProgramUnchanged, MainUnchanged
<1>8. ASSUME NEW f \in Flows, KillFsm(f) PROVE AliveUntil'
  BY <1>8 DEF IInv, AliveUntil, KillFsm, ProgramUnchanged, MainUnchanged
<1>9. ASSUME NEW f \in Flows, Expire(f) PROVE AliveUntil'
  BY <1>9 DEF IInv, AliveUntil, Expire, ProgramUnchanged, MainUnchanged
<1>10. ASSUME NEW f \in Flows, PostTimeout(f) PROVE AliveUntil'
  BY <1>10 DEF IInv, AliveUntil, PostTimeout, ProgramUnchanged, MainUnchanged
<1>11. ASSUME StartServer PROVE AliveUntil'
  BY <1>11 DEF IInv, AliveUntil, StartServer, MainStep
<1>12. ASSUME StopServer PROVE AliveUntil'
  BY <1>12 DEF IInv, AliveUntil, StopServer, MainStep
<1>13. ASSUME StopIoc PROVE AliveUntil'
  BY <1>13 DEF IInv, AliveUntil, StopIoc, MainStep
<1>14. ASSUME JoinIo PROVE AliveUntil'
  BY <1>14 DEF IInv, AliveUntil, JoinIo, MainStep
<1>15. ASSUME StopManager PROVE AliveUntil'
  BY <1>15 DEF IInv, AliveUntil, StopManager, MainStep
<1>16. ASSUME JoinWorker PROVE AliveUntil'
  BY <1>16 DEF IInv, AliveUntil, JoinWorker, MainStep
<1>17. ASSUME DestroyServer PROVE AliveUntil'
  BY <1>17 DEF IInv, AliveUntil, DestroyServer, MainStep
<1>18. ASSUME StopAllTimers PROVE AliveUntil'
  BY <1>18 DEF IInv, AliveUntil, StopAllTimers, MainStep
<1>19. ASSUME JoinTimers PROVE AliveUntil'
  BY <1>19 DEF IInv, AliveUntil, JoinTimers, MainStep
<1>20. ASSUME ClearFactories PROVE AliveUntil'
  BY <1>20 DEF IInv, AliveUntil, ClearFactories, MainStep
<1>21. ASSUME DestroyMembers PROVE AliveUntil'
  BY <1>21 DEF AliveUntil, DestroyMembers, MainStep
<1>22. CASE UNCHANGED vars
  BY <1>22 DEF IInv, AliveUntil, vars
<1>23. ASSUME NEW f \in Flows, EndHandler(f) PROVE AliveUntil'
  BY <1>23 DEF IInv, AliveUntil, EndHandler, MainUnchanged
<1> QED
  BY <1>1, <1>2, <1>3, <1>4, <1>5, <1>6, <1>7, <1>8, <1>9, <1>10, <1>11, <1>12, <1>13, <1>14,
     <1>15, <1>16, <1>17, <1>18, <1>19, <1>20, <1>21, <1>22, <1>23
     DEF Next, IoThread, TimerThread, Dispatch, WorkerThread, Shutdown

\* No request begins once the io threads are joined.
LEMMA StepRequest == IInv /\ [Next]_vars => NoRequestLeft'
<1> SUFFICES ASSUME IInv, [Next]_vars PROVE NoRequestLeft'
  OBVIOUS
<1>1. ASSUME NEW f \in Flows, Request(f) PROVE NoRequestLeft'
  BY <1>1 DEF IInv, NoRequestLeft, Request, Move, MainUnchanged
<1>2. ASSUME NEW f \in Flows, SendInit(f) PROVE NoRequestLeft'
  BY <1>2 DEF IInv, NoRequestLeft, SendInit, Send, Move, ProgramUnchanged, MainUnchanged
<1>3. ASSUME NEW f \in Flows, Take(f) PROVE NoRequestLeft'
  BY <1>3 DEF IInv, NoRequestLeft, Take, Move, ProgramUnchanged, MainUnchanged
<1>4. ASSUME NEW f \in Flows, Drop(f) PROVE NoRequestLeft'
  BY <1>4 DEF IInv, NoRequestLeft, Drop, Move, ProgramUnchanged, MainUnchanged
<1>5. ASSUME NEW f \in Flows, Open(f) PROVE NoRequestLeft'
  BY <1>5 DEF IInv, NoRequestLeft, Open, Send, Move, ProgramUnchanged, MainUnchanged
<1>6. ASSUME NEW f \in Flows, StartTimer(f) PROVE NoRequestLeft'
  BY <1>6 DEF IInv, NoRequestLeft, StartTimer, Move, ProgramUnchanged, MainUnchanged
<1>7. ASSUME NEW f \in Flows, Report(f) PROVE NoRequestLeft'
  BY <1>7 DEF IInv, NoRequestLeft, Report, Move, ProgramUnchanged, MainUnchanged
<1>8. ASSUME NEW f \in Flows, KillFsm(f) PROVE NoRequestLeft'
  BY <1>8 DEF IInv, NoRequestLeft, KillFsm, Move, ProgramUnchanged, MainUnchanged
<1>9. ASSUME NEW f \in Flows, Expire(f) PROVE NoRequestLeft'
  BY <1>9 DEF IInv, NoRequestLeft, Expire, AfterSleep, Move, ProgramUnchanged, MainUnchanged
<1>10. ASSUME NEW f \in Flows, PostTimeout(f) PROVE NoRequestLeft'
  BY <1>10 DEF IInv, NoRequestLeft, PostTimeout, Send, Move, ProgramUnchanged, MainUnchanged
<1>11. ASSUME StartServer PROVE NoRequestLeft'
  BY <1>11 DEF IInv, NoRequestLeft, StartServer, MainStep
<1>12. ASSUME StopServer PROVE NoRequestLeft'
  BY <1>12 DEF IInv, NoRequestLeft, StopServer, MainStep
<1>13. ASSUME StopIoc PROVE NoRequestLeft'
  BY <1>13 DEF IInv, NoRequestLeft, StopIoc, MainStep
<1>14. ASSUME JoinIo PROVE NoRequestLeft'
  BY <1>14 DEF IInv, NoRequestLeft, JoinIo, HandlersGone, MainStep
<1>15. ASSUME StopManager PROVE NoRequestLeft'
  BY <1>15 DEF IInv, NoRequestLeft, StopManager, MainStep
<1>16. ASSUME JoinWorker PROVE NoRequestLeft'
  BY <1>16 DEF IInv, NoRequestLeft, JoinWorker, MainStep
<1>17. ASSUME DestroyServer PROVE NoRequestLeft'
  BY <1>17 DEF IInv, NoRequestLeft, DestroyServer, MainStep
<1>18. ASSUME StopAllTimers PROVE NoRequestLeft'
  BY <1>18 DEF IInv, NoRequestLeft, StopAllTimers, MainStep
<1>19. ASSUME JoinTimers PROVE NoRequestLeft'
  BY <1>19 DEF IInv, NoRequestLeft, JoinTimers, MainStep
<1>20. ASSUME ClearFactories PROVE NoRequestLeft'
  BY <1>20 DEF IInv, NoRequestLeft, ClearFactories, MainStep
<1>21. ASSUME DestroyMembers PROVE NoRequestLeft'
  BY <1>21 DEF IInv, NoRequestLeft, DestroyMembers, MainStep
<1>22. CASE UNCHANGED vars
  BY <1>22 DEF IInv, NoRequestLeft, vars
<1>23. ASSUME NEW f \in Flows, EndHandler(f) PROVE NoRequestLeft'
  BY <1>23 DEF IInv, NoRequestLeft, EndHandler, MainUnchanged
<1> QED
  BY <1>1, <1>2, <1>3, <1>4, <1>5, <1>6, <1>7, <1>8, <1>9, <1>10, <1>11, <1>12, <1>13, <1>14,
     <1>15, <1>16, <1>17, <1>18, <1>19, <1>20, <1>21, <1>22, <1>23
     DEF Next, IoThread, TimerThread, Dispatch, WorkerThread, Shutdown

\* Nothing enters the queue of a stopped manager.
LEMMA StepWorker == IInv /\ [Next]_vars => WorkerDone'
<1> SUFFICES ASSUME IInv, [Next]_vars PROVE WorkerDone'
  OBVIOUS
<1>1. ASSUME NEW f \in Flows, Request(f) PROVE WorkerDone'
  BY <1>1 DEF WorkerDone, Joined, Request, MainUnchanged
<1>2. ASSUME NEW f \in Flows, SendInit(f) PROVE WorkerDone'
  BY <1>2 DEF IInv, WorkerDone, SendInit, Send, Move, ProgramUnchanged, MainUnchanged
<1>3. ASSUME NEW f \in Flows, Take(f) PROVE WorkerDone'
  BY <1>3 DEF IInv, WorkerDone, Take, Move, ProgramUnchanged, MainUnchanged
<1>4. ASSUME NEW f \in Flows, Drop(f) PROVE WorkerDone'
  BY <1>4 DEF IInv, WorkerDone, Drop, Move, ProgramUnchanged, MainUnchanged
<1>5. ASSUME NEW f \in Flows, Open(f) PROVE WorkerDone'
  BY <1>5 DEF IInv, WorkerDone, Open, Send, Move, ProgramUnchanged, MainUnchanged
<1>6. ASSUME NEW f \in Flows, StartTimer(f) PROVE WorkerDone'
  BY <1>6 DEF IInv, WorkerDone, StartTimer, Move, ProgramUnchanged, MainUnchanged
<1>7. ASSUME NEW f \in Flows, Report(f) PROVE WorkerDone'
  BY <1>7 DEF IInv, WorkerDone, Report, Move, ProgramUnchanged, MainUnchanged
<1>8. ASSUME NEW f \in Flows, KillFsm(f) PROVE WorkerDone'
  BY <1>8 DEF IInv, WorkerDone, KillFsm, Move, ProgramUnchanged, MainUnchanged
<1>9. ASSUME NEW f \in Flows, Expire(f) PROVE WorkerDone'
  BY <1>9 DEF IInv, WorkerDone, Expire, AfterSleep, Move, ProgramUnchanged, MainUnchanged
<1>10. ASSUME NEW f \in Flows, PostTimeout(f) PROVE WorkerDone'
  BY <1>10 DEF IInv, WorkerDone, PostTimeout, Send, Move, ProgramUnchanged, MainUnchanged
<1>11. ASSUME StartServer PROVE WorkerDone'
  BY <1>11 DEF WorkerDone, Joined, StartServer, MainStep
<1>12. ASSUME StopServer PROVE WorkerDone'
  BY <1>12 DEF WorkerDone, Joined, StopServer, MainStep
<1>13. ASSUME StopIoc PROVE WorkerDone'
  BY <1>13 DEF WorkerDone, Joined, StopIoc, MainStep
<1>14. ASSUME JoinIo PROVE WorkerDone'
  BY <1>14 DEF WorkerDone, Joined, JoinIo, MainStep
<1>15. ASSUME StopManager PROVE WorkerDone'
  BY <1>15 DEF WorkerDone, Joined, StopManager, MainStep
<1>16. ASSUME JoinWorker PROVE WorkerDone'
  BY <1>16 DEF IInv, WorkerDone, JoinWorker, WorkerGone, At, MainStep
<1>17. ASSUME DestroyServer PROVE WorkerDone'
  BY <1>17 DEF IInv, WorkerDone, Joined, DestroyServer, MainStep
<1>18. ASSUME StopAllTimers PROVE WorkerDone'
  BY <1>18 DEF IInv, WorkerDone, Joined, StopAllTimers, MainStep
<1>19. ASSUME JoinTimers PROVE WorkerDone'
  BY <1>19 DEF IInv, WorkerDone, Joined, JoinTimers, MainStep
<1>20. ASSUME ClearFactories PROVE WorkerDone'
  BY <1>20 DEF IInv, WorkerDone, Joined, ClearFactories, MainStep
<1>21. ASSUME DestroyMembers PROVE WorkerDone'
  BY <1>21 DEF IInv, WorkerDone, Joined, DestroyMembers, MainStep
<1>22. CASE UNCHANGED vars
  BY <1>22 DEF IInv, WorkerDone, vars
<1>23. ASSUME NEW f \in Flows, EndHandler(f) PROVE WorkerDone'
  BY <1>23 DEF IInv, WorkerDone, EndHandler, MainUnchanged
<1> QED
  BY <1>1, <1>2, <1>3, <1>4, <1>5, <1>6, <1>7, <1>8, <1>9, <1>10, <1>11, <1>12, <1>13, <1>14,
     <1>15, <1>16, <1>17, <1>18, <1>19, <1>20, <1>21, <1>22, <1>23
     DEF Next, IoThread, TimerThread, Dispatch, WorkerThread, Shutdown

\* No timer is started once the worker is gone.
LEMMA StepTimers == IInv /\ [Next]_vars => TimersDone'
<1> SUFFICES ASSUME IInv, [Next]_vars PROVE TimersDone'
  OBVIOUS
<1>1. ASSUME NEW f \in Flows, Request(f) PROVE TimersDone'
  BY <1>1 DEF TimersDone, Request, MainUnchanged
<1>2. ASSUME NEW f \in Flows, SendInit(f) PROVE TimersDone'
  BY <1>2 DEF IInv, TimersDone, SendInit, Send, Move, ProgramUnchanged, MainUnchanged
<1>3. ASSUME NEW f \in Flows, Take(f) PROVE TimersDone'
  BY <1>3 DEF IInv, TimersDone, Take, Move, ProgramUnchanged, MainUnchanged
<1>4. ASSUME NEW f \in Flows, Drop(f) PROVE TimersDone'
  BY <1>4 DEF IInv, TimersDone, Drop, Move, ProgramUnchanged, MainUnchanged
<1>5. ASSUME NEW f \in Flows, Open(f) PROVE TimersDone'
  BY <1>5 DEF IInv, TimersDone, Open, Send, Move, ProgramUnchanged, MainUnchanged
<1>6. ASSUME NEW f \in Flows, StartTimer(f) PROVE TimersDone'
  BY <1>6 DEF IInv, TimersDone, WorkerDone, Joined, StartTimer, Move, ProgramUnchanged, MainUnchanged
<1>7. ASSUME NEW f \in Flows, Report(f) PROVE TimersDone'
  BY <1>7 DEF IInv, TimersDone, Report, Move, ProgramUnchanged, MainUnchanged
<1>8. ASSUME NEW f \in Flows, KillFsm(f) PROVE TimersDone'
  BY <1>8 DEF IInv, TimersDone, KillFsm, Move, ProgramUnchanged, MainUnchanged
<1>9. ASSUME NEW f \in Flows, Expire(f) PROVE TimersDone'
  BY <1>9 DEF IInv, TimersDone, Expire, Move, ProgramUnchanged, MainUnchanged
<1>10. ASSUME NEW f \in Flows, PostTimeout(f) PROVE TimersDone'
  BY <1>10 DEF IInv, TimersDone, PostTimeout, Send, Move, ProgramUnchanged, MainUnchanged
<1>11. ASSUME StartServer PROVE TimersDone'
  BY <1>11 DEF TimersDone, StartServer, MainStep
<1>12. ASSUME StopServer PROVE TimersDone'
  BY <1>12 DEF TimersDone, StopServer, MainStep
<1>13. ASSUME StopIoc PROVE TimersDone'
  BY <1>13 DEF TimersDone, StopIoc, MainStep
<1>14. ASSUME JoinIo PROVE TimersDone'
  BY <1>14 DEF TimersDone, JoinIo, MainStep
<1>15. ASSUME StopManager PROVE TimersDone'
  BY <1>15 DEF TimersDone, StopManager, MainStep
<1>16. ASSUME JoinWorker PROVE TimersDone'
  BY <1>16 DEF TimersDone, JoinWorker, MainStep
<1>17. ASSUME DestroyServer PROVE TimersDone'
  BY <1>17 DEF TimersDone, DestroyServer, MainStep
<1>18. ASSUME StopAllTimers PROVE TimersDone'
  BY <1>18 DEF TimersDone, StopAllTimers, MainStep
<1>19. ASSUME JoinTimers PROVE TimersDone'
  BY <1>19 DEF TimersDone, JoinTimers, TimersGone, At
<1>20. ASSUME ClearFactories PROVE TimersDone'
  BY <1>20 DEF IInv, TimersDone, ClearFactories, MainStep
<1>21. ASSUME DestroyMembers PROVE TimersDone'
  BY <1>21 DEF IInv, TimersDone, DestroyMembers, MainStep
<1>22. CASE UNCHANGED vars
  BY <1>22 DEF IInv, TimersDone, vars
<1>23. ASSUME NEW f \in Flows, EndHandler(f) PROVE TimersDone'
  BY <1>23 DEF IInv, TimersDone, EndHandler, MainUnchanged
<1> QED
  BY <1>1, <1>2, <1>3, <1>4, <1>5, <1>6, <1>7, <1>8, <1>9, <1>10, <1>11, <1>12, <1>13, <1>14,
     <1>15, <1>16, <1>17, <1>18, <1>19, <1>20, <1>21, <1>22, <1>23
     DEF Next, IoThread, TimerThread, Dispatch, WorkerThread, Shutdown

\* An FSM lives once.
LEMMA StepLife == IInv /\ [Next]_vars => OneLife'
<1> SUFFICES ASSUME IInv, [Next]_vars PROVE OneLife'
  OBVIOUS
<1>1. ASSUME NEW f \in Flows, Request(f) PROVE OneLife'
  BY <1>1 DEF IInv, OneLife, Unborn, Request, Move, MainUnchanged
<1>2. ASSUME NEW f \in Flows, SendInit(f) PROVE OneLife'
  BY <1>2 DEF IInv, OneLife, Unborn, SendInit, Send, Move, ProgramUnchanged, MainUnchanged
<1>3. ASSUME NEW f \in Flows, Take(f) PROVE OneLife'
  BY <1>3 DEF IInv, TypeOK, OneLife, Unborn, Take, Move, ProgramUnchanged, MainUnchanged
<1>4. ASSUME NEW f \in Flows, Drop(f) PROVE OneLife'
  BY <1>4 DEF IInv, OneLife, Unborn, Drop, Move, ProgramUnchanged, MainUnchanged
<1>5. ASSUME NEW f \in Flows, Open(f) PROVE OneLife'
  BY <1>5
     DEF IInv, TypeOK, OneLife, Unborn, WorkerDone, Joined, Open, Send, Move,
         ProgramUnchanged, MainUnchanged
<1>6. ASSUME NEW f \in Flows, StartTimer(f) PROVE OneLife'
  BY <1>6 DEF IInv, OneLife, Unborn, StartTimer, Move, ProgramUnchanged, MainUnchanged
<1>7. ASSUME NEW f \in Flows, Report(f) PROVE OneLife'
  BY <1>7 DEF IInv, TypeOK, OneLife, Unborn, Report, Destroy, Erased, Move, ProgramUnchanged, MainUnchanged
<1>8. ASSUME NEW f \in Flows, KillFsm(f) PROVE OneLife'
  BY <1>8 DEF IInv, TypeOK, OneLife, Unborn, KillFsm, Destroy, Erased, Move, ProgramUnchanged, MainUnchanged
<1>9. ASSUME NEW f \in Flows, Expire(f) PROVE OneLife'
  BY <1>9 DEF IInv, OneLife, Unborn, Expire, AfterSleep, Move, ProgramUnchanged, MainUnchanged
<1>10. ASSUME NEW f \in Flows, PostTimeout(f) PROVE OneLife'
  BY <1>10 DEF IInv, OneLife, Unborn, PostTimeout, Send, Move, ProgramUnchanged, MainUnchanged
<1>11. ASSUME StartServer PROVE OneLife'
  BY <1>11 DEF IInv, OneLife, Unborn, StartServer, MainStep
<1>12. ASSUME StopServer PROVE OneLife'
  BY <1>12 DEF IInv, OneLife, Unborn, StopServer, MainStep
<1>13. ASSUME StopIoc PROVE OneLife'
  BY <1>13 DEF IInv, OneLife, Unborn, StopIoc, MainStep
<1>14. ASSUME JoinIo PROVE OneLife'
  BY <1>14 DEF IInv, OneLife, Unborn, JoinIo, MainStep
<1>15. ASSUME StopManager PROVE OneLife'
  BY <1>15 DEF IInv, OneLife, Unborn, StopManager, MainStep
<1>16. ASSUME JoinWorker PROVE OneLife'
  BY <1>16 DEF IInv, OneLife, Unborn, JoinWorker, MainStep
<1>17. ASSUME DestroyServer PROVE OneLife'
  BY <1>17 DEF IInv, OneLife, Unborn, DestroyServer, MainStep
<1>18. ASSUME StopAllTimers PROVE OneLife'
  BY <1>18 DEF IInv, OneLife, Unborn, StopAllTimers, MainStep
<1>19. ASSUME JoinTimers PROVE OneLife'
  BY <1>19 DEF IInv, OneLife, Unborn, JoinTimers, MainStep
<1>20. ASSUME ClearFactories PROVE OneLife'
  BY <1>20
     DEF IInv, OneLife, Unborn, WorkerDone, Joined, TimersDone, ClearFactories,
         FreedByFactory, MainStep
<1>21. ASSUME DestroyMembers PROVE OneLife'
  BY <1>21 DEF IInv, OneLife, Unborn, DestroyMembers, MainStep
<1>22. CASE UNCHANGED vars
  BY <1>22 DEF IInv, OneLife, Unborn, vars
<1>23. ASSUME NEW f \in Flows, EndHandler(f) PROVE OneLife'
  BY <1>23 DEF IInv, OneLife, Unborn, EndHandler, MainUnchanged
<1> QED
  BY <1>1, <1>2, <1>3, <1>4, <1>5, <1>6, <1>7, <1>8, <1>9, <1>10, <1>11, <1>12, <1>13, <1>14,
     <1>15, <1>16, <1>17, <1>18, <1>19, <1>20, <1>21, <1>22, <1>23
     DEF Next, IoThread, TimerThread, Dispatch, WorkerThread, Shutdown

\* The invariant holds at first and every step keeps it.
LEMMA Invariant == Spec => []IInv
<1>1. Init => IInv
  <2> SUFFICES ASSUME Init PROVE IInv
    OBVIOUS
  <2>1. TypeOK
    <3>1. where \in [Flows -> Held \cup Over]
      BY DEF Init, Held
    <3>2. stage \in [Flows -> 0..3] /\ freed \in [Flows -> 0..1]
      BY DEF Init
    <3> QED
      BY <3>1, <3>2 DEF Init, TypeOK
  <2>2. AliveUntil /\ NoRequestLeft /\ WorkerDone /\ TimersDone
    BY DEF Init, AliveUntil, NoRequestLeft, WorkerDone, Joined, TimersDone
  <2>3. OneLife
    BY DEF Init, OneLife, Unborn
  <2> QED
    BY <2>1, <2>2, <2>3 DEF IInv
<1>2. IInv /\ [Next]_vars => IInv'
  BY StepType, StepAlive, StepRequest, StepWorker, StepTimers, StepLife DEF IInv
<1> QED
  BY <1>1, <1>2, PTL DEF Spec
--------------------------------------------------------------------------------
\* Handlers until they return, dispatches and timer threads never meet a server, a pump, a timer
\* list or a factory that main or ~Cfactory_mgr has destroyed.
THEOREM NothingUsedAfterDestroy == Spec => []NoUseAfterDestroy
<1>1. IInv => NoUseAfterDestroy
  <2>0. IInv /\ handling # {} => "server" \in alive
    BY DEF IInv, NoRequestLeft, AliveUntil
  <2> SUFFICES ASSUME IInv, NEW f \in Flows PROVE Needs(where[f]) \subseteq alive
    BY <2>0 DEF NoUseAfterDestroy
  <2>1. where[f] \in Held \cup Over
    BY DEF IInv, TypeOK
  <2>2. CASE where[f] = "io"
    BY <2>2 DEF IInv, AliveUntil, NoRequestLeft, Needs
  <2>3. CASE where[f] \in {"pump", "worker", "reporting"}
    BY <2>3 DEF IInv, TypeOK, AliveUntil, WorkerDone, Joined, Needs
  <2>4. CASE where[f] \in {"sleeping", "expired"}
    BY <2>4 DEF IInv, TypeOK, AliveUntil, TimersDone, Needs
  <2>5. CASE where[f] \in {"new"} \cup Over
    BY <2>5 DEF Over, Needs
  <2> QED
    BY <2>1, <2>2, <2>3, <2>4, <2>5 DEF Held
<1> QED
  BY <1>1, Invariant, PTL

\* When main returns every FSM has been destroyed, and none twice.
THEOREM EachDestroyedOnce == Spec => []DestroyedOnce
<1>1. IInv => DestroyedOnce
  BY DEF IInv, TypeOK, WorkerDone, Joined, OneLife, Unborn, DestroyedOnce
<1> QED
  BY <1>1, Invariant, PTL

\* When main returns no message is left anywhere.
THEOREM NothingLeft == Spec => []NothingLeftBehind
<1>1. IInv => NothingLeftBehind
  BY DEF IInv, TypeOK, Held, NoRequestLeft, WorkerDone, Joined, TimersDone, NothingLeftBehind
<1> QED
  BY <1>1, Invariant, PTL
================================================================================
