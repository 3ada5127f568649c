--------------------------- MODULE HttpServerProofs ---------------------------
(***************************************************************************)
(* Theorems about HttpServer, for every set of requests, every choice of   *)
(* session ids by clients and every number of io threads.                  *)
(***************************************************************************)
EXTENDS HttpServer, TLAPS

(***************************************************************************)
(* The inductive invariant.                                                *)
(***************************************************************************)

\* The worker is joined before the server is destroyed.
WorkerJoined == main = "destroyed" => worker = "joined"

\* Only synchronous requests register and wait.
OnlySyncWaits ==
    \A r \in Requests : handler[r] \in {"register", "wait", "unregister"} => r \in Sync

\* Stop has entries to complete only while it notifies.
StopNotifies == main # "notify" => toStop = {}

\* A synchronous request that has registered, and is not complete, is in the map
\* or about to be completed by Stop.
SleeperIsKnown ==
    \A r \in Sync :
        (handler[r] \in {"send", "wait"} /\ ~entry[r].completed) => r \in waiters \cup toStop

\* A flow is opened by the send.
FlowAfterSend ==
    \A r \in Requests : handler[r] \in {"new", "register", "send"} => flow[r] = "none"

\* The worker reports one flow at a time, the one it says.
OneReport ==
    /\ worker \in {"collect", "notify"} => reported \in Requests /\ flow[reported] = "reporting"
    /\ \A r \in Requests :
          flow[r] = "reporting" => worker \in {"collect", "notify"} /\ reported = r

\* Once the entries are collected, the one of the reported flow is among them, or
\* was complete, or Stop has it.
ReportReaches ==
    (worker = "notify" /\ handler[reported] = "wait")
        => entry[reported].completed \/ reported \in toNotify \cup toStop

\* The entries that are to be notified have the key of the reported flow, and so
\* has each entry the key of the flow that its event names.
NotifiedByKey == worker = "notify" => \A r \in toNotify : Key(r) = Key(reported)
EntryByKey ==
    \A r \in Requests :
        /\ entry[r].of # NoRequest =>
              /\ Key(entry[r].of) = Key(r)
              /\ handler[r] # "new" /\ handler[entry[r].of] # "new"
        /\ entry[r].result = "SUCCESS" => entry[r].of # NoRequest
        /\ answer[r] = "200" => entry[r].of # NoRequest

ControlInv == WorkerJoined /\ OnlySyncWaits /\ StopNotifies /\ FlowAfterSend /\ OneReport
WaiterInv  == WaitersAreLive /\ SleeperIsKnown
ReportInv  == ReportReaches /\ NoMissedCompletion
KeyInv     == NotifiedByKey /\ EntryByKey

IInv == TypeOK /\ ControlInv /\ WaiterInv /\ ReportInv /\ KeyInv
-----------------------------------------------------------------------------
USE DEF shutdownVars, requestVars, managerVars

\* Types are kept.
LEMMA StepType == IInv /\ [Next]_vars => TypeOK'
<1> SUFFICES ASSUME IInv, [Next]_vars PROVE TypeOK'
  OBVIOUS
<1>1. ASSUME NEW r \in Requests, Begin(r) PROVE TypeOK'
  <2>1. nextSession' \in 0..(SessionModulus - 1)
    <3>1. Generated + 1 \in Nat /\ SessionModulus \in Nat \ {0}
      BY RequestAssumption DEF IInv, TypeOK, Generated
    <3>2. \A n \in Nat, m \in Nat \ {0} : n % m \in 0..(m - 1)
      OBVIOUS
    <3> QED
      BY <1>1, <3>1, <3>2 DEF Begin, Drawn
  <2>2. session' \in [Requests -> Nat]
    <3>1. Generated \in Nat /\ Explicit[r] \in Nat
      BY RequestAssumption DEF IInv, TypeOK, Generated
    <3> QED
      BY <1>1, <3>1 DEF IInv, TypeOK, Begin
  <2>3. handler' \in [Requests -> {"new", "register", "send", "wait", "unregister", "answered"}]
    BY <1>1 DEF IInv, TypeOK, Begin
  <2> QED
    BY <1>1, <2>1, <2>2, <2>3 DEF IInv, TypeOK, Begin
<1>2. ASSUME NEW r \in Requests, RegisterWaiter(r) PROVE TypeOK'
  BY <1>2 DEF IInv, TypeOK, ControlInv, OnlySyncWaits, RegisterWaiter, Registered
<1>3. ASSUME NEW r \in Requests, SendAsync(r) PROVE TypeOK'
  BY <1>3 DEF IInv, TypeOK, SendAsync
<1>4. ASSUME NEW r \in Requests, SendSync(r) PROVE TypeOK'
  BY <1>4 DEF IInv, TypeOK, SendSync
<1>5. ASSUME NEW r \in Requests, WaitEnds(r) PROVE TypeOK'
  BY <1>5 DEF IInv, TypeOK, WaitEnds, WaitCompletes, WaitTimesOut
<1>6. ASSUME NEW r \in Requests, UnregisterWaiter(r) PROVE TypeOK'
  BY <1>6 DEF IInv, TypeOK, UnregisterWaiter, Unregistered
<1>7. ASSUME NEW r \in Requests, LoseFlow(r) PROVE TypeOK'
  BY <1>7 DEF IInv, TypeOK, LoseFlow
<1>8. ASSUME NEW r \in Requests, CopyCallback(r) PROVE TypeOK'
  BY <1>8 DEF IInv, TypeOK, CopyCallback
<1>9. ASSUME CollectEntries PROVE TypeOK'
  BY <1>9 DEF IInv, TypeOK, CollectEntries, EntriesToNotify
<1>10. ASSUME NEW r \in Requests, CompleteEntry(r) PROVE TypeOK'
  BY <1>10 DEF IInv, TypeOK, CompleteEntry
<1>11. ASSUME EndReport PROVE TypeOK'
  BY <1>11 DEF IInv, TypeOK, EndReport
<1>12. ASSUME StartServer PROVE TypeOK'
  BY <1>12 DEF IInv, TypeOK, StartServer
<1>13. ASSUME ClearCallback PROVE TypeOK'
  BY <1>13 DEF IInv, TypeOK, ClearCallback
<1>14. ASSUME TakeWaiters PROVE TypeOK'
  BY <1>14 DEF IInv, TypeOK, TakeWaiters, WaitersToStop
<1>15. ASSUME NEW r \in Requests, StopEntry(r) PROVE TypeOK'
  <2>1. [completed |-> TRUE, result |-> "INVALID_STATE", of |-> entry[r].of]
          \in [completed : BOOLEAN, result : {"unset", "SUCCESS", "INVALID_STATE"},
              of : Requests \cup {NoRequest}]
    BY DEF IInv, TypeOK
  <2>2. entry' \in [Requests -> [completed : BOOLEAN, result : {"unset", "SUCCESS", "INVALID_STATE"},
                                of : Requests \cup {NoRequest}]]
    BY <1>15, <2>1 DEF IInv, TypeOK, StopEntry
  <2> QED
    BY <1>15, <2>2 DEF IInv, TypeOK, StopEntry
<1>16. ASSUME StopIoc PROVE TypeOK'
  BY <1>16 DEF IInv, TypeOK, StopIoc
<1>17. ASSUME JoinIoThreads PROVE TypeOK'
  BY <1>17 DEF IInv, TypeOK, JoinIoThreads
<1>18. ASSUME StopManager PROVE TypeOK'
  BY <1>18 DEF IInv, TypeOK, StopManager
<1>19. ASSUME JoinWorker PROVE TypeOK'
  BY <1>19 DEF IInv, TypeOK, JoinWorker
<1>20. CASE UNCHANGED vars
  BY <1>20 DEF IInv, TypeOK, vars
<1> QED
  BY <1>1, <1>2, <1>3, <1>4, <1>5, <1>6, <1>7, <1>8, <1>9, <1>10, <1>11, <1>12, <1>13, <1>14,
     <1>15, <1>16, <1>17, <1>18, <1>19, <1>20
     DEF Next, Handle, Report, Shutdown

\* Who is where is kept.
LEMMA StepControl == IInv /\ [Next]_vars => ControlInv'
<1> SUFFICES ASSUME IInv, [Next]_vars PROVE ControlInv'
  OBVIOUS
<1>1. ASSUME NEW r \in Requests, Begin(r) PROVE ControlInv'
  BY <1>1
     DEF IInv, ControlInv, WorkerJoined, OnlySyncWaits, StopNotifies, FlowAfterSend,
         OneReport, Begin
<1>2. ASSUME NEW r \in Requests, RegisterWaiter(r) PROVE ControlInv'
  BY <1>2
     DEF IInv, ControlInv, WorkerJoined, OnlySyncWaits, StopNotifies, FlowAfterSend,
         OneReport, RegisterWaiter
<1>3. ASSUME NEW r \in Requests, SendAsync(r) PROVE ControlInv'
  BY <1>3
     DEF IInv, TypeOK, ControlInv, WorkerJoined, OnlySyncWaits, StopNotifies, FlowAfterSend,
         OneReport, SendAsync
<1>4. ASSUME NEW r \in Requests, SendSync(r) PROVE ControlInv'
  BY <1>4
     DEF IInv, TypeOK, ControlInv, WorkerJoined, OnlySyncWaits, StopNotifies, FlowAfterSend,
         OneReport, SendSync
<1>5. ASSUME NEW r \in Requests, WaitEnds(r) PROVE ControlInv'
  BY <1>5
     DEF IInv, ControlInv, WorkerJoined, OnlySyncWaits, StopNotifies, FlowAfterSend,
         OneReport, WaitEnds
<1>6. ASSUME NEW r \in Requests, UnregisterWaiter(r) PROVE ControlInv'
  BY <1>6
     DEF IInv, ControlInv, WorkerJoined, OnlySyncWaits, StopNotifies, FlowAfterSend,
         OneReport, UnregisterWaiter
<1>7. ASSUME NEW r \in Requests, LoseFlow(r) PROVE ControlInv'
  BY <1>7
     DEF IInv, ControlInv, WorkerJoined, OnlySyncWaits, StopNotifies, FlowAfterSend,
         OneReport, LoseFlow
<1>8. ASSUME NEW r \in Requests, CopyCallback(r) PROVE ControlInv'
  BY <1>8
     DEF IInv, TypeOK, ControlInv, WorkerJoined, OnlySyncWaits, StopNotifies, FlowAfterSend,
         OneReport, CopyCallback
<1>9. ASSUME CollectEntries PROVE ControlInv'
  BY <1>9
     DEF IInv, ControlInv, WorkerJoined, OnlySyncWaits, StopNotifies, FlowAfterSend,
         OneReport, CollectEntries
<1>10. ASSUME NEW r \in Requests, CompleteEntry(r) PROVE ControlInv'
  BY <1>10
     DEF IInv, ControlInv, WorkerJoined, OnlySyncWaits, StopNotifies, FlowAfterSend,
         OneReport, CompleteEntry
<1>11. ASSUME EndReport PROVE ControlInv'
  BY <1>11
     DEF IInv, TypeOK, ControlInv, WorkerJoined, OnlySyncWaits, StopNotifies, FlowAfterSend,
         OneReport, EndReport
<1>12. ASSUME StartServer PROVE ControlInv'
  BY <1>12
     DEF IInv, ControlInv, WorkerJoined, OnlySyncWaits, StopNotifies, FlowAfterSend,
         OneReport, StartServer
<1>13. ASSUME ClearCallback PROVE ControlInv'
  BY <1>13
     DEF IInv, ControlInv, WorkerJoined, OnlySyncWaits, StopNotifies, FlowAfterSend,
         OneReport, ClearCallback
<1>14. ASSUME TakeWaiters PROVE ControlInv'
  BY <1>14
     DEF IInv, ControlInv, WorkerJoined, OnlySyncWaits, StopNotifies, FlowAfterSend,
         OneReport, TakeWaiters
<1>15. ASSUME NEW r \in Requests, StopEntry(r) PROVE ControlInv'
  BY <1>15
     DEF IInv, ControlInv, WorkerJoined, OnlySyncWaits, StopNotifies, FlowAfterSend,
         OneReport, StopEntry
<1>16. ASSUME StopIoc PROVE ControlInv'
  BY <1>16
     DEF IInv, ControlInv, WorkerJoined, OnlySyncWaits, StopNotifies, FlowAfterSend,
         OneReport, StopIoc
<1>17. ASSUME JoinIoThreads PROVE ControlInv'
  BY <1>17
     DEF IInv, ControlInv, WorkerJoined, OnlySyncWaits, StopNotifies, FlowAfterSend,
         OneReport, JoinIoThreads
<1>18. ASSUME StopManager PROVE ControlInv'
  BY <1>18
     DEF IInv, ControlInv, WorkerJoined, OnlySyncWaits, StopNotifies, FlowAfterSend,
         OneReport, StopManager
<1>19. ASSUME JoinWorker PROVE ControlInv'
  BY <1>19
     DEF IInv, ControlInv, WorkerJoined, OnlySyncWaits, StopNotifies, FlowAfterSend,
         OneReport, JoinWorker
<1>20. CASE UNCHANGED vars
  BY <1>20
     DEF IInv, ControlInv, WorkerJoined, OnlySyncWaits, StopNotifies, FlowAfterSend,
         OneReport, vars
<1> QED
  BY <1>1, <1>2, <1>3, <1>4, <1>5, <1>6, <1>7, <1>8, <1>9, <1>10, <1>11, <1>12, <1>13, <1>14,
     <1>15, <1>16, <1>17, <1>18, <1>19, <1>20
     DEF Next, Handle, Report, Shutdown

\* What is known of waiters is kept.
LEMMA StepWaiters == IInv /\ [Next]_vars => WaiterInv'
<1> SUFFICES ASSUME IInv, [Next]_vars PROVE WaiterInv'
  OBVIOUS
<1>1. ASSUME NEW r \in Requests, Begin(r) PROVE WaiterInv'
  BY <1>1 DEF IInv, WaiterInv, WaitersAreLive, SleeperIsKnown, Begin
<1>2. ASSUME NEW r \in Requests, RegisterWaiter(r) PROVE WaiterInv'
  BY <1>2
     DEF IInv, TypeOK, WaiterInv, WaitersAreLive, SleeperIsKnown, RegisterWaiter, Registered
<1>3. ASSUME NEW r \in Requests, SendAsync(r) PROVE WaiterInv'
  BY <1>3 DEF IInv, TypeOK, WaiterInv, WaitersAreLive, SleeperIsKnown, SendAsync
<1>4. ASSUME NEW r \in Requests, SendSync(r) PROVE WaiterInv'
  BY <1>4, RequestAssumption
     DEF IInv, TypeOK, WaiterInv, WaitersAreLive, SleeperIsKnown, SendSync
<1>5. ASSUME NEW r \in Requests, WaitEnds(r) PROVE WaiterInv'
  BY <1>5 DEF IInv, WaiterInv, WaitersAreLive, SleeperIsKnown, WaitEnds
<1>6. ASSUME NEW r \in Requests, UnregisterWaiter(r) PROVE WaiterInv'
  BY <1>6 DEF IInv, WaiterInv, WaitersAreLive, SleeperIsKnown, UnregisterWaiter, Unregistered
<1>7. ASSUME NEW r \in Requests, LoseFlow(r) PROVE WaiterInv'
  BY <1>7 DEF IInv, WaiterInv, WaitersAreLive, SleeperIsKnown, LoseFlow
<1>8. ASSUME NEW r \in Requests, CopyCallback(r) PROVE WaiterInv'
  BY <1>8 DEF IInv, WaiterInv, WaitersAreLive, SleeperIsKnown, CopyCallback
<1>9. ASSUME CollectEntries PROVE WaiterInv'
  BY <1>9 DEF IInv, WaiterInv, WaitersAreLive, SleeperIsKnown, CollectEntries, EntriesToNotify
<1>10. ASSUME NEW r \in Requests, CompleteEntry(r) PROVE WaiterInv'
  BY <1>10 DEF IInv, WaiterInv, WaitersAreLive, SleeperIsKnown, CompleteEntry
<1>11. ASSUME EndReport PROVE WaiterInv'
  BY <1>11 DEF IInv, WaiterInv, WaitersAreLive, SleeperIsKnown, EndReport
<1>12. ASSUME StartServer PROVE WaiterInv'
  BY <1>12 DEF IInv, WaiterInv, WaitersAreLive, SleeperIsKnown, StartServer
<1>13. ASSUME ClearCallback PROVE WaiterInv'
  BY <1>13 DEF IInv, WaiterInv, WaitersAreLive, SleeperIsKnown, ClearCallback
<1>14. ASSUME TakeWaiters PROVE WaiterInv'
  BY <1>14
     DEF IInv, ControlInv, WaiterInv, WaitersAreLive, SleeperIsKnown, StopNotifies,
         TakeWaiters, WaitersToStop
<1>15. ASSUME NEW r \in Requests, StopEntry(r) PROVE WaiterInv'
  BY <1>15 DEF IInv, TypeOK, WaiterInv, WaitersAreLive, SleeperIsKnown, StopEntry
<1>16. ASSUME StopIoc PROVE WaiterInv'
  BY <1>16 DEF IInv, WaiterInv, WaitersAreLive, SleeperIsKnown, StopIoc
<1>17. ASSUME JoinIoThreads PROVE WaiterInv'
  BY <1>17 DEF IInv, WaiterInv, WaitersAreLive, SleeperIsKnown, JoinIoThreads
<1>18. ASSUME StopManager PROVE WaiterInv'
  BY <1>18 DEF IInv, WaiterInv, WaitersAreLive, SleeperIsKnown, StopManager
<1>19. ASSUME JoinWorker PROVE WaiterInv'
  BY <1>19 DEF IInv, WaiterInv, WaitersAreLive, SleeperIsKnown, JoinWorker
<1>20. CASE UNCHANGED vars
  BY <1>20 DEF IInv, WaiterInv, WaitersAreLive, SleeperIsKnown, vars
<1> QED
  BY <1>1, <1>2, <1>3, <1>4, <1>5, <1>6, <1>7, <1>8, <1>9, <1>10, <1>11, <1>12, <1>13, <1>14,
     <1>15, <1>16, <1>17, <1>18, <1>19, <1>20
     DEF Next, Handle, Report, Shutdown

\* Reports reach.
LEMMA StepReport == IInv /\ [Next]_vars => ReportInv'
<1> SUFFICES ASSUME IInv, [Next]_vars PROVE ReportInv'
  OBVIOUS
<1>1. ASSUME NEW r \in Requests, Begin(r) PROVE ReportInv'
  BY <1>1 DEF IInv, ReportInv, ReportReaches, NoMissedCompletion, Begin
<1>2. ASSUME NEW r \in Requests, RegisterWaiter(r) PROVE ReportInv'
  BY <1>2 DEF IInv, ReportInv, ReportReaches, NoMissedCompletion, RegisterWaiter
<1>3. ASSUME NEW r \in Requests, SendAsync(r) PROVE ReportInv'
  BY <1>3 DEF IInv, TypeOK, ReportInv, ReportReaches, NoMissedCompletion, SendAsync
<1>4. ASSUME NEW r \in Requests, SendSync(r) PROVE ReportInv'
  BY <1>4
     DEF IInv, TypeOK, ControlInv, OneReport, FlowAfterSend, ReportInv, ReportReaches,
         NoMissedCompletion, SendSync
<1>5. ASSUME NEW r \in Requests, WaitEnds(r) PROVE ReportInv'
  BY <1>5 DEF IInv, ReportInv, ReportReaches, NoMissedCompletion, WaitEnds
<1>6. ASSUME NEW r \in Requests, UnregisterWaiter(r) PROVE ReportInv'
  BY <1>6 DEF IInv, ReportInv, ReportReaches, NoMissedCompletion, UnregisterWaiter
<1>7. ASSUME NEW r \in Requests, LoseFlow(r) PROVE ReportInv'
  BY <1>7 DEF IInv, ReportInv, ReportReaches, NoMissedCompletion, LoseFlow
<1>8. ASSUME NEW r \in Requests, CopyCallback(r) PROVE ReportInv'
  BY <1>8 DEF IInv, TypeOK, ReportInv, ReportReaches, NoMissedCompletion, CopyCallback
<1>9. ASSUME CollectEntries PROVE ReportInv'
  BY <1>9
     DEF IInv, ControlInv, OnlySyncWaits, OneReport, WaiterInv, SleeperIsKnown, ReportInv,
         ReportReaches, NoMissedCompletion, CollectEntries, EntriesToNotify
<1>10. ASSUME NEW r \in Requests, CompleteEntry(r) PROVE ReportInv'
  BY <1>10 DEF IInv, TypeOK, ReportInv, ReportReaches, NoMissedCompletion, CompleteEntry
<1>11. ASSUME EndReport PROVE ReportInv'
  BY <1>11 DEF IInv, ReportInv, ReportReaches, NoMissedCompletion, EndReport
<1>12. ASSUME StartServer PROVE ReportInv'
  BY <1>12 DEF IInv, ReportInv, ReportReaches, NoMissedCompletion, StartServer
<1>13. ASSUME ClearCallback PROVE ReportInv'
  BY <1>13 DEF IInv, ReportInv, ReportReaches, NoMissedCompletion, ClearCallback
<1>14. ASSUME TakeWaiters PROVE ReportInv'
  BY <1>14
     DEF IInv, ControlInv, StopNotifies, ReportInv, ReportReaches, NoMissedCompletion,
         TakeWaiters
<1>15. ASSUME NEW r \in Requests, StopEntry(r) PROVE ReportInv'
  BY <1>15 DEF IInv, TypeOK, ReportInv, ReportReaches, NoMissedCompletion, StopEntry
<1>16. ASSUME StopIoc PROVE ReportInv'
  BY <1>16 DEF IInv, ReportInv, ReportReaches, NoMissedCompletion, StopIoc
<1>17. ASSUME JoinIoThreads PROVE ReportInv'
  BY <1>17 DEF IInv, ReportInv, ReportReaches, NoMissedCompletion, JoinIoThreads
<1>18. ASSUME StopManager PROVE ReportInv'
  BY <1>18 DEF IInv, ReportInv, ReportReaches, NoMissedCompletion, StopManager
<1>19. ASSUME JoinWorker PROVE ReportInv'
  BY <1>19 DEF IInv, ReportInv, ReportReaches, NoMissedCompletion, JoinWorker
<1>20. CASE UNCHANGED vars
  BY <1>20 DEF IInv, ReportInv, ReportReaches, NoMissedCompletion, vars
<1> QED
  BY <1>1, <1>2, <1>3, <1>4, <1>5, <1>6, <1>7, <1>8, <1>9, <1>10, <1>11, <1>12, <1>13, <1>14,
     <1>15, <1>16, <1>17, <1>18, <1>19, <1>20
     DEF Next, Handle, Report, Shutdown

\* Keys.
LEMMA StepKeys == IInv /\ [Next]_vars => KeyInv'
<1> SUFFICES ASSUME IInv, [Next]_vars PROVE KeyInv'
  OBVIOUS
<1>1. ASSUME NEW r \in Requests, Begin(r) PROVE KeyInv'
  BY <1>1
     DEF IInv, ControlInv, OneReport, FlowAfterSend, WaiterInv, WaitersAreLive, KeyInv,
         NotifiedByKey, EntryByKey, Key, Begin
<1>2. ASSUME NEW r \in Requests, RegisterWaiter(r) PROVE KeyInv'
  BY <1>2 DEF IInv, KeyInv, NotifiedByKey, EntryByKey, Key, RegisterWaiter
<1>3. ASSUME NEW r \in Requests, SendAsync(r) PROVE KeyInv'
  BY <1>3 DEF IInv, TypeOK, KeyInv, NotifiedByKey, EntryByKey, Key, SendAsync
<1>4. ASSUME NEW r \in Requests, SendSync(r) PROVE KeyInv'
  BY <1>4 DEF IInv, TypeOK, KeyInv, NotifiedByKey, EntryByKey, Key, SendSync
<1>5. ASSUME NEW r \in Requests, WaitEnds(r) PROVE KeyInv'
  BY <1>5
     DEF IInv, TypeOK, KeyInv, NotifiedByKey, EntryByKey, Key, WaitEnds, WaitCompletes,
         WaitTimesOut
<1>6. ASSUME NEW r \in Requests, UnregisterWaiter(r) PROVE KeyInv'
  BY <1>6 DEF IInv, KeyInv, NotifiedByKey, EntryByKey, Key, UnregisterWaiter
<1>7. ASSUME NEW r \in Requests, LoseFlow(r) PROVE KeyInv'
  BY <1>7 DEF IInv, KeyInv, NotifiedByKey, EntryByKey, Key, LoseFlow
<1>8. ASSUME NEW r \in Requests, CopyCallback(r) PROVE KeyInv'
  BY <1>8 DEF IInv, KeyInv, NotifiedByKey, EntryByKey, Key, CopyCallback
<1>9. ASSUME CollectEntries PROVE KeyInv'
  BY <1>9 DEF IInv, KeyInv, NotifiedByKey, EntryByKey, Key, CollectEntries, EntriesToNotify
<1>10. ASSUME NEW r \in Requests, CompleteEntry(r) PROVE KeyInv'
  BY <1>10, RequestAssumption
     DEF IInv, ControlInv, OneReport, FlowAfterSend, WaiterInv, WaitersAreLive, KeyInv,
         NotifiedByKey, EntryByKey, Key, CompleteEntry
<1>11. ASSUME EndReport PROVE KeyInv'
  BY <1>11 DEF IInv, KeyInv, NotifiedByKey, EntryByKey, Key, EndReport
<1>12. ASSUME StartServer PROVE KeyInv'
  BY <1>12 DEF IInv, KeyInv, NotifiedByKey, EntryByKey, Key, StartServer
<1>13. ASSUME ClearCallback PROVE KeyInv'
  BY <1>13 DEF IInv, KeyInv, NotifiedByKey, EntryByKey, Key, ClearCallback
<1>14. ASSUME TakeWaiters PROVE KeyInv'
  BY <1>14 DEF IInv, KeyInv, NotifiedByKey, EntryByKey, Key, TakeWaiters
<1>15. ASSUME NEW r \in Requests, StopEntry(r) PROVE KeyInv'
  BY <1>15 DEF IInv, KeyInv, NotifiedByKey, EntryByKey, Key, StopEntry
<1>16. ASSUME StopIoc PROVE KeyInv'
  BY <1>16 DEF IInv, KeyInv, NotifiedByKey, EntryByKey, Key, StopIoc
<1>17. ASSUME JoinIoThreads PROVE KeyInv'
  BY <1>17 DEF IInv, KeyInv, NotifiedByKey, EntryByKey, Key, JoinIoThreads
<1>18. ASSUME StopManager PROVE KeyInv'
  BY <1>18 DEF IInv, KeyInv, NotifiedByKey, EntryByKey, Key, StopManager
<1>19. ASSUME JoinWorker PROVE KeyInv'
  BY <1>19 DEF IInv, KeyInv, NotifiedByKey, EntryByKey, Key, JoinWorker
<1>20. CASE UNCHANGED vars
  BY <1>20 DEF IInv, KeyInv, NotifiedByKey, EntryByKey, Key, vars
<1> QED
  BY <1>1, <1>2, <1>3, <1>4, <1>5, <1>6, <1>7, <1>8, <1>9, <1>10, <1>11, <1>12, <1>13, <1>14,
     <1>15, <1>16, <1>17, <1>18, <1>19, <1>20
     DEF Next, Handle, Report, Shutdown

\* The invariant holds at first and every step keeps it.
LEMMA Invariant == Spec => []IInv
<1>1. Init => IInv
  <2> SUFFICES ASSUME Init PROVE IInv
    OBVIOUS
  <2>1. TypeOK
    <3>1. 1 \in 0..(SessionModulus - 1)
      BY RequestAssumption
    <3>2. NewEntry \in [completed : BOOLEAN, result : {"unset", "SUCCESS", "INVALID_STATE"},
                        of : Requests \cup {NoRequest}]
      BY DEF NewEntry
    <3>3. entry \in [Requests -> [completed : BOOLEAN,
                                  result : {"unset", "SUCCESS", "INVALID_STATE"},
                                  of : Requests \cup {NoRequest}]]
      BY <3>2 DEF Init
    <3> QED
      BY <3>1, <3>3 DEF Init, TypeOK
  <2>2. ControlInv
    BY RequestAssumption DEF Init, ControlInv, WorkerJoined, OnlySyncWaits, StopNotifies,
         FlowAfterSend, OneReport
  <2>3. WaiterInv
    BY RequestAssumption DEF Init, WaiterInv, WaitersAreLive, SleeperIsKnown
  <2>4. ReportInv
    BY DEF Init, ReportInv, ReportReaches, NoMissedCompletion
  <2>5. KeyInv
    BY DEF Init, NewEntry, KeyInv, NotifiedByKey, EntryByKey
  <2> QED
    BY <2>1, <2>2, <2>3, <2>4, <2>5 DEF IInv
<1>2. IInv /\ [Next]_vars => IInv'
  BY StepType, StepControl, StepWaiters, StepReport, StepKeys DEF IInv
<1> QED
  BY <1>1, <1>2, PTL DEF Spec
-----------------------------------------------------------------------------

\* HandleSyncRequest answers 200 only for a completed flow of the request's own
\* service and session, whatever the sessions that clients chose.
THEOREM KeyAnswered == Spec => []AnsweredByItsKey
<1>1. IInv => AnsweredByItsKey
  BY DEF IInv, KeyInv, EntryByKey, AnsweredByItsKey
<1> QED
  BY <1>1, Invariant, PTL

\* If no other request has the same service and session, it is the flow of the
\* request itself that was completed.
THEOREM FlowAnswered == Spec => []AnsweredByItsFlow
<1>1. IInv => AnsweredByItsFlow
  BY DEF IInv, TypeOK, KeyInv, EntryByKey, AnsweredByItsFlow
<1> QED
  BY <1>1, Invariant, PTL

\* OnCompletion finds the entry of every request that waits: registering before
\* SendMsg leaves no window for the event.
THEOREM CompletionNotMissed == Spec => []NoMissedCompletion
<1>1. IInv => NoMissedCompletion
  BY DEF IInv, ReportInv
<1> QED
  BY <1>1, Invariant, PTL

\* UnregisterWaiter leaves no entry of a request that is over.
THEOREM WaitersLive == Spec => []WaitersAreLive
<1>1. IInv => WaitersAreLive
  BY DEF IInv, WaiterInv
<1> QED
  BY <1>1, Invariant, PTL

\* After NotifyAllWaitersAsStopped only those that registered later may sleep.
THEOREM StopWakes == Spec => []StopWakesWaiters
<1>1. IInv => StopWakesWaiters
  BY
     DEF IInv, ControlInv, OnlySyncWaits, StopNotifies, WaiterInv, SleeperIsKnown,
         StopWakesWaiters
<1> QED
  BY <1>1, Invariant, PTL

\* The copied callback never runs into a destroyed server.
THEOREM CallbackMeetsServer == Spec => []CallbackInLiveServer
<1>1. IInv => CallbackInLiveServer
  BY DEF IInv, ControlInv, WorkerJoined, CallbackInLiveServer
<1> QED
  BY <1>1, Invariant, PTL
=============================================================================
