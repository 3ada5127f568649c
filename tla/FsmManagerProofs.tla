-------------------------- MODULE FsmManagerProofs --------------------------
(***************************************************************************)
(* Theorems about FsmManager, for every number of posts and restarts, every  *)
(* capacity and every set of client messages: first for any number of        *)
(* dispatching threads, then the life of one flow, for a manager that a      *)
(* single thread dispatches, as main.cpp uses it, then what a client of the  *)
(* manager can rely on, and last where the messages are: requests are served *)
(* in the order they were posted, whatever clients post; and when clients    *)
(* only open flows, every live flow has exactly one event under way, which   *)
(* its FSM has a transition for.                                             *)
(***************************************************************************)
EXTENDS FsmManager, FiniteSetTheorems, SequenceTheorems, WellFoundedInduction, TLAPS

(***************************************************************************)
(* Facts about the transition tables.                                      *)
(***************************************************************************)

Rows == RegTransitions \cup AuthTransitions \cup {NoRow}

TransitionRow ==
    [from : Tstate, event : MsgType, to : Tstate, hasNext : BOOLEAN,
     nextEvent : MsgType, delayMs : Nat]

\* A row made of a state, an event and so on is a well typed row.
LEMMA RowRecord ==
    ASSUME NEW from \in Tstate, NEW event \in MsgType, NEW to \in Tstate,
           NEW hasNext \in BOOLEAN, NEW nextEvent \in MsgType, NEW delayMs \in Nat
    PROVE  Row(from, event, to, hasNext, nextEvent, delayMs) \in TransitionRow
BY DEF Row, TransitionRow

\* Every row of the two tables is well typed.
LEMMA RowsTyped == Rows \subseteq TransitionRow
<1>1. /\ "IDLE" \in Tstate /\ "WORKING" \in Tstate /\ "KILL_FSM" \in Tstate
      /\ "MSG_INIT" \in MsgType /\ "MSG_CONNECT" \in MsgType /\ "MSG_REQ" \in MsgType
      /\ "MSG_RESP" \in MsgType /\ "MSG_TIMEOUT" \in MsgType /\ "MSG_CLOSE" \in MsgType
    BY DEF Tstate, MsgType
<1>2. TRUE \in BOOLEAN /\ FALSE \in BOOLEAN /\ 0 \in Nat /\ 100 \in Nat
    OBVIOUS
<1>3. RegTransitions \subseteq TransitionRow
    <2>1. Row("IDLE", "MSG_INIT", "WORKING", TRUE, "MSG_CONNECT", 0) \in TransitionRow
        BY <1>1, <1>2, RowRecord
    <2>2. Row("WORKING", "MSG_CONNECT", "WORKING", TRUE, "MSG_REQ", 0) \in TransitionRow
        BY <1>1, <1>2, RowRecord
    <2>3. Row("WORKING", "MSG_REQ", "WORKING", TRUE, "MSG_RESP", 0) \in TransitionRow
        BY <1>1, <1>2, RowRecord
    <2>4. Row("WORKING", "MSG_RESP", "WORKING", TRUE, "MSG_TIMEOUT", 100) \in TransitionRow
        BY <1>1, <1>2, RowRecord
    <2>5. Row("WORKING", "MSG_TIMEOUT", "WORKING", TRUE, "MSG_CLOSE", 0) \in TransitionRow
        BY <1>1, <1>2, RowRecord
    <2>6. Row("WORKING", "MSG_CLOSE", "KILL_FSM", FALSE, "MSG_CLOSE", 0) \in TransitionRow
        BY <1>1, <1>2, RowRecord
    <2> QED
        BY <2>1, <2>2, <2>3, <2>4, <2>5, <2>6 DEF RegTransitions
<1>4. AuthTransitions \subseteq TransitionRow
    <2>1. Row("IDLE", "MSG_INIT", "WORKING", TRUE, "MSG_CONNECT", 0) \in TransitionRow
        BY <1>1, <1>2, RowRecord
    <2>2. Row("WORKING", "MSG_CONNECT", "WORKING", TRUE, "MSG_REQ", 0) \in TransitionRow
        BY <1>1, <1>2, RowRecord
    <2>3. Row("WORKING", "MSG_REQ", "WORKING", TRUE, "MSG_RESP", 0) \in TransitionRow
        BY <1>1, <1>2, RowRecord
    <2>4. Row("WORKING", "MSG_RESP", "WORKING", TRUE, "MSG_CLOSE", 100) \in TransitionRow
        BY <1>1, <1>2, RowRecord
    <2>5. Row("WORKING", "MSG_CLOSE", "KILL_FSM", FALSE, "MSG_CLOSE", 0) \in TransitionRow
        BY <1>1, <1>2, RowRecord
    <2> QED
        BY <2>1, <2>2, <2>3, <2>4, <2>5 DEF AuthTransitions
<1>5. NoRow \in TransitionRow
    BY <1>1, <1>2, RowRecord DEF NoRow
<1> QED
    BY <1>3, <1>4, <1>5 DEF Rows

\* What a row of a state table names.
LEMMA RowType ==
    ASSUME NEW r \in Rows
    PROVE  /\ r.from \in Tstate /\ r.event \in MsgType
           /\ r.to \in Tstate /\ r.nextEvent \in MsgType
           /\ r.hasNext \in BOOLEAN /\ r.delayMs \in Nat
BY RowsTyped DEF TransitionRow

\* A thread only finds rows of the tables, for its FSM's state and its event.
LEMMA TransitionsForType ==
    ASSUME NEW t \in Threads, NEW r \in TransitionsFor(t)
    PROVE  r \in Rows /\ r.from = fsms[Held(t)] /\ r.event = cur[t].type
BY DEF TransitionsFor, FindFsmTransition, Transitions, Rows
-----------------------------------------------------------------------------
(***************************************************************************)
(* Type correctness.  TypeOK is not inductive: a thread that is about to   *)
(* add an FSM must have found its factory, and a timer must hold a message *)
(* for an FSM of one of the factories.                                     *)
(***************************************************************************)

Routable ==
    /\ \A t \in Threads : pc[t] = "add" => cur[t].serviceId \in FactoryId
    /\ \A tm \in timers : Target(tm.msg) \in FsmHandle

TypeInv == TypeOK /\ Routable

\* The worker is one of the threads.
LEMMA WorkerIsThread == Worker \in Threads
BY DEF Threads

\* A message is for an FSM of a factory exactly if its ids say so.
LEMMA TargetType ==
    ASSUME NEW m \in CMsg
    PROVE  Target(m) \in FsmHandle <=> (m.serviceId \in FactoryId /\ m.fsmId # 0)
BY DEF Target, FsmHandle, CMsg

\* The event a transition posts has the target and the session of the one it
\* handled.
LEMMA NextMsgType ==
    ASSUME NEW t \in Threads, cur[t] \in CMsg, row[t] \in Rows
    PROVE  /\ NextMsg(t) \in CMsg
           /\ NextMsg(t).sessionId = cur[t].sessionId
           /\ NextMsg(t).type = row[t].nextEvent
           /\ Target(NextMsg(t)) = Held(t)
BY RowType DEF NextMsg, CMsg, Target, Held

\* The initial state is typed.
LEMMA InitType == Init => TypeInv
<1> SUFFICES ASSUME Init PROVE TypeInv
    OBVIOUS
<1> USE DEF Init
<1>1. NoMsg \in CMsg
    BY DEF NoMsg, CMsg, MsgType
<1>2. pump \in Seq(CMsg) /\ accepted \in Seq(CMsg) /\ served \in Seq(CMsg)
        /\ completions \in Seq(FsmCompletionEvent)
    OBVIOUS
<1>3. pc \in [Threads -> PC] /\ ret \in [Threads -> EerrNo]
    BY DEF PC, EerrNo
<1>4. nextFsmId \in [FactoryId -> Nat \ {0}]
    BY DEF FirstFsmId
<1>5. fsms \in [DOMAIN fsms -> Tstate] /\ DOMAIN fsms \subseteq FsmHandle
    OBVIOUS
<1>6. sessionOf \in [DOMAIN sessionOf -> Nat] /\ DOMAIN sessionOf \subseteq FsmHandle
    OBVIOUS
<1>7. Routable
    BY DEF Routable
<1>8. stopped \in BOOLEAN /\ running \in BOOLEAN /\ joinable \in BOOLEAN
    BY Zenon
<1>9. /\ cur \in [Threads -> CMsg]
      /\ row \in [Threads -> RegTransitions \cup AuthTransitions \cup {NoRow}]
    BY <1>1
<1> QED
    BY <1>2, <1>3, <1>4, <1>5, <1>6, <1>7, <1>8, <1>9 DEF TypeInv, TypeOK

\* Types are kept.
LEMMA StepType == TypeInv /\ [Next]_vars => TypeInv'
<1> SUFFICES ASSUME TypeInv, [Next]_vars PROVE TypeInv'
    OBVIOUS
<1> USE DEF TypeInv, TypeOK, Routable
<1>0. NoMsg \in CMsg /\ NoRow \in Rows
    BY DEF NoMsg, CMsg, MsgType, NoRow, Rows, Row
<1>1. ASSUME NEW id \in FactoryId, RegisterFactory(id) PROVE TypeInv'
    BY <1>1 DEF RegisterFactory, mgrVars, facVars, timerVars, threadVars, histVars
<1>2. ASSUME NEW m \in ClientMsgs, ClientSend(m) PROVE TypeInv'
    BY <1>2, ClientAssumption
    DEF ClientSend, SendMsg, mgrVars, facVars, timerVars, threadVars
<1>3. CASE Start
    <2>1. pc' \in [Threads -> PC] /\ \A u \in Threads : pc'[u] = "add" => pc[u] = "add"
        BY <1>3, WorkerIsThread DEF Start, PC
    <2>2. stopped' \in BOOLEAN /\ running' \in BOOLEAN /\ joinable' \in BOOLEAN
        BY <1>3, Zenon DEF Start
    <2>3. starts' \in Nat
        BY <1>3 DEF Start
    <2> QED
        BY <1>3, <2>1, <2>2, <2>3 DEF Start, facVars, timerVars, histVars
<1>4. CASE Stop
    BY <1>4 DEF Stop, facVars, timerVars, threadVars, histVars
<1>5. CASE Join
    BY <1>5, WorkerIsThread DEF Join, facVars, timerVars, histVars, PC
<1>6. CASE WorkerExits
    BY <1>6, WorkerIsThread DEF WorkerExits, Goto, facVars, timerVars, histVars, PC
<1>7. ASSUME NEW t \in Threads, Pop(t) PROVE TypeInv'
    BY <1>7 DEF Pop, Goto, mgrVars, facVars, timerVars, histVars, PC
<1>8. ASSUME NEW t \in Threads, FindFsm(t) PROVE TypeInv'
    <2>1. served' \in Seq(CMsg)
        <3>1. served' \in {served, Append(served, cur[t])}
            BY <1>8 DEF FindFsm, Refuse
        <3>2. cur[t] \in CMsg /\ served \in Seq(CMsg)
            OBVIOUS
        <3>3. Append(served, cur[t]) \in Seq(CMsg)
            BY <3>2
        <3> QED
            BY <3>1, <3>2, <3>3
    <2>2. UNCHANGED <<pump, registered, mgrVars, facVars, timerVars,
                      accepted, sessionOf, completions, orphans>>
        BY <1>8 DEF FindFsm
    <2>3. CASE Refuse(t)
        BY <1>0, <2>1, <2>2, <2>3 DEF Refuse, Return, mgrVars, facVars, timerVars, PC, Rows, EerrNo
    <2>4. CASE Goto(t, "execute") /\ UNCHANGED <<cur, row, ret>>
        BY <2>1, <2>2, <2>4 DEF Goto, mgrVars, facVars, timerVars, PC
    <2>5. CASE Routed(cur[t]) /\ Goto(t, "add") /\ UNCHANGED <<cur, row, ret>>
        BY <2>1, <2>2, <2>5 DEF Routed, Goto, mgrVars, facVars, timerVars, PC
    <2> QED
        BY <1>8, <2>3, <2>4, <2>5 DEF FindFsm
<1>9. ASSUME NEW t \in Threads, AddFsm(t) PROVE TypeInv'
    <2> DEFINE s == cur[t].serviceId
               h == <<s, NewFsmId(s)>>
    <2>1. cur[t] \in CMsg /\ s \in FactoryId /\ nextFsmId[s] \in Nat \ {0}
        BY <1>9 DEF AddFsm
    <2>2. h \in FsmHandle
        BY <2>1 DEF FsmHandle, NewFsmId
    <2>3. CASE FactoryFull(s) /\ Refuse(t) /\ UNCHANGED <<facVars, sessionOf>>
        BY <1>9, <1>0, <2>1, <2>3
        DEF AddFsm, Refuse, Return, facVars, mgrVars, timerVars, PC, Rows, EerrNo
    <2>4. CASE ~FactoryFull(s)
        <3>1. /\ fsms' = [x \in DOMAIN fsms \cup {h} |-> IF x = h THEN "IDLE" ELSE fsms[x]]
              /\ nextFsmId' = [nextFsmId EXCEPT ![s] = @ + 1]
              /\ cur' = [cur EXCEPT ![t].fsmId = NewFsmId(s)]
              /\ served' = Append(served, cur[t])
              /\ sessionOf' = [x \in DOMAIN sessionOf \cup {h} |->
                                  IF x = h THEN cur[t].sessionId ELSE sessionOf[x]]
              /\ pc' = [pc EXCEPT ![t] = "execute"]
              /\ UNCHANGED <<row, ret>>
              /\ UNCHANGED <<pump, registered, mgrVars, timerVars, accepted, completions, orphans>>
            BY <1>9, <2>4 DEF AddFsm, Goto
        <3>2. fsms' \in [DOMAIN fsms' -> Tstate] /\ DOMAIN fsms' \subseteq FsmHandle
            BY <3>1, <2>2 DEF Tstate
        <3>3. sessionOf' \in [DOMAIN sessionOf' -> Nat] /\ DOMAIN sessionOf' \subseteq FsmHandle
            BY <3>1, <2>1, <2>2 DEF CMsg
        <3>4. cur' \in [Threads -> CMsg]
            BY <3>1, <2>1 DEF NewFsmId, CMsg
        <3>5. nextFsmId' \in [FactoryId -> Nat \ {0}]
            BY <3>1, <2>1
        <3>6. pc' \in [Threads -> PC]
            BY <3>1 DEF PC
        <3>7. served' \in Seq(CMsg)
            BY <3>1, <2>1
        <3>8. Routable'
            BY <3>1 DEF timerVars
        <3> QED
            BY <3>1, <3>2, <3>3, <3>4, <3>5, <3>6, <3>7, <3>8 DEF mgrVars, timerVars
    <2> QED
        BY <1>9, <2>3, <2>4 DEF AddFsm
<1>10. ASSUME NEW t \in Threads, Execute(t) PROVE TypeInv'
    BY <1>10, TransitionsForType DEF Execute, Goto, mgrVars, facVars, timerVars, histVars, PC, Rows, EerrNo
<1>11. ASSUME NEW t \in Threads, SetState(t) PROVE TypeInv'
    BY <1>11, RowType DEF SetState, Goto, mgrVars, timerVars, histVars, PC, Rows, EerrNo
<1>12. ASSUME NEW t \in Threads, Post(t) PROVE TypeInv'
    <2>1. NextMsg(t) \in CMsg /\ Target(NextMsg(t)) = Held(t)
        BY NextMsgType DEF Rows
    <2>2. Held(t) \in FsmHandle
        BY <1>12 DEF Post
    <2>3. pc' \in [Threads -> PC] /\ pc'[t] = "reap"
            /\ \A u \in Threads : pc'[u] = "add" => pc[u] = "add"
        BY <1>12 DEF Post, Goto, PC
    <2>4. UNCHANGED <<registered, mgrVars, facVars, cur, row, accepted, served, sessionOf, completions>>
        BY <1>12 DEF Post
    <2>5. CASE SendMsg(NextMsg(t)) /\ UNCHANGED <<timerVars, ret, orphans>>
        BY <2>1, <2>3, <2>4, <2>5 DEF SendMsg, mgrVars, facVars, timerVars
    <2>6. CASE /\ ret' = [ret EXCEPT ![t] = "INVALID_STATE"]
               /\ orphans' = orphans \cup {Held(t)}
               /\ UNCHANGED <<pump, timerVars>>
        BY <2>2, <2>3, <2>4, <2>6 DEF mgrVars, facVars, timerVars, EerrNo
    <2>7. CASE /\ timers' = timers \cup {[id |-> nextTimerId, msg |-> NextMsg(t)]}
               /\ nextTimerId' = nextTimerId + 1
               /\ UNCHANGED <<pump, ret, orphans>>
        <3>1. timers' \subseteq Timer
            BY <2>1, <2>7 DEF Timer
        <3>2. \A tm \in timers' : Target(tm.msg) \in FsmHandle
            BY <2>1, <2>2, <2>7
        <3> QED
            BY <3>1, <3>2, <2>3, <2>4, <2>7 DEF mgrVars, facVars
    <2> QED
        BY <1>12, <2>5, <2>6, <2>7 DEF Post
<1>13. ASSUME NEW t \in Threads, Reap(t) PROVE TypeInv'
    <2>1. CASE UNCHANGED completions /\ Return(t)
        BY <1>13, <1>0, <2>1
        DEF Reap, Return, mgrVars, facVars, timerVars, PC, Rows, EerrNo
    <2>2. CASE /\ completions' = Append(completions, CompletionEvent(t))
               /\ Goto(t, "kill")
               /\ UNCHANGED <<cur, row, ret>>
        <3>1. Held(t) \in FsmHandle /\ cur[t] \in CMsg /\ ret[t] \in EerrNo
            BY <1>13 DEF Reap
        <3>2. cur[t].serviceId \in FactoryId
            BY <3>1, TargetType DEF Held
        <3>3. CompletionEvent(t) \in FsmCompletionEvent
            BY <3>1, <3>2 DEF CompletionEvent, FsmCompletionEvent, CMsg
        <3> QED
            BY <1>13, <2>2, <3>3 DEF Reap, Goto, mgrVars, facVars, timerVars, PC
    <2> QED
        BY <1>13, <2>1, <2>2 DEF Reap
<1>14. ASSUME NEW t \in Threads, KillFsm(t) PROVE TypeInv'
    BY <1>14, <1>0 DEF KillFsm, Erase, Return, Goto, mgrVars, timerVars, histVars, PC, Rows, EerrNo
<1>15. ASSUME NEW tm \in timers, TimerFires(tm) PROVE TypeInv'
    <2>1. tm.msg \in CMsg /\ Target(tm.msg) \in FsmHandle
        BY DEF Timer
    <2>2. timers' \subseteq timers
        BY <1>15 DEF TimerFires
    <2>3. CASE SendMsg(tm.msg) /\ UNCHANGED orphans
        BY <1>15, <2>1, <2>2, <2>3 DEF TimerFires, SendMsg, mgrVars, facVars, threadVars
    <2>4. CASE orphans' = orphans \cup {Target(tm.msg)} /\ UNCHANGED pump
        BY <1>15, <2>1, <2>2, <2>4 DEF TimerFires, mgrVars, facVars, threadVars
    <2> QED
        BY <1>15, <2>3, <2>4 DEF TimerFires
<1>16. CASE UNCHANGED vars
    BY <1>16 DEF vars, mgrVars, facVars, timerVars, threadVars, histVars
<1> QED
    BY <1>1, <1>2, <1>3, <1>4, <1>5, <1>6, <1>7, <1>8, <1>9, <1>10, <1>11, <1>12, <1>13,
       <1>14, <1>15, <1>16 DEF Next, Dispatch

\* TypeOK holds in every reachable state: no step of a client, the application,
\* a dispatching thread or a timer leaves the types of the code.
THEOREM TypeCorrect == Spec => []TypeOK
<1>1. TypeInv => TypeOK
    BY DEF TypeInv
<1> QED
    BY <1>1, InitType, StepType, PTL DEF Spec
-----------------------------------------------------------------------------
(***************************************************************************)
(* The bound on the FSMs of a factory, for any number of dispatching       *)
(* threads: AddFsm tests and inserts in one critical section.              *)
(***************************************************************************)

CapacityInv == IsFiniteSet(DOMAIN fsms) /\ WithinCapacity

\* No factory has an FSM at first.
LEMMA InitCapacity == Init => CapacityInv
<1> SUFFICES ASSUME Init PROVE CapacityInv
    OBVIOUS
<1>1. DOMAIN fsms = {}
    BY DEF Init
<1>2. \A s \in FactoryId : FsmList(s) = {}
    BY <1>1 DEF FsmList
<1> QED
    BY <1>1, <1>2, FS_EmptySet, LimitAssumption DEF CapacityInv, WithinCapacity

\* The lists of a factory whose FSMs are among those it had are not longer.
LEMMA CapacitySubset ==
    ASSUME CapacityInv, DOMAIN fsms' \subseteq DOMAIN fsms
    PROVE  CapacityInv'
<1>1. IsFiniteSet(DOMAIN fsms')
    BY FS_Subset DEF CapacityInv
<1>2. ASSUME NEW s \in FactoryId PROVE Cardinality(FsmList(s)') <= FSM_NUM_IN_FAC
    <2>1. FsmList(s)' \subseteq FsmList(s) /\ FsmList(s) \subseteq DOMAIN fsms
        BY DEF FsmList
    <2>2. /\ IsFiniteSet(FsmList(s)) /\ IsFiniteSet(FsmList(s)')
          /\ Cardinality(FsmList(s)') <= Cardinality(FsmList(s))
        BY <2>1, FS_Subset DEF CapacityInv
    <2>3. Cardinality(FsmList(s)) \in Nat /\ Cardinality(FsmList(s)') \in Nat
        BY <2>2, FS_CardinalityType
    <2>4. Cardinality(FsmList(s)) <= FSM_NUM_IN_FAC
        BY DEF CapacityInv, WithinCapacity
    <2> QED
        BY <2>2, <2>3, <2>4, LimitAssumption
<1> QED
    BY <1>1, <1>2 DEF CapacityInv, WithinCapacity

\* A factory never holds more than its limit.
LEMMA StepCapacity == TypeInv /\ CapacityInv /\ [Next]_vars => CapacityInv'
<1> SUFFICES ASSUME TypeInv, CapacityInv, [Next]_vars PROVE CapacityInv'
    OBVIOUS
<1>1. ASSUME NEW t \in Threads, AddFsm(t) PROVE CapacityInv'
    <2> DEFINE s == cur[t].serviceId
               h == <<s, NewFsmId(s)>>
    <2>1. CASE FactoryFull(s) /\ UNCHANGED <<facVars, sessionOf>>
        BY <2>1, CapacitySubset DEF facVars
    <2>2. CASE ~FactoryFull(s)
        <3>1. DOMAIN fsms' = DOMAIN fsms \cup {h}
            BY <1>1, <2>2 DEF AddFsm
        <3>2. IsFiniteSet(DOMAIN fsms')
            BY <3>1, FS_AddElement DEF CapacityInv
        <3>3. ASSUME NEW z \in FactoryId PROVE Cardinality(FsmList(z)') <= FSM_NUM_IN_FAC
            <4>1. CASE z # s
                <5>1. FsmList(z)' = FsmList(z)
                    BY <3>1, <4>1 DEF FsmList
                <5> QED
                    BY <5>1 DEF CapacityInv, WithinCapacity
            <4>2. CASE z = s
                <5>1. FsmList(z)' = FsmList(z) \cup {h}
                    BY <3>1, <4>2 DEF FsmList
                <5>2. IsFiniteSet(FsmList(z))
                    BY FS_Subset DEF CapacityInv, FsmList
                <5>3. Cardinality(FsmList(z)) \in Nat /\ Cardinality(FsmList(z)) < FSM_NUM_IN_FAC
                    BY <2>2, <4>2, <5>2, FS_CardinalityType, LimitAssumption DEF FactoryFull
                <5>4. Cardinality(FsmList(z)') \in {Cardinality(FsmList(z)), Cardinality(FsmList(z)) + 1}
                    BY <5>1, <5>2, FS_AddElement
                <5> QED
                    BY <5>3, <5>4, LimitAssumption
            <4> QED
                BY <4>1, <4>2
        <3> QED
            BY <3>2, <3>3 DEF CapacityInv, WithinCapacity
    <2> QED
        BY <1>1, <2>1, <2>2 DEF AddFsm
<1>2. ASSUME NEW t \in Threads, SetState(t) PROVE CapacityInv'
    BY <1>2, CapacitySubset DEF SetState
<1>3. ASSUME NEW t \in Threads, KillFsm(t) PROVE CapacityInv'
    <2>1. DOMAIN fsms' \subseteq DOMAIN fsms
        BY <1>3 DEF KillFsm, Erase
    <2> QED
        BY <2>1, CapacitySubset
<1>4. CASE UNCHANGED fsms
    BY <1>4, CapacitySubset
<1>5. \/ UNCHANGED fsms
      \/ \E t \in Threads : AddFsm(t) \/ SetState(t) \/ KillFsm(t)
    BY DEF Next, Dispatch, RegisterFactory, ClientSend, Start, Stop, Join, WorkerExits, Pop,
       FindFsm, Execute, Post, Reap, TimerFires, vars, facVars
<1> QED
    BY <1>1, <1>2, <1>3, <1>4, <1>5

\* A factory never holds more than FSM_NUM_IN_FAC FSMs (Cfactory::AddFsm),
\* whatever clients post and however many threads dispatch.
THEOREM CapacityKept == Spec => []WithinCapacity
<1>1. Init => TypeInv /\ CapacityInv
    BY InitType, InitCapacity
<1>2. TypeInv /\ CapacityInv /\ [Next]_vars => (TypeInv /\ CapacityInv)'
    BY StepType, StepCapacity
<1>3. CapacityInv => WithinCapacity
    BY DEF CapacityInv
<1> QED
    BY <1>1, <1>2, <1>3, PTL DEF Spec

(***************************************************************************)
(* One dispatching thread.  CompletedOnce alone is not inductive: the step*)
(* that reports must know that the FSM it reports is still in its factory  *)
(* (Alive), that a flow already reported is not in a factory any more      *)
(* (ReportedGone), and that no id comes back (IdsUsed).  FlowSteps needs   *)
(* what the step that reclaims and the step that sets the state have read  *)
(* before (KillReported, RowFits).  Start must not meet a worker inside a  *)
(* dispatch (Joinable).                                                    *)
(***************************************************************************)

Holding == {"execute", "transit", "post", "reap", "kill"}

Alive == pc[Worker] \in Holding => Held(Worker) \in DOMAIN fsms

Used(h) == h[2] < nextFsmId[h[1]]

Reported(h) == \E i \in 1..Len(completions) : Target(completions[i]) = h

IdsUsed ==
    /\ \A h \in DOMAIN fsms : Used(h)
    /\ \A h \in DOMAIN sessionOf : Used(h)
    /\ \A h \in FsmHandle : Reported(h) => Used(h)

ReportedGone ==
    \A h \in DOMAIN fsms : Reported(h) => (pc[Worker] = "kill" /\ h = Held(Worker))

KillReported ==
    pc[Worker] = "kill" => (fsms[Held(Worker)] = "KILL_FSM" /\ Reported(Held(Worker)))

Joinable == pc[Worker] # "none" => joinable

RowFits ==
    pc[Worker] = "transit" =>
        /\ fsms[Held(Worker)] # "KILL_FSM"
        /\ row[Worker].to # "IDLE"

FlowInv ==
    /\ Alive /\ IdsUsed /\ ReportedGone /\ KillReported /\ Joinable /\ RowFits
    /\ CompletedOnce
-----------------------------------------------------------------------------
\* No flow is there at first.
LEMMA InitFlow == Init => FlowInv
<1> SUFFICES ASSUME Init PROVE FlowInv
    OBVIOUS
<1>1. pc[Worker] = "none" /\ DOMAIN fsms = {} /\ DOMAIN sessionOf = {} /\ completions = <<>>
    BY WorkerIsThread DEF Init
<1>2. \A h : ~Reported(h)
    BY <1>1 DEF Reported
<1> QED
    BY <1>1, <1>2 DEF FlowInv, Alive, Holding, IdsUsed, ReportedGone, KillReported, Joinable,
       RowFits, CompletedOnce

\* An event that is appended reports its own flow and no other.
LEMMA ReportedAppend ==
    ASSUME completions \in Seq(FsmCompletionEvent), NEW e \in FsmCompletionEvent,
           completions' = Append(completions, e), NEW h
    PROVE  Reported(h)' <=> (Reported(h) \/ Target(e) = h)
<1>1. /\ Len(completions') = Len(completions) + 1 /\ Len(completions) \in Nat
      /\ \A i \in 1..Len(completions) : completions'[i] = completions[i]
      /\ completions'[Len(completions) + 1] = e
    OBVIOUS
<1>2. ASSUME NEW i \in 1..Len(completions'), Target(completions'[i]) = h
      PROVE  Reported(h) \/ Target(e) = h
    <2>1. i \in 1..Len(completions) \/ i = Len(completions) + 1
        BY <1>1
    <2> QED
        BY <1>1, <1>2, <2>1 DEF Reported
<1>3. ASSUME NEW i \in 1..Len(completions), Target(completions[i]) = h
      PROVE  i \in 1..Len(completions') /\ Target(completions'[i]) = h
    BY <1>1, <1>3
<1>4. Len(completions) + 1 \in 1..Len(completions')
    BY <1>1
<1>5. Reported(h)' => (Reported(h) \/ Target(e) = h)
    BY <1>2 DEF Reported
<1>6. Reported(h) => Reported(h)'
    BY <1>3 DEF Reported
<1>7. Target(e) = h => Reported(h)'
    BY <1>1, <1>4 DEF Reported
<1> QED
    BY <1>5, <1>6, <1>7

\* An event for a flow that was not reported keeps the events distinct.
LEMMA OnceAppend ==
    ASSUME completions \in Seq(FsmCompletionEvent), NEW e \in FsmCompletionEvent,
           completions' = Append(completions, e), CompletedOnce, ~Reported(Target(e))
    PROVE  CompletedOnce'
<1>1. /\ Len(completions') = Len(completions) + 1 /\ Len(completions) \in Nat
      /\ \A i \in 1..Len(completions) : completions'[i] = completions[i]
      /\ completions'[Len(completions) + 1] = e
    OBVIOUS
<1>2. ASSUME NEW i \in 1..Len(completions'), NEW j \in 1..Len(completions'),
             Target(completions'[i]) = Target(completions'[j])
      PROVE  i = j
    <2>1. CASE i \in 1..Len(completions) /\ j \in 1..Len(completions)
        BY <1>1, <1>2, <2>1 DEF CompletedOnce
    <2>2. CASE i = Len(completions) + 1 /\ j \in 1..Len(completions)
        BY <1>1, <1>2, <2>2 DEF Reported
    <2>3. CASE i \in 1..Len(completions) /\ j = Len(completions) + 1
        BY <1>1, <1>2, <2>3 DEF Reported
    <2>4. CASE i = Len(completions) + 1 /\ j = Len(completions) + 1
        BY <2>4
    <2> QED
        BY <1>1, <2>1, <2>2, <2>3, <2>4
<1> QED
    BY <1>2 DEF CompletedOnce

\* A step that changes no FSM, id, session or report keeps the invariant if the
\* worker takes up only an FSM its factory owns and does not leave a reclaim.
LEMMA QuietStep ==
    ASSUME FlowInv, UNCHANGED <<fsms, nextFsmId, sessionOf, completions>>,
           pc'[Worker] \in Holding => Held(Worker)' \in DOMAIN fsms,
           pc[Worker] = "kill" <=> pc'[Worker] = "kill",
           pc[Worker] = "kill" => Held(Worker)' = Held(Worker),
           Joinable', RowFits'
    PROVE  FlowInv'
<1>1. \A h : Reported(h)' <=> Reported(h)
    BY DEF Reported
<1>2. Alive'
    BY DEF Alive
<1>3. IdsUsed'
    BY <1>1 DEF FlowInv, IdsUsed, Used
<1>4. ReportedGone'
    BY <1>1 DEF FlowInv, ReportedGone
<1>5. KillReported'
    BY <1>1 DEF FlowInv, KillReported
<1>6. CompletedOnce'
    BY DEF FlowInv, CompletedOnce
<1> QED
    BY <1>2, <1>3, <1>4, <1>5, <1>6 DEF FlowInv

\* A worker inside a dispatch was started and not joined.
LEMMA JoinableKept ==
    ASSUME Joinable, pc[Worker] # "none", joinable' = joinable
    PROVE  Joinable'
BY Zenon DEF Joinable

\* The step of AddFsm that creates: the new FSM has an id nobody used.
LEMMA AddKeeps ==
    ASSUME TypeInv, FlowInv, AddFsm(Worker), ~FactoryFull(cur[Worker].serviceId)
    PROVE  FlowInv'
<1>1. /\ pc[Worker] = "add" /\ cur[Worker] \in CMsg /\ cur[Worker].serviceId \in FactoryId
      /\ nextFsmId \in [FactoryId -> Nat \ {0}]
      /\ DOMAIN fsms \subseteq FsmHandle /\ DOMAIN sessionOf \subseteq FsmHandle
    BY WorkerIsThread DEF AddFsm, TypeInv, TypeOK, Routable
<1>2. PICK s \in FactoryId : s = cur[Worker].serviceId
    BY <1>1
<1>3. PICK h \in FsmHandle : h = <<s, nextFsmId[s]>>
    BY <1>1 DEF FsmHandle
<1>4. /\ fsms' = [x \in DOMAIN fsms \cup {h} |-> IF x = h THEN "IDLE" ELSE fsms[x]]
      /\ nextFsmId' = [nextFsmId EXCEPT ![s] = @ + 1]
      /\ cur' = [cur EXCEPT ![Worker].fsmId = nextFsmId[s]]
      /\ DOMAIN sessionOf' = DOMAIN sessionOf \cup {h}
      /\ pc' = [pc EXCEPT ![Worker] = "execute"]
      /\ UNCHANGED <<completions, joinable>>
    BY <1>2, <1>3 DEF AddFsm, Goto, mgrVars, NewFsmId
<1>5. \A g : Reported(g)' <=> Reported(g)
    BY <1>4 DEF Reported
<1>6. pc'[Worker] = "execute" /\ Held(Worker)' = h
    BY <1>1, <1>2, <1>3, <1>4, WorkerIsThread DEF TypeInv, TypeOK, Held, Target, CMsg
<1>7. \A g \in FsmHandle : Used(g) => Used(g)'
    BY <1>1, <1>4 DEF Used, FsmHandle
<1>8. Used(h)' /\ ~Used(h)
    BY <1>1, <1>3, <1>4 DEF Used
<1>9. Alive' /\ KillReported' /\ RowFits'
    BY <1>4, <1>6 DEF Alive, KillReported, RowFits
<1>10. IdsUsed'
    <2>1. /\ \A g \in DOMAIN fsms : Used(g)
          /\ \A g \in DOMAIN sessionOf : Used(g)
          /\ \A g \in FsmHandle : Reported(g) => Used(g)
        BY DEF FlowInv, IdsUsed
    <2>2. DOMAIN fsms' = DOMAIN fsms \cup {h}
        BY <1>4
    <2>3. \A g \in DOMAIN fsms' : Used(g)'
        BY <1>1, <1>7, <1>8, <2>1, <2>2
    <2>4. \A g \in DOMAIN sessionOf' : Used(g)'
        BY <1>1, <1>4, <1>7, <1>8, <2>1
    <2>5. \A g \in FsmHandle : Reported(g)' => Used(g)'
        BY <1>5, <1>7, <2>1
    <2> QED
        BY <2>3, <2>4, <2>5 DEF IdsUsed
<1>11. ReportedGone'
    BY <1>1, <1>4, <1>5, <1>8 DEF FlowInv, IdsUsed, ReportedGone
<1>12. Joinable'
    <2>1. pc[Worker] # "none" /\ joinable' = joinable
        BY <1>1, <1>4
    <2> QED
        BY <2>1, JoinableKept, Zenon DEF FlowInv
<1>13. CompletedOnce'
    BY <1>4 DEF FlowInv, CompletedOnce
<1> QED
    BY <1>9, <1>10, <1>11, <1>12, <1>13 DEF FlowInv

\* Reclaiming the reported FSM: no live FSM is reported any more.
LEMMA KillKeeps ==
    ASSUME TypeInv, FlowInv, KillFsm(Worker)
    PROVE  FlowInv'
<1>1. /\ pc[Worker] = "kill" /\ fsms' = [g \in DOMAIN fsms \ {Held(Worker)} |-> fsms[g]]
      /\ pc' = [pc EXCEPT ![Worker] = "idle"]
      /\ UNCHANGED <<nextFsmId, sessionOf, completions>> /\ joinable' = joinable
    BY DEF KillFsm, Erase, Return, mgrVars, histVars
<1>2. \A g : Reported(g)' <=> Reported(g)
    BY <1>1 DEF Reported
<1>3. pc'[Worker] = "idle"
    BY <1>1, WorkerIsThread DEF TypeInv, TypeOK
<1>4. Alive' /\ KillReported' /\ RowFits'
    BY <1>3 DEF Alive, Holding, KillReported, RowFits
<1>5. DOMAIN fsms' = DOMAIN fsms \ {Held(Worker)}
    BY <1>1
<1>6. IdsUsed'
    BY <1>1, <1>2, <1>5 DEF FlowInv, IdsUsed, Used
<1>7. ReportedGone'
    BY <1>2, <1>5 DEF FlowInv, ReportedGone
<1>8. CompletedOnce'
    BY <1>1 DEF FlowInv, CompletedOnce
<1>9. Joinable'
    <2>1. pc[Worker] # "none" /\ joinable' = joinable
        BY <1>1
    <2> QED
        BY <2>1, JoinableKept, Zenon DEF FlowInv
<1> QED
    BY <1>4, <1>6, <1>7, <1>8, <1>9 DEF FlowInv

\* Reporting: the flow is alive, so nobody reported it before.
LEMMA ReportKeeps ==
    ASSUME TypeInv, FlowInv, Reap(Worker), fsms[Held(Worker)] = "KILL_FSM"
    PROVE  FlowInv'
<1>1. /\ pc[Worker] = "reap" /\ Held(Worker) \in DOMAIN fsms
      /\ completions' = Append(completions, CompletionEvent(Worker))
      /\ pc' = [pc EXCEPT ![Worker] = "kill"]
      /\ UNCHANGED <<cur, fsms, nextFsmId, sessionOf>> /\ joinable' = joinable
    BY DEF Reap, Goto, facVars, mgrVars
<1>2. PICK h \in FsmHandle : h = Held(Worker)
    BY <1>1 DEF TypeInv, TypeOK
<1>3. completions \in Seq(FsmCompletionEvent)
    BY DEF TypeInv, TypeOK
<1>4. PICK e \in FsmCompletionEvent : e = CompletionEvent(Worker) /\ Target(e) = h
    <2>1. cur[Worker] \in CMsg /\ ret[Worker] \in EerrNo
        BY WorkerIsThread DEF TypeInv, TypeOK
    <2>2. cur[Worker].serviceId \in FactoryId
        BY <1>2, <2>1, TargetType DEF Held
    <2>3. CompletionEvent(Worker) \in FsmCompletionEvent
        BY <2>1, <2>2 DEF CompletionEvent, FsmCompletionEvent, CMsg
    <2>4. Target(CompletionEvent(Worker)) = Held(Worker)
        BY DEF CompletionEvent, Target, Held
    <2> QED
        BY <1>2, <2>3, <2>4
<1>5. \A g : Reported(g)' <=> (Reported(g) \/ g = h)
    BY <1>1, <1>3, <1>4, ReportedAppend
<1>6. pc'[Worker] = "kill" /\ Held(Worker)' = h
    BY <1>1, <1>2, WorkerIsThread DEF TypeInv, TypeOK, Held, Target
<1>7. ~Reported(h) /\ Used(h)
    BY <1>1, <1>2 DEF FlowInv, ReportedGone, IdsUsed
<1>8. CompletedOnce'
    BY <1>1, <1>3, <1>4, <1>7, OnceAppend DEF FlowInv
<1>9. IdsUsed'
    BY <1>1, <1>5, <1>7 DEF FlowInv, IdsUsed, Used
<1>10. Alive' /\ RowFits'
    BY <1>1, <1>2, <1>6 DEF Alive, RowFits
<1>11. KillReported' /\ ReportedGone'
    BY <1>1, <1>2, <1>5, <1>6 DEF FlowInv, KillReported, ReportedGone
<1>12. Joinable'
    <2>1. pc[Worker] # "none" /\ joinable' = joinable
        BY <1>1
    <2> QED
        BY <2>1, JoinableKept, Zenon DEF FlowInv
<1> QED
    BY <1>8, <1>9, <1>10, <1>11, <1>12 DEF FlowInv

\* Setting the state of an FSM the worker holds.
LEMMA SetStateKeeps ==
    ASSUME TypeInv, FlowInv, SetState(Worker)
    PROVE  FlowInv'
<1>1. /\ pc[Worker] = "transit" /\ Held(Worker) \in DOMAIN fsms
      /\ DOMAIN fsms' = DOMAIN fsms
      /\ pc'[Worker] \in {"post", "reap"} /\ Held(Worker)' = Held(Worker)
      /\ UNCHANGED <<nextFsmId, sessionOf, completions>> /\ joinable' = joinable
    BY WorkerIsThread DEF SetState, Goto, Held, Target, mgrVars, histVars, TypeInv, TypeOK
<1>2. \A g : Reported(g)' <=> Reported(g)
    BY <1>1 DEF Reported
<1>3. Alive' /\ KillReported' /\ RowFits'
    BY <1>1 DEF Alive, KillReported, RowFits
<1>4. IdsUsed'
    BY <1>1, <1>2 DEF FlowInv, IdsUsed, Used
<1>5. ReportedGone'
    BY <1>1, <1>2 DEF FlowInv, ReportedGone
<1>6. CompletedOnce'
    BY <1>1 DEF FlowInv, CompletedOnce
<1>7. Joinable'
    <2>1. pc[Worker] # "none" /\ joinable' = joinable
        BY <1>1
    <2> QED
        BY <2>1, JoinableKept, Zenon DEF FlowInv
<1> QED
    BY <1>3, <1>4, <1>5, <1>6, <1>7 DEF FlowInv

\* No transition leads back to IDLE.
LEMMA ToNotIdle == \A r \in TransitionsFor(Worker) : r.to # "IDLE"
<1>1. \A r \in RegTransitions : r.to # "IDLE"
    BY DEF RegTransitions, Row
<1>2. \A r \in AuthTransitions : r.to # "IDLE"
    BY DEF AuthTransitions, Row
<1> QED
    BY <1>1, <1>2 DEF TransitionsFor, FindFsmTransition, Transitions

\* Every step of a manager with one dispatching thread keeps the invariant.
LEMMA StepFlow ==
    ASSUME SingleDispatcher, TypeInv, FlowInv, [Next]_vars
    PROVE  FlowInv'
<1>0. Threads = {Worker}
    BY DEF SingleDispatcher, Threads
<1>1. pc \in [Threads -> PC] /\ Worker \in Threads
    BY WorkerIsThread DEF TypeInv, TypeOK
<1>2. FlowInv => (Alive /\ Joinable /\ RowFits)
    BY Zenon DEF FlowInv
<1>3. CASE UNCHANGED <<fsms, nextFsmId, sessionOf, completions, pc, cur, row>> /\ joinable' = joinable
    <2>1. Held(Worker)' = Held(Worker)
        BY <1>3 DEF Held, Target
    <2>2. RowFits'
        BY <1>2, <1>3, <2>1 DEF RowFits
    <2>3. Joinable'
        BY <1>2, <1>3, Zenon DEF Joinable
    <2> QED
        BY <1>2, <1>3, <2>1, <2>2, <2>3, QuietStep DEF Alive
<1>4. CASE Start
    <2>1. pc[Worker] = "none"
        BY <1>2, <1>4 DEF Start, Joinable
    <2>2. pc'[Worker] = "idle" /\ joinable'
        BY <1>1, <1>4 DEF Start
    <2>3. Joinable' /\ RowFits'
        BY <2>2 DEF Joinable, RowFits
    <2> QED
        BY <1>4, <2>1, <2>2, <2>3, QuietStep DEF Start, facVars, histVars, Holding
<1>5. CASE Join
    <2>1. pc[Worker] = "exited" /\ pc'[Worker] = "none"
        BY <1>1, <1>5 DEF Join
    <2>2. Joinable' /\ RowFits'
        BY <2>1 DEF Joinable, RowFits
    <2> QED
        BY <1>5, <2>1, <2>2, QuietStep DEF Join, facVars, histVars, Holding
<1>6. CASE WorkerExits
    <2>1. pc[Worker] = "idle" /\ pc'[Worker] = "exited" /\ joinable' = joinable
        BY <1>1, <1>6 DEF WorkerExits, Goto
    <2>2. Joinable' /\ RowFits'
        BY <1>2, <2>1, JoinableKept DEF RowFits
    <2> QED
        BY <1>6, <2>1, <2>2, QuietStep DEF WorkerExits, facVars, histVars, Holding
<1>7. CASE Pop(Worker)
    <2>1. pc[Worker] = "idle" /\ pc'[Worker] = "find" /\ joinable' = joinable
        BY <1>1, <1>7 DEF Pop, Goto, mgrVars
    <2>2. Joinable' /\ RowFits'
        BY <1>2, <2>1, JoinableKept DEF RowFits
    <2> QED
        BY <1>7, <2>1, <2>2, QuietStep DEF Pop, facVars, histVars, Holding
<1>8. CASE FindFsm(Worker)
    <2>1. pc[Worker] = "find" /\ joinable' = joinable
            /\ UNCHANGED <<fsms, nextFsmId, sessionOf, completions>>
        BY <1>8 DEF FindFsm, mgrVars, facVars
    <2>2. \/ pc'[Worker] \in {"idle", "add"}
          \/ pc'[Worker] = "execute" /\ UNCHANGED cur /\ FsmFound(cur[Worker])
        BY <1>1, <1>8 DEF FindFsm, Refuse, Return, Goto
    <2>3. pc'[Worker] \in Holding => Held(Worker)' \in DOMAIN fsms
        BY <2>2 DEF FsmFound, Held, Target, Holding
    <2>4. Joinable' /\ RowFits'
        BY <1>2, <2>1, <2>2, JoinableKept DEF RowFits
    <2> QED
        BY <2>1, <2>2, <2>3, <2>4, QuietStep
<1>9. CASE AddFsm(Worker)
    <2>1. CASE ~FactoryFull(cur[Worker].serviceId)
        BY <1>9, <2>1, AddKeeps
    <2>2. CASE FactoryFull(cur[Worker].serviceId)
        <3>1. pc[Worker] = "add" /\ pc'[Worker] = "idle" /\ joinable' = joinable
                /\ UNCHANGED <<fsms, nextFsmId, sessionOf, completions>>
            BY <1>1, <1>9, <2>2 DEF AddFsm, Refuse, Return, mgrVars, facVars
        <3>2. Joinable' /\ RowFits'
            BY <1>2, <3>1, JoinableKept DEF RowFits
        <3> QED
            BY <3>1, <3>2, QuietStep DEF Holding
    <2> QED
        BY <2>1, <2>2
<1>10. CASE Execute(Worker)
    <2>1. /\ pc[Worker] = "execute" /\ Held(Worker) \in DOMAIN fsms /\ joinable' = joinable
          /\ UNCHANGED <<cur, fsms, nextFsmId, sessionOf, completions>>
        BY <1>10 DEF Execute, mgrVars, facVars, histVars
    <2>2. \/ pc'[Worker] = "reap"
          \/ /\ pc'[Worker] = "transit" /\ fsms[Held(Worker)] # "KILL_FSM"
             /\ row'[Worker] \in TransitionsFor(Worker)
        BY <1>1, <1>10 DEF Execute, Goto, TypeInv, TypeOK
    <2>3. Held(Worker)' = Held(Worker)
        BY <2>1 DEF Held, Target
    <2>4. \A r \in TransitionsFor(Worker) : r.to # "IDLE"
        BY ToNotIdle
    <2>5. RowFits'
        BY <2>1, <2>2, <2>3, <2>4 DEF RowFits
    <2>6. Joinable'
        BY <1>2, <2>1, JoinableKept
    <2> QED
        BY <2>1, <2>2, <2>3, <2>5, <2>6, QuietStep
<1>11. CASE SetState(Worker)
    BY <1>11, SetStateKeeps
<1>12. CASE Post(Worker)
    <2>1. /\ pc[Worker] = "post" /\ pc'[Worker] = "reap" /\ joinable' = joinable
          /\ Held(Worker) \in DOMAIN fsms
          /\ UNCHANGED <<cur, fsms, nextFsmId, sessionOf, completions>>
        BY <1>1, <1>12 DEF Post, Goto, mgrVars, facVars
    <2>2. Held(Worker)' = Held(Worker)
        BY <2>1 DEF Held, Target
    <2>3. Joinable' /\ RowFits'
        BY <1>2, <2>1, JoinableKept DEF RowFits
    <2> QED
        BY <2>1, <2>2, <2>3, QuietStep
<1>13. CASE Reap(Worker)
    <2>1. CASE fsms[Held(Worker)] = "KILL_FSM"
        BY <1>13, <2>1, ReportKeeps
    <2>2. CASE fsms[Held(Worker)] # "KILL_FSM"
        <3>1. /\ pc[Worker] = "reap" /\ pc'[Worker] = "idle" /\ joinable' = joinable
              /\ UNCHANGED <<fsms, nextFsmId, sessionOf, completions>>
            BY <1>1, <1>13, <2>2 DEF Reap, Return, mgrVars, facVars
        <3>2. Joinable' /\ RowFits'
            BY <1>2, <3>1, JoinableKept DEF RowFits
        <3> QED
            BY <3>1, <3>2, QuietStep DEF Holding
    <2> QED
        BY <2>1, <2>2
<1>14. CASE KillFsm(Worker)
    BY <1>14, KillKeeps
<1>15. ASSUME \/ \E id \in FactoryId : RegisterFactory(id)
              \/ \E m \in ClientMsgs : ClientSend(m)
              \/ Stop
              \/ \E tm \in timers : TimerFires(tm)
              \/ UNCHANGED vars
       PROVE  FlowInv'
    <2>1. UNCHANGED <<fsms, nextFsmId, sessionOf, completions, pc, cur, row>> /\ joinable' = joinable
        BY <1>15 DEF RegisterFactory, ClientSend, Stop, TimerFires, vars, mgrVars, facVars,
           threadVars, histVars
    <2> QED
        BY <1>3, <2>1
<1> QED
    BY <1>0, <1>4, <1>5, <1>6, <1>7, <1>8, <1>9, <1>10, <1>11, <1>12, <1>13, <1>14, <1>15
    DEF Next, Dispatch
-----------------------------------------------------------------------------
\* With one dispatching thread the worker never works on an FSM that was
\* reclaimed: the pointer FindFsm returned stays good until KillFsm, whatever
\* clients post and however often the application stops and starts.
THEOREM NoDangling == ASSUME SingleDispatcher PROVE Spec => []NoDanglingFsm
<1>1. TypeInv /\ FlowInv /\ [Next]_vars => (TypeInv /\ FlowInv)'
    BY StepType, StepFlow
<1>2. FlowInv => NoDanglingFsm
    BY DEF FlowInv, Alive, Holding, NoDanglingFsm, SingleDispatcher, Threads
<1> QED
    BY <1>1, <1>2, InitType, InitFlow, PTL DEF Spec

\* With one dispatching thread the completion callback hears of a flow once.
THEOREM Once == ASSUME SingleDispatcher PROVE Spec => []CompletedOnce
<1>1. TypeInv /\ FlowInv /\ [Next]_vars => (TypeInv /\ FlowInv)'
    BY StepType, StepFlow
<1>2. FlowInv => CompletedOnce
    BY DEF FlowInv
<1> QED
    BY <1>1, <1>2, InitType, InitFlow, PTL DEF Spec

\* Each step that touches the FSMs is a step of a flow.
LEMMA FlowStepHolds ==
    ASSUME SingleDispatcher, TypeInv, FlowInv, [Next]_vars
    PROVE  FlowStep
<1>0. Threads = {Worker} /\ Worker \in Threads
    BY DEF SingleDispatcher, Threads
<1>1. CASE UNCHANGED fsms
    BY <1>1 DEF FlowStep
<1>2. CASE AddFsm(Worker) /\ ~FactoryFull(cur[Worker].serviceId)
    <2> DEFINE h == <<cur[Worker].serviceId, NewFsmId(cur[Worker].serviceId)>>
    <2>1. fsms' = [x \in DOMAIN fsms \cup {h} |-> IF x = h THEN "IDLE" ELSE fsms[x]]
        BY <1>2 DEF AddFsm
    <2>2. cur[Worker].serviceId \in FactoryId /\ nextFsmId \in [FactoryId -> Nat \ {0}]
        BY <1>0, <1>2 DEF AddFsm, TypeInv, TypeOK, Routable
    <2>3. ~Used(h)
        BY <2>2 DEF Used, NewFsmId
    <2>4. h \notin DOMAIN sessionOf /\ h \notin DOMAIN fsms
        BY <2>3 DEF FlowInv, IdsUsed
    <2> QED
        BY <2>1, <2>4 DEF FlowStep
<1>3. CASE SetState(Worker)
    <2>1. fsms' = [fsms EXCEPT ![Held(Worker)] = row[Worker].to]
            /\ fsms[Held(Worker)] # "KILL_FSM" /\ row[Worker].to # "IDLE"
        BY <1>3 DEF SetState, FlowInv, RowFits
    <2> QED
        BY <2>1 DEF FlowStep, TypeInv, TypeOK
<1>4. CASE KillFsm(Worker)
    <2>1. fsms' = [g \in DOMAIN fsms \ {Held(Worker)} |-> fsms[g]] /\ pc[Worker] = "kill"
        BY <1>4 DEF KillFsm, Erase
    <2>2. fsms[Held(Worker)] = "KILL_FSM"
            /\ \E i \in 1..Len(completions) : Target(completions[i]) = Held(Worker)
        BY <2>1 DEF FlowInv, KillReported, Reported
    <2> QED
        BY <2>1, <2>2 DEF FlowStep
<1>5. \/ UNCHANGED fsms
      \/ AddFsm(Worker) /\ ~FactoryFull(cur[Worker].serviceId)
      \/ SetState(Worker) \/ KillFsm(Worker)
    BY <1>0 DEF Next, Dispatch, RegisterFactory, ClientSend, Start, Stop, Join, WorkerExits, Pop,
       FindFsm, AddFsm, Execute, Post, Reap, TimerFires, vars, facVars
<1> QED
    BY <1>1, <1>2, <1>3, <1>4, <1>5

\* With one dispatching thread an FSM leaves its factory only when it is in
\* KILL_FSM and was reported, its state never goes back, and no id returns.
THEOREM FlowStepsKept == ASSUME SingleDispatcher PROVE Spec => FlowSteps
<1>1. TypeInv /\ FlowInv /\ [Next]_vars => (TypeInv /\ FlowInv)'
    BY StepType, StepFlow
<1>2. TypeInv /\ FlowInv /\ [Next]_vars => [FlowStep]_vars
    BY FlowStepHolds
<1> QED
    BY <1>1, <1>2, InitType, InitFlow, PTL DEF Spec, FlowSteps

-----------------------------------------------------------------------------
(***************************************************************************)
(* What a client of the manager can rely on.  The completion event names    *)
(* the session that opened the flow, for clients that only open flows       *)
(* (InitOnly), as the HTTP server does, and a manager that one thread       *)
(* dispatches; Stop drains the pump, for any number of dispatching threads  *)
(* and any clients; FsmManager implements FlowService, step by step.        *)
(***************************************************************************)

(***************************************************************************)
(* The inductive invariant.  The session travels from message to message,  *)
(* so every message in the pump, in a timer or at the worker must carry it *)
(* (Carries).  That the result is SUCCESS needs that the worker never meets*)
(* an FSM that is in KILL_FSM already: such an FSM exists only between the *)
(* worker's own SetState and KillFsm (KilledIsHeld).                       *)
(***************************************************************************)

\* A message opens a flow, or belongs to one and carries its session.
Carries(m) ==
    \/ IsInit(m) /\ m.fsmId = 0
    \/ /\ ~IsInit(m)
       /\ Target(m) \in DOMAIN sessionOf
       /\ m.sessionId = sessionOf[Target(m)]

PumpCarries   == \A i \in 1..Len(pump) : Carries(pump[i])
TimersCarry   == \A tm \in timers : Carries(tm.msg)
CurCarries    == pc[Worker] \in {"find", "add"} => Carries(cur[Worker])

HeldSession ==
    pc[Worker] \in Holding =>
        /\ Held(Worker) \in DOMAIN sessionOf
        /\ cur[Worker].sessionId = sessionOf[Held(Worker)]

KilledIsHeld ==
    \A h \in DOMAIN fsms :
        fsms[h] = "KILL_FSM" => (pc[Worker] \in {"reap", "kill"} /\ h = Held(Worker))

ReapsSuccess ==
    (pc[Worker] = "reap" /\ fsms[Held(Worker)] = "KILL_FSM") =>
        (ret[Worker] = "SUCCESS" /\ cur[Worker].type = "MSG_CLOSE")

\* Only MSG_CLOSE ends a flow, and no event is followed by MSG_INIT.
RowEnds(r) ==
    /\ r.to = "KILL_FSM" => (r.event = "MSG_CLOSE" /\ ~r.hasNext)
    /\ r.nextEvent # "MSG_INIT"

RowKnown ==
    /\ pc[Worker] = "transit" => RowEnds(row[Worker]) /\ row[Worker].event = cur[Worker].type
    /\ pc[Worker] = "post" => RowEnds(row[Worker])

SessionInv ==
    /\ PumpCarries /\ TimersCarry /\ CurCarries /\ HeldSession
    /\ KilledIsHeld /\ ReapsSuccess /\ RowKnown
    /\ CompletionMatchesFlow
-----------------------------------------------------------------------------
\* No FSM has a session at first.
LEMMA InitSession == Init => SessionInv
<1> SUFFICES ASSUME Init PROVE SessionInv
    OBVIOUS
<1>1. /\ pc[Worker] = "none" /\ DOMAIN fsms = {} /\ completions = <<>> /\ pump = <<>>
      /\ timers = {}
    BY WorkerIsThread DEF Init
<1>2. PumpCarries /\ TimersCarry /\ CurCarries
    BY <1>1 DEF PumpCarries, TimersCarry, CurCarries
<1>3. HeldSession /\ KilledIsHeld /\ ReapsSuccess /\ RowKnown
    BY <1>1 DEF HeldSession, Holding, KilledIsHeld, ReapsSuccess, RowKnown
<1>4. CompletionMatchesFlow
    BY <1>1 DEF CompletionMatchesFlow
<1> QED
    BY <1>2, <1>3, <1>4 DEF SessionInv

\* Every row of the two tables ends a flow only with MSG_CLOSE.
LEMMA RowsEnd == \A r \in RegTransitions \cup AuthTransitions : RowEnds(r)
<1>1. ASSUME NEW from, NEW event, NEW to, NEW nextEvent, NEW delayMs,
             nextEvent # "MSG_INIT", to # "KILL_FSM"
      PROVE  RowEnds(Row(from, event, to, TRUE, nextEvent, delayMs))
    BY <1>1 DEF RowEnds, Row
<1>2. RowEnds(Row("WORKING", "MSG_CLOSE", "KILL_FSM", FALSE, "MSG_CLOSE", 0))
    BY DEF RowEnds, Row
<1>3. \A r \in RegTransitions : RowEnds(r)
    BY <1>1, <1>2 DEF RegTransitions
<1>4. \A r \in AuthTransitions : RowEnds(r)
    BY <1>1, <1>2 DEF AuthTransitions
<1> QED
    BY <1>3, <1>4

\* A message keeps its session while sessions are only added.
LEMMA CarriesKept ==
    ASSUME NEW m, Carries(m), sessionOf' = sessionOf
    PROVE  Carries(m)'
BY DEF Carries

\* A message that is appended to the pump and carries its session.
LEMMA AppendCarries ==
    ASSUME pump \in Seq(CMsg), NEW m \in CMsg, pump' = Append(pump, m), PumpCarries,
           Carries(m), sessionOf' = sessionOf
    PROVE  PumpCarries'
<1>1. /\ Len(pump') = Len(pump) + 1 /\ Len(pump) \in Nat
      /\ \A i \in 1..Len(pump) : pump'[i] = pump[i]
      /\ pump'[Len(pump) + 1] = m
    OBVIOUS
<1>2. ASSUME NEW i \in 1..Len(pump') PROVE Carries(pump[i])'
    <2>1. CASE i \in 1..Len(pump)
        <3>1. Carries(pump[i]) /\ pump'[i] = pump[i]
            BY <1>1, <2>1 DEF PumpCarries
        <3> QED
            BY <3>1 DEF Carries, Target
    <2>2. CASE i = Len(pump) + 1
        <3>1. pump'[i] = m
            BY <1>1, <2>2
        <3> QED
            BY <3>1 DEF Carries, Target
    <2> QED
        BY <1>1, <2>1, <2>2
<1> QED
    BY <1>2 DEF PumpCarries

\* A step of a client, the application or a timer, which leaves the worker alone.
LEMMA OthersStep ==
    ASSUME SessionInv, UNCHANGED <<fsms, sessionOf, completions, pc, cur, row, ret>>,
           PumpCarries', TimersCarry'
    PROVE  SessionInv'
<1>1. Held(Worker)' = Held(Worker)
    BY DEF Held, Target
<1>2. CurCarries'
    BY DEF SessionInv, CurCarries, Carries, Target
<1>3. HeldSession' /\ KilledIsHeld' /\ ReapsSuccess'
    BY <1>1 DEF SessionInv, HeldSession, KilledIsHeld, ReapsSuccess
<1>4. RowKnown'
    BY DEF SessionInv, RowKnown, RowEnds
<1>5. CompletionMatchesFlow'
    BY DEF SessionInv, CompletionMatchesFlow
<1> QED
    BY <1>2, <1>3, <1>4, <1>5 DEF SessionInv

\* A step of the worker while no FSM is in KILL_FSM.
LEMMA WorkerStep ==
    ASSUME SessionInv, Alive', UNCHANGED <<fsms, sessionOf, completions>>,
           \A h \in DOMAIN fsms : fsms[h] # "KILL_FSM",
           PumpCarries', TimersCarry', CurCarries', HeldSession', RowKnown'
    PROVE  SessionInv'
<1>1. KilledIsHeld'
    BY DEF KilledIsHeld
<1>2. ReapsSuccess'
    BY DEF Alive, Holding, ReapsSuccess
<1>3. CompletionMatchesFlow'
    BY DEF SessionInv, CompletionMatchesFlow
<1> QED
    BY <1>1, <1>2, <1>3 DEF SessionInv

\* The step of AddFsm that creates: the session of the new handle is that of the
\* message, and no older handle changes its session.
LEMMA AddSession ==
    ASSUME TypeInv, FlowInv, SessionInv, FlowInv', AddFsm(Worker),
           ~FactoryFull(cur[Worker].serviceId)
    PROVE  SessionInv'
<1>1. /\ pc[Worker] = "add" /\ cur[Worker] \in CMsg /\ cur[Worker].serviceId \in FactoryId
      /\ nextFsmId \in [FactoryId -> Nat \ {0}] /\ pc \in [Threads -> PC]
      /\ cur \in [Threads -> CMsg] /\ Worker \in Threads
    BY WorkerIsThread DEF AddFsm, TypeInv, TypeOK, Routable
<1>2. PICK h \in FsmHandle : h = <<cur[Worker].serviceId, nextFsmId[cur[Worker].serviceId]>>
    BY <1>1 DEF FsmHandle
<1>3. /\ fsms' = [x \in DOMAIN fsms \cup {h} |-> IF x = h THEN "IDLE" ELSE fsms[x]]
      /\ cur' = [cur EXCEPT ![Worker].fsmId = h[2]]
      /\ sessionOf' = [x \in DOMAIN sessionOf \cup {h} |->
                          IF x = h THEN cur[Worker].sessionId ELSE sessionOf[x]]
      /\ pc' = [pc EXCEPT ![Worker] = "execute"]
      /\ UNCHANGED <<pump, timers, completions>>
    BY <1>2 DEF AddFsm, Goto, timerVars, NewFsmId
<1>4. h \notin DOMAIN sessionOf
    BY <1>1, <1>2 DEF FlowInv, IdsUsed, Used
<1>5. \A g \in DOMAIN sessionOf : g \in DOMAIN sessionOf' /\ sessionOf'[g] = sessionOf[g]
    BY <1>3, <1>4
<1>6. PumpCarries'
    BY <1>3, <1>5 DEF SessionInv, PumpCarries, Carries, Target
<1>7. TimersCarry'
    BY <1>3, <1>5 DEF SessionInv, TimersCarry, Carries, Target
<1>8. /\ pc'[Worker] = "execute" /\ Held(Worker)' = h
      /\ cur'[Worker].sessionId = cur[Worker].sessionId
    BY <1>1, <1>2, <1>3 DEF Held, Target, CMsg
<1>9. CurCarries' /\ ReapsSuccess' /\ RowKnown'
    BY <1>8 DEF CurCarries, ReapsSuccess, RowKnown
<1>10. HeldSession'
    BY <1>3, <1>8 DEF HeldSession
<1>11. KilledIsHeld'
    BY <1>1, <1>3 DEF SessionInv, KilledIsHeld
<1>12. CompletionMatchesFlow'
    BY <1>3, <1>5 DEF SessionInv, CompletionMatchesFlow, Target
<1> QED
    BY <1>6, <1>7, <1>9, <1>10, <1>11, <1>12 DEF SessionInv

\* Setting the state: an FSM that ends was handed MSG_CLOSE and is reaped next.
LEMMA SetStateSession ==
    ASSUME TypeInv, FlowInv, SessionInv, SetState(Worker)
    PROVE  SessionInv'
<1>1. /\ pc \in [Threads -> PC] /\ ret \in [Threads -> EerrNo] /\ Worker \in Threads
    BY WorkerIsThread DEF TypeInv, TypeOK
<1>2. /\ pc[Worker] = "transit" /\ Held(Worker) \in DOMAIN fsms
      /\ fsms' = [fsms EXCEPT ![Held(Worker)] = row[Worker].to]
      /\ ret'[Worker] = "SUCCESS"
      /\ UNCHANGED <<cur, row, pump, timers, sessionOf, completions>>
    BY <1>1 DEF SetState, timerVars, histVars
<1>3. Held(Worker)' = Held(Worker)
    BY <1>2 DEF Held, Target
<1>4. RowEnds(row[Worker]) /\ row[Worker].event = cur[Worker].type
    BY <1>2 DEF SessionInv, RowKnown
<1>5. /\ row[Worker].hasNext => pc'[Worker] = "post"
      /\ ~row[Worker].hasNext => pc'[Worker] = "reap"
    BY <1>1 DEF SetState, Goto
<1>6. pc'[Worker] \in {"post", "reap"}
    BY <1>5
<1>7. row[Worker].to = "KILL_FSM" => pc'[Worker] = "reap" /\ cur[Worker].type = "MSG_CLOSE"
    BY <1>4, <1>5 DEF RowEnds
<1>8. PumpCarries' /\ TimersCarry'
    BY <1>2 DEF SessionInv, PumpCarries, TimersCarry, Carries, Target
<1>9. CurCarries' /\ HeldSession'
    BY <1>2, <1>3, <1>6 DEF SessionInv, CurCarries, HeldSession, Holding
<1>10. \A g \in DOMAIN fsms : fsms[g] # "KILL_FSM"
    BY <1>2 DEF SessionInv, KilledIsHeld
<1>11. KilledIsHeld'
    BY <1>2, <1>3, <1>7, <1>10 DEF KilledIsHeld
<1>12. ReapsSuccess'
    BY <1>2, <1>3, <1>7 DEF ReapsSuccess
<1>13. RowKnown'
    BY <1>2, <1>4, <1>6 DEF RowKnown, RowEnds
<1>14. CompletionMatchesFlow'
    BY <1>2 DEF SessionInv, CompletionMatchesFlow
<1> QED
    BY <1>8, <1>9, <1>11, <1>12, <1>13, <1>14 DEF SessionInv

\* Reporting: the event is the one the flow's session and result call for.
LEMMA ReportSession ==
    ASSUME TypeInv, FlowInv, SessionInv, Reap(Worker), fsms[Held(Worker)] = "KILL_FSM"
    PROVE  SessionInv'
<1>1. pc \in [Threads -> PC] /\ Worker \in Threads /\ completions \in Seq(FsmCompletionEvent)
    BY WorkerIsThread DEF TypeInv, TypeOK
<1>2. /\ pc[Worker] = "reap" /\ pc'[Worker] = "kill"
      /\ completions' = Append(completions, CompletionEvent(Worker))
      /\ UNCHANGED <<cur, row, ret, fsms, pump, timers, sessionOf>>
    BY <1>1 DEF Reap, Goto, facVars, timerVars
<1>3. Held(Worker)' = Held(Worker)
    BY <1>2 DEF Held, Target
<1>4. PumpCarries' /\ TimersCarry'
    BY <1>2 DEF SessionInv, PumpCarries, TimersCarry, Carries, Target
<1>5. CurCarries' /\ HeldSession' /\ KilledIsHeld' /\ ReapsSuccess' /\ RowKnown'
    BY <1>2, <1>3
    DEF SessionInv, CurCarries, HeldSession, Holding, KilledIsHeld, ReapsSuccess, RowKnown
<1>6. PICK e \in FsmCompletionEvent : e = CompletionEvent(Worker)
    <2>1. cur[Worker] \in CMsg /\ ret[Worker] \in EerrNo /\ Held(Worker) \in FsmHandle
        BY <1>1 DEF TypeInv, TypeOK, Reap
    <2>2. cur[Worker].serviceId \in FactoryId
        BY <2>1, TargetType DEF Held
    <2> QED
        BY <2>1, <2>2 DEF CompletionEvent, FsmCompletionEvent, CMsg
<1>7. /\ Target(e) \in DOMAIN sessionOf /\ e.sessionId = sessionOf[Target(e)]
      /\ e.result = "SUCCESS" /\ e.finalEvent = "MSG_CLOSE"
    <2>1. /\ Held(Worker) \in DOMAIN sessionOf
          /\ cur[Worker].sessionId = sessionOf[Held(Worker)]
          /\ ret[Worker] = "SUCCESS" /\ cur[Worker].type = "MSG_CLOSE"
        BY <1>2 DEF SessionInv, HeldSession, Holding, ReapsSuccess
    <2>2. Target(e) = Held(Worker)
        BY <1>6 DEF CompletionEvent, Target, Held
    <2> QED
        BY <1>6, <2>1, <2>2 DEF CompletionEvent
<1>8. CompletionMatchesFlow'
    <2>1. /\ Len(completions') = Len(completions) + 1 /\ Len(completions) \in Nat
          /\ \A i \in 1..Len(completions) : completions'[i] = completions[i]
          /\ completions'[Len(completions) + 1] = e
        BY <1>1, <1>2, <1>6
    <2> SUFFICES ASSUME NEW i \in 1..Len(completions')
                 PROVE  /\ Target(completions'[i]) \in DOMAIN sessionOf
                        /\ completions'[i].sessionId = sessionOf[Target(completions'[i])]
                        /\ completions'[i].result = "SUCCESS"
                        /\ completions'[i].finalEvent = "MSG_CLOSE"
        BY <1>2 DEF CompletionMatchesFlow, Target
    <2>2. CASE i \in 1..Len(completions)
        BY <2>1, <2>2 DEF SessionInv, CompletionMatchesFlow
    <2>3. CASE i = Len(completions) + 1
        BY <1>7, <2>1, <2>3
    <2> QED
        BY <2>1, <2>2, <2>3
<1> QED
    BY <1>4, <1>5, <1>8 DEF SessionInv

\* Reclaiming: the only FSM in KILL_FSM goes.
LEMMA KillSession ==
    ASSUME TypeInv, SessionInv, KillFsm(Worker)
    PROVE  SessionInv'
<1>1. pc \in [Threads -> PC] /\ Worker \in Threads
    BY WorkerIsThread DEF TypeInv, TypeOK
<1>2. /\ pc'[Worker] = "idle"
      /\ fsms' = [g \in DOMAIN fsms \ {Held(Worker)} |-> fsms[g]]
      /\ UNCHANGED <<pump, timers, sessionOf, completions>>
    BY <1>1 DEF KillFsm, Erase, Return, timerVars, histVars
<1>3. PumpCarries' /\ TimersCarry'
    BY <1>2 DEF SessionInv, PumpCarries, TimersCarry, Carries, Target
<1>4. CurCarries' /\ HeldSession' /\ ReapsSuccess' /\ RowKnown'
    BY <1>2 DEF CurCarries, HeldSession, Holding, ReapsSuccess, RowKnown
<1>5. KilledIsHeld'
    BY <1>2 DEF SessionInv, KilledIsHeld
<1>6. CompletionMatchesFlow'
    BY <1>2 DEF SessionInv, CompletionMatchesFlow
<1> QED
    BY <1>3, <1>4, <1>5, <1>6 DEF SessionInv

\* What the worker posts next carries the session of the FSM it holds.
LEMMA NextMsgCarries ==
    ASSUME TypeInv, SessionInv, pc[Worker] = "post"
    PROVE  NextMsg(Worker) \in CMsg /\ Carries(NextMsg(Worker))
<1>1. /\ NextMsg(Worker) \in CMsg
      /\ NextMsg(Worker).sessionId = cur[Worker].sessionId
      /\ NextMsg(Worker).type = row[Worker].nextEvent
      /\ Target(NextMsg(Worker)) = Held(Worker)
    BY NextMsgType, WorkerIsThread DEF TypeInv, TypeOK, Rows
<1>2. /\ Held(Worker) \in DOMAIN sessionOf
      /\ cur[Worker].sessionId = sessionOf[Held(Worker)]
      /\ row[Worker].nextEvent # "MSG_INIT"
    BY DEF SessionInv, HeldSession, Holding, RowKnown, RowEnds
<1> QED
    BY <1>1, <1>2 DEF Carries, IsInit

\* Every step keeps the invariant.
LEMMA StepSession ==
    ASSUME SingleDispatcher, InitOnly, TypeInv, FlowInv, SessionInv, [Next]_vars
    PROVE  SessionInv'
<1>1. /\ Threads = {Worker} /\ Worker \in Threads /\ pc \in [Threads -> PC]
      /\ row \in [Threads -> Rows] /\ pump \in Seq(CMsg) /\ timers \subseteq Timer
    BY DEF SingleDispatcher, Threads, TypeInv, TypeOK, Rows
<1>2. FlowInv' /\ Alive'
    <2>1. FlowInv'
        BY StepFlow
    <2> QED
        BY <2>1 DEF FlowInv
<1>3. pc[Worker] \notin {"reap", "kill"} => \A h \in DOMAIN fsms : fsms[h] # "KILL_FSM"
    BY DEF SessionInv, KilledIsHeld
<1>4. UNCHANGED <<pump, sessionOf>> => PumpCarries'
    BY DEF SessionInv, PumpCarries, Carries, Target
<1>5. timers' \subseteq timers /\ UNCHANGED sessionOf => TimersCarry'
    BY DEF SessionInv, TimersCarry, Carries, Target
<1>6. ASSUME \/ \E id \in FactoryId : RegisterFactory(id)
             \/ Stop
             \/ UNCHANGED vars
      PROVE  SessionInv'
    <2>1. UNCHANGED <<fsms, sessionOf, completions, pc, cur, row, ret, pump, timers>>
        BY <1>6 DEF RegisterFactory, Stop, vars, facVars, timerVars, threadVars, histVars
    <2> QED
        BY <2>1, <1>4, <1>5, OthersStep
<1>7. ASSUME NEW m \in ClientMsgs, ClientSend(m) PROVE SessionInv'
    <2>1. m \in CMsg /\ Carries(m)
        BY ClientAssumption DEF InitOnly, Carries
    <2>2. /\ pump' = Append(pump, m)
          /\ UNCHANGED <<fsms, sessionOf, completions, pc, cur, row, ret, timers>>
        BY <1>7 DEF ClientSend, SendMsg, facVars, timerVars, threadVars
    <2>3. PumpCarries'
        BY <1>1, <2>1, <2>2, AppendCarries DEF SessionInv
    <2> QED
        BY <1>5, <2>2, <2>3, OthersStep
<1>8. ASSUME NEW tm \in timers, TimerFires(tm) PROVE SessionInv'
    <2>1. tm.msg \in CMsg /\ Carries(tm.msg)
        BY <1>1 DEF Timer, SessionInv, TimersCarry
    <2>2. /\ pump' = Append(pump, tm.msg) \/ UNCHANGED pump
          /\ timers' \subseteq timers
          /\ UNCHANGED <<fsms, sessionOf, completions, pc, cur, row, ret>>
        BY <1>8 DEF TimerFires, SendMsg, facVars, threadVars
    <2>3. PumpCarries'
        BY <1>1, <1>4, <2>1, <2>2, AppendCarries DEF SessionInv
    <2> QED
        BY <1>5, <2>2, <2>3, OthersStep
<1>9. ASSUME Start \/ Join \/ WorkerExits PROVE SessionInv'
    <2>1. /\ pc[Worker] \in {"none", "idle", "exited"} /\ pc'[Worker] \in {"none", "idle", "exited"}
          /\ UNCHANGED <<fsms, sessionOf, completions, pump, timers>>
        BY <1>1, <1>9
        DEF FlowInv, Joinable, Start, Join, WorkerExits, Goto, facVars, timerVars, histVars
    <2>2. CurCarries' /\ HeldSession' /\ RowKnown'
        BY <2>1 DEF CurCarries, HeldSession, Holding, RowKnown
    <2> QED
        BY <1>2, <1>3, <1>4, <1>5, <2>1, <2>2, WorkerStep
<1>10. CASE Pop(Worker)
    <2>1. /\ pc[Worker] = "idle" /\ pc'[Worker] = "find" /\ pump # <<>>
          /\ pump' = Tail(pump) /\ cur'[Worker] = Head(pump)
          /\ UNCHANGED <<fsms, sessionOf, completions, timers>>
        BY <1>1, <1>10 DEF Pop, Goto, facVars, timerVars, histVars, TypeInv, TypeOK
    <2>2. /\ Head(pump) = pump[1] /\ 1 \in 1..Len(pump)
          /\ Len(pump') = Len(pump) - 1
          /\ \A i \in 1..Len(pump') : pump'[i] = pump[i + 1] /\ i + 1 \in 1..Len(pump)
        BY <1>1, <2>1
    <2>3. PumpCarries'
        BY <2>1, <2>2 DEF SessionInv, PumpCarries, Carries, Target
    <2>4. CurCarries'
        BY <2>1, <2>2 DEF SessionInv, PumpCarries, CurCarries, Carries, Target
    <2>5. HeldSession' /\ RowKnown'
        BY <2>1 DEF HeldSession, Holding, RowKnown
    <2> QED
        BY <1>2, <1>3, <1>5, <2>1, <2>3, <2>4, <2>5, WorkerStep
<1>11. CASE FindFsm(Worker)
    <2>1. /\ pc[Worker] = "find"
          /\ UNCHANGED <<fsms, sessionOf, completions, pump, timers>>
        BY <1>11 DEF FindFsm, facVars, timerVars
    <2>2. \/ pc'[Worker] = "idle"
          \/ pc'[Worker] = "add" /\ UNCHANGED cur
          \/ pc'[Worker] = "execute" /\ UNCHANGED cur /\ FsmFound(cur[Worker])
        BY <1>1, <1>11 DEF FindFsm, Refuse, Return, Goto
    <2>3. CurCarries'
        BY <2>1, <2>2 DEF SessionInv, CurCarries, Carries, Target
    <2>4. HeldSession'
        BY <2>1, <2>2 DEF SessionInv, CurCarries, Carries, FsmFound, HeldSession, Holding, Held, Target
    <2>5. RowKnown'
        BY <2>2 DEF RowKnown
    <2> QED
        BY <1>2, <1>3, <1>4, <1>5, <2>1, <2>3, <2>4, <2>5, WorkerStep
<1>12. CASE AddFsm(Worker)
    <2>1. CASE ~FactoryFull(cur[Worker].serviceId)
        BY <1>2, <1>12, <2>1, AddSession
    <2>2. CASE FactoryFull(cur[Worker].serviceId)
        <3>1. /\ pc[Worker] = "add" /\ pc'[Worker] = "idle"
              /\ UNCHANGED <<fsms, sessionOf, completions, pump, timers>>
            BY <1>1, <1>12, <2>2 DEF AddFsm, Refuse, Return, facVars, timerVars
        <3>2. CurCarries' /\ HeldSession' /\ RowKnown'
            BY <3>1 DEF CurCarries, HeldSession, Holding, RowKnown
        <3> QED
            BY <1>2, <1>3, <1>4, <1>5, <3>1, <3>2, WorkerStep
    <2> QED
        BY <2>1, <2>2
<1>13. CASE Execute(Worker)
    <2>1. /\ pc[Worker] = "execute"
          /\ UNCHANGED <<cur, fsms, sessionOf, completions, pump, timers>>
        BY <1>13 DEF Execute, facVars, timerVars, histVars
    <2>2. \/ pc'[Worker] = "reap"
          \/ pc'[Worker] = "transit" /\ row'[Worker] \in TransitionsFor(Worker)
        BY <1>1, <1>13 DEF Execute, Goto
    <2>3. \A r \in TransitionsFor(Worker) : RowEnds(r) /\ r.event = cur[Worker].type
        BY RowsEnd DEF TransitionsFor, FindFsmTransition, Transitions
    <2>4. RowKnown'
        BY <2>1, <2>2, <2>3 DEF RowKnown, RowEnds
    <2>5. CurCarries' /\ HeldSession'
        BY <2>1, <2>2 DEF SessionInv, CurCarries, HeldSession, Holding, Held, Target
    <2> QED
        BY <1>2, <1>3, <1>4, <1>5, <2>1, <2>4, <2>5, WorkerStep
<1>14. CASE SetState(Worker)
    BY <1>14, SetStateSession
<1>15. CASE Post(Worker)
    <2>1. /\ pc[Worker] = "post" /\ pc'[Worker] = "reap"
          /\ UNCHANGED <<cur, fsms, sessionOf, completions>>
        BY <1>1, <1>15 DEF Post, Goto, facVars
    <2>2. /\ pump' = Append(pump, NextMsg(Worker)) \/ UNCHANGED pump
          /\ \/ UNCHANGED timers
             \/ timers' = timers \cup {[id |-> nextTimerId, msg |-> NextMsg(Worker)]}
        BY <1>15 DEF Post, SendMsg, timerVars
    <2>3. PICK m \in CMsg : m = NextMsg(Worker) /\ Carries(m)
        BY <2>1, NextMsgCarries
    <2>4. PumpCarries'
        BY <1>1, <1>4, <2>1, <2>2, <2>3, AppendCarries DEF SessionInv
    <2>5. TimersCarry'
        <3>1. ASSUME NEW tm \in timers' PROVE Carries(tm.msg)'
            <4>1. CASE tm \in timers
                <5>1. Carries(tm.msg)
                    BY <4>1 DEF SessionInv, TimersCarry
                <5> QED
                    BY <5>1, <2>1 DEF Carries
            <4>2. CASE tm = [id |-> nextTimerId, msg |-> NextMsg(Worker)]
                <5>1. tm.msg = m
                    BY <4>2, <2>3
                <5> QED
                    BY <5>1, <2>3, <2>1 DEF Carries
            <4> QED
                BY <3>1, <4>1, <4>2, <2>2
        <3> QED
            BY <3>1 DEF TimersCarry
    <2>6. CurCarries' /\ HeldSession' /\ RowKnown'
        BY <2>1 DEF SessionInv, CurCarries, HeldSession, Holding, Held, Target, RowKnown
    <2> QED
        BY <1>2, <1>3, <2>1, <2>4, <2>5, <2>6, WorkerStep
<1>16. CASE Reap(Worker)
    <2>1. CASE fsms[Held(Worker)] = "KILL_FSM"
        BY <1>16, <2>1, ReportSession
    <2>2. CASE fsms[Held(Worker)] # "KILL_FSM"
        <3>1. /\ pc[Worker] = "reap" /\ pc'[Worker] = "idle"
              /\ UNCHANGED <<fsms, sessionOf, completions, pump, timers>>
            BY <1>1, <1>16, <2>2 DEF Reap, Return, facVars, timerVars
        <3>2. \A h \in DOMAIN fsms : fsms[h] # "KILL_FSM"
            BY <2>2 DEF SessionInv, KilledIsHeld
        <3>3. CurCarries' /\ HeldSession' /\ RowKnown'
            BY <3>1 DEF CurCarries, HeldSession, Holding, RowKnown
        <3> QED
            BY <1>2, <1>4, <1>5, <3>1, <3>2, <3>3, WorkerStep
    <2> QED
        BY <2>1, <2>2
<1>17. CASE KillFsm(Worker)
    BY <1>17, KillSession
<1> QED
    BY <1>1, <1>6, <1>7, <1>8, <1>9, <1>10, <1>11, <1>12, <1>13, <1>14, <1>15, <1>16, <1>17
    DEF Next, Dispatch
-----------------------------------------------------------------------------
\* With clients that only open flows and one dispatching thread, each completion
\* event names the session whose MSG_INIT opened the flow and reports SUCCESS on
\* MSG_CLOSE, through every message, timer, Stop and Start in between.
THEOREM CompletionMatches ==
    ASSUME SingleDispatcher, InitOnly
    PROVE  Spec => []CompletionMatchesFlow
<1>1. TypeInv /\ FlowInv /\ SessionInv /\ [Next]_vars => (TypeInv /\ FlowInv /\ SessionInv)'
    BY StepType, StepFlow, StepSession
<1>2. SessionInv => CompletionMatchesFlow
    BY DEF SessionInv
<1> QED
    BY <1>1, <1>2, InitType, InitFlow, InitSession, PTL DEF Spec

(***************************************************************************)
(* Stop.  An exited worker has left an empty queue, which no message can   *)
(* enter until Start; Start has to wait for the join.                      *)
(***************************************************************************)

DrainInv ==
    /\ pc[Worker] = "exited" => stopped /\ pump = <<>>
    /\ pc[Worker] = "none" <=> ~joinable
    /\ app = "joining" => stopped /\ joinable
    /\ (starts > 0 /\ ~joinable) => stopped /\ pump = <<>>

\* No worker has run at first.
LEMMA InitDrain == Init => DrainInv
BY DEF Init, DrainInv, Threads

\* A step of a dispatch moves no other thread, and fills no stopped pump.
LEMMA DispatchDrains ==
    ASSUME TypeInv, DrainInv, NEW t \in Threads, Dispatch(t)
    PROVE  DrainInv'
<1>1. pc[t] \in {"idle", "find", "add", "execute", "transit", "post", "reap", "kill"}
    BY DEF Dispatch, Pop, FindFsm, AddFsm, Execute, SetState, Post, Reap, KillFsm
<1>2. PICK label \in {"idle", "find", "add", "execute", "transit", "post", "reap", "kill"} :
          pc' = [pc EXCEPT ![t] = label]
    BY DEF Dispatch, Pop, FindFsm, AddFsm, Execute, SetState, Post, Reap, KillFsm, Goto, Return, Refuse
<1>3. UNCHANGED <<stopped, joinable, app, starts>>
    BY DEF Dispatch, Pop, FindFsm, AddFsm, Execute, SetState, Post, Reap, KillFsm, mgrVars
<1>4. stopped /\ pump = <<>> => pump' = <<>>
    BY DEF Dispatch, Pop, FindFsm, AddFsm, Execute, SetState, Post, Reap, KillFsm, SendMsg
<1>5. pc \in [Threads -> PC] /\ Worker \in Threads
    BY WorkerIsThread DEF TypeInv, TypeOK
<1>6. (pc'[Worker] \in {"none", "exited"} \/ pc[Worker] \in {"none", "exited"})
          => pc'[Worker] = pc[Worker]
    BY <1>1, <1>2, <1>5
<1> QED
    BY <1>3, <1>4, <1>6 DEF DrainInv

\* Every step keeps what Stop relies on.
LEMMA StepDrain == TypeInv /\ DrainInv /\ [Next]_vars => DrainInv'
<1> SUFFICES ASSUME TypeInv, DrainInv, [Next]_vars PROVE DrainInv'
    OBVIOUS
<1>1. pc \in [Threads -> PC] /\ Worker \in Threads /\ starts \in Nat
    BY WorkerIsThread DEF TypeInv, TypeOK
<1>2. ASSUME NEW t \in Threads, Dispatch(t) PROVE DrainInv'
    BY <1>2, DispatchDrains
<1>3. ASSUME Start PROVE DrainInv'
    BY <1>1, <1>3 DEF Start, DrainInv
<1>4. ASSUME Stop PROVE DrainInv'
    BY <1>4 DEF Stop, threadVars, DrainInv
<1>5. ASSUME Join PROVE DrainInv'
    BY <1>1, <1>5 DEF Join, DrainInv
<1>6. ASSUME WorkerExits PROVE DrainInv'
    BY <1>1, <1>6 DEF WorkerExits, Drained, Goto, DrainInv
<1>7. ASSUME \/ \E m \in ClientMsgs : ClientSend(m)
             \/ \E tm \in timers : TimerFires(tm)
      PROVE  DrainInv'
    BY <1>7 DEF ClientSend, TimerFires, SendMsg, mgrVars, threadVars, DrainInv
<1>8. ASSUME (\E id \in FactoryId : RegisterFactory(id)) \/ UNCHANGED vars PROVE DrainInv'
    BY <1>8 DEF RegisterFactory, vars, mgrVars, threadVars, DrainInv
<1> QED
    BY <1>2, <1>3, <1>4, <1>5, <1>6, <1>7, <1>8 DEF Next

\* Once Stop has joined the worker, and until the next Start, the pump is empty,
\* whatever clients, running flows and timers posted before.
THEOREM StopHasDrained == Spec => []StopDrains
<1>1. DrainInv => StopDrains
    BY DEF DrainInv, StopDrains
<1> QED
    BY <1>1, InitType, StepType, InitDrain, StepDrain, PTL DEF Spec
-----------------------------------------------------------------------------
(***************************************************************************)
(* Refinement.  A flow is open from the AddFsm that creates its FSM to the *)
(* Reap that reports it; every other step is a stutter of the service.     *)
(***************************************************************************)

\* Every FSM has the session of the MSG_INIT that created it.
Sessioned == DOMAIN fsms \subseteq DOMAIN sessionOf

IInv == TypeInv /\ CapacityInv /\ FlowInv /\ SessionInv /\ Sessioned

\* The steps that change which FSMs there are, or which flows have one.
LEMMA StepSessioned == Sessioned /\ [Next]_vars => Sessioned'
<1> SUFFICES ASSUME Sessioned, [Next]_vars PROVE Sessioned'
    OBVIOUS
<1>1. ASSUME NEW t \in Threads, AddFsm(t) PROVE Sessioned'
    BY <1>1 DEF AddFsm, facVars, Sessioned
<1>2. ASSUME NEW t \in Threads, SetState(t) \/ KillFsm(t) PROVE Sessioned'
    BY <1>2 DEF SetState, KillFsm, Erase, histVars, Sessioned
<1>3. ASSUME NEW t \in Threads, Pop(t) \/ FindFsm(t) \/ Execute(t) \/ Post(t) \/ Reap(t)
      PROVE  Sessioned'
    BY <1>3 DEF Pop, FindFsm, Execute, Post, Reap, facVars, histVars, Sessioned
<1>4. ASSUME \/ \E id \in FactoryId : RegisterFactory(id)
             \/ \E m \in ClientMsgs : ClientSend(m)
             \/ Start \/ Stop \/ Join \/ WorkerExits
             \/ \E tm \in timers : TimerFires(tm)
             \/ UNCHANGED vars
      PROVE  Sessioned'
    BY <1>4 DEF RegisterFactory, ClientSend, Start, Stop, Join, WorkerExits, TimerFires, vars,
       facVars, histVars, Sessioned
<1> QED
    BY <1>1, <1>2, <1>3, <1>4 DEF Next, Dispatch

\* No FSM and no flow is there at first.
LEMMA InitMaps == Init => Service!Init
<1> SUFFICES ASSUME Init PROVE Service!Init
    OBVIOUS
<1>1. OpenFlows = {}
    BY DEF Init, OpenFlows
<1> QED
    BY <1>1 DEF Init, Service!Init

\* What makes a step a stutter.
LEMMA Stutters ==
    ASSUME OpenFlows' = OpenFlows, UNCHANGED <<sessionOf, completions>>
    PROVE  UNCHANGED Service!vars
BY DEF Service!vars

\* The step that creates an FSM opens a flow: its id is fresh and there is room.
LEMMA AddOpens ==
    ASSUME IInv, AddFsm(Worker), ~FactoryFull(cur[Worker].serviceId)
    PROVE  Service!Next
<1>1. /\ cur[Worker] \in CMsg /\ cur[Worker].serviceId \in FactoryId
      /\ nextFsmId \in [FactoryId -> Nat \ {0}]
      /\ DOMAIN fsms \subseteq FsmHandle
    BY WorkerIsThread DEF AddFsm, IInv, TypeInv, TypeOK, Routable
<1>2. PICK s \in FactoryId : s = cur[Worker].serviceId
    BY <1>1
<1>3. PICK h \in FsmHandle : h = <<s, nextFsmId[s]>>
    BY <1>1 DEF FsmHandle
<1>4. PICK session : session = cur[Worker].sessionId
    OBVIOUS
<1>5. /\ DOMAIN fsms' = DOMAIN fsms \cup {h}
      /\ sessionOf' = [x \in DOMAIN sessionOf \cup {h} |-> IF x = h THEN session ELSE sessionOf[x]]
      /\ completions' = completions
    BY <1>2, <1>3, <1>4 DEF AddFsm, NewFsmId
<1>6. h \notin DOMAIN fsms /\ ~Reported(h)
    BY <1>1, <1>3 DEF IInv, FlowInv, IdsUsed, Used, FsmHandle
<1>7. OpenFlows' = OpenFlows \cup {h} /\ h \notin OpenFlows
    BY <1>5, <1>6 DEF OpenFlows, Reported
<1>8. /\ \A g \in OpenFlows : sessionOf'[g] = sessionOf[g]
      /\ sessionOf'[h] = session
    BY <1>5, <1>7 DEF IInv, Sessioned, OpenFlows
<1>9. Cardinality({g \in OpenFlows : g[1] = s}) < FSM_NUM_IN_FAC
    <2>1. {g \in OpenFlows : g[1] = s} \subseteq FsmList(s) /\ FsmList(s) \subseteq DOMAIN fsms
        BY DEF OpenFlows, FsmList
    <2>2. /\ IsFiniteSet({g \in OpenFlows : g[1] = s}) /\ IsFiniteSet(FsmList(s))
          /\ Cardinality({g \in OpenFlows : g[1] = s}) <= Cardinality(FsmList(s))
        BY <2>1, FS_Subset DEF IInv, CapacityInv
    <2>3. /\ Cardinality({g \in OpenFlows : g[1] = s}) \in Nat
          /\ Cardinality(FsmList(s)) \in Nat
        BY <2>2, FS_CardinalityType
    <2>4. ~(Cardinality(FsmList(s)) >= FSM_NUM_IN_FAC)
        BY <1>2 DEF FactoryFull
    <2> QED
        BY <2>2, <2>3, <2>4, LimitAssumption
<1>10. h[1] = s
    BY <1>3
<1>11. Service!Open(h, session)
    <2>1. h \in Service!Flow \ OpenFlows
        BY <1>7 DEF Service!Flow, Service!FactoryId, Service!FAC_REG_FAC_ID,
           Service!FAC_AUTH_FAC_ID, FsmHandle, FactoryId, FAC_REG_FAC_ID, FAC_AUTH_FAC_ID
    <2>2. ~Service!Ended(h)
        BY <1>6 DEF Service!Ended, Reported, Target
    <2>3. [g \in OpenFlows |-> sessionOf[g]]'
              = [g \in OpenFlows \cup {h} |->
                    IF g = h THEN session ELSE [x \in OpenFlows |-> sessionOf[x]][g]]
        BY <1>7, <1>8
    <2>4. DOMAIN [g \in OpenFlows |-> sessionOf[g]] = OpenFlows
        OBVIOUS
    <2>5. Service!Cardinality({g \in OpenFlows : g[1] = h[1]}) < FSM_NUM_IN_FAC
        BY <1>9, <1>10 DEF Service!Cardinality, Cardinality
    <2> QED
        BY <1>5, <2>1, <2>2, <2>3, <2>4, <2>5 DEF Service!Open
<1>12. h \in DOMAIN [g \in OpenFlows |-> sessionOf[g]]'
    BY <1>7
<1>13. session = [g \in OpenFlows |-> sessionOf[g]]'[h]
    BY <1>7, <1>8
<1> QED
    BY <1>11, <1>12, <1>13 DEF Service!Next

\* The step that reports an FSM ends its flow, with its session and SUCCESS.
LEMMA ReportEnds ==
    ASSUME IInv, Reap(Worker), fsms[Held(Worker)] = "KILL_FSM"
    PROVE  Service!Next
<1>1. PICK h \in DOMAIN fsms : h = Held(Worker)
    BY DEF Reap
<1>2. /\ pc[Worker] = "reap" /\ cur[Worker] \in CMsg /\ completions \in Seq(FsmCompletionEvent)
      /\ DOMAIN fsms \subseteq FsmHandle /\ ret[Worker] \in EerrNo
    BY WorkerIsThread DEF Reap, IInv, TypeInv, TypeOK
<1>3. /\ completions' = Append(completions, CompletionEvent(Worker))
      /\ UNCHANGED <<fsms, sessionOf>>
    BY DEF Reap, facVars
<1>4. /\ cur[Worker].sessionId = sessionOf[h] /\ cur[Worker].type = "MSG_CLOSE"
      /\ ret[Worker] = "SUCCESS"
    BY <1>1, <1>2 DEF IInv, SessionInv, HeldSession, ReapsSuccess, Holding
<1>5. h[1] = cur[Worker].serviceId /\ h[2] = cur[Worker].fsmId
    BY <1>1 DEF Held, Target
<1>6. CompletionEvent(Worker) = Service!Event(h, sessionOf[h])
    BY <1>4, <1>5 DEF CompletionEvent, Service!Event
<1>7. CompletionEvent(Worker) \in FsmCompletionEvent /\ Target(CompletionEvent(Worker)) = h
    BY <1>1, <1>2, <1>5 DEF CompletionEvent, FsmCompletionEvent, CMsg, Target, Held, FsmHandle
<1>8. \A g : Reported(g)' <=> (Reported(g) \/ g = h)
    BY <1>2, <1>3, <1>7, ReportedAppend
<1>9. ~Reported(h)
    BY <1>2 DEF IInv, FlowInv, ReportedGone
<1>10. h \in OpenFlows /\ OpenFlows' = OpenFlows \ {h}
    BY <1>3, <1>8, <1>9 DEF OpenFlows, Reported
<1>11. Service!End(h)
    BY <1>3, <1>6, <1>10 DEF Service!End
<1> QED
    BY <1>10, <1>11 DEF Service!Next

\* Reclaiming an FSM that was reported is nothing to the service.
LEMMA KillStutters ==
    ASSUME IInv, KillFsm(Worker)
    PROVE  UNCHANGED Service!vars
<1>1. Reported(Held(Worker))
    BY DEF KillFsm, IInv, FlowInv, KillReported
<1>2. DOMAIN fsms' = DOMAIN fsms \ {Held(Worker)} /\ UNCHANGED <<sessionOf, completions>>
    BY DEF KillFsm, Erase, histVars
<1>3. OpenFlows' = OpenFlows
    BY <1>1, <1>2 DEF OpenFlows, Reported
<1> QED
    BY <1>2, <1>3, Stutters

\* Every step of the manager is a step of the service, or a stutter.
LEMMA StepMaps ==
    ASSUME SingleDispatcher, IInv, [Next]_vars
    PROVE  Service!Next \/ UNCHANGED Service!vars
<1>0. Threads = {Worker}
    BY DEF SingleDispatcher, Threads
<1>1. CASE DOMAIN fsms' = DOMAIN fsms /\ UNCHANGED <<sessionOf, completions>>
    <2>1. OpenFlows' = OpenFlows
        BY <1>1 DEF OpenFlows
    <2> QED
        BY <1>1, <2>1, Stutters
<1>2. CASE AddFsm(Worker)
    <2>1. CASE ~FactoryFull(cur[Worker].serviceId)
        BY <1>2, <2>1, AddOpens
    <2>2. CASE FactoryFull(cur[Worker].serviceId)
        BY <1>1, <1>2, <2>2 DEF AddFsm, facVars
    <2> QED
        BY <2>1, <2>2
<1>3. CASE Reap(Worker)
    <2>1. CASE fsms[Held(Worker)] = "KILL_FSM"
        BY <1>3, <2>1, ReportEnds
    <2>2. CASE fsms[Held(Worker)] # "KILL_FSM"
        BY <1>1, <1>3, <2>2 DEF Reap, facVars
    <2> QED
        BY <2>1, <2>2
<1>4. CASE KillFsm(Worker)
    BY <1>4, KillStutters
<1>5. CASE SetState(Worker)
    BY <1>1, <1>5 DEF SetState, histVars
<1>6. CASE Pop(Worker) \/ FindFsm(Worker) \/ Execute(Worker) \/ Post(Worker)
    BY <1>1, <1>6 DEF Pop, FindFsm, Execute, Post, facVars, histVars
<1>7. CASE \/ \E id \in FactoryId : RegisterFactory(id)
           \/ \E m \in ClientMsgs : ClientSend(m)
           \/ Start \/ Stop \/ Join \/ WorkerExits
           \/ \E tm \in timers : TimerFires(tm)
           \/ UNCHANGED vars
    BY <1>1, <1>7 DEF RegisterFactory, ClientSend, Start, Stop, Join, WorkerExits, TimerFires,
       vars, facVars, histVars
<1> QED
    BY <1>0, <1>2, <1>3, <1>4, <1>5, <1>6, <1>7 DEF Next, Dispatch

\* Driven as by HttpServer and main.cpp, the manager is a flow service: a flow opens
\* under a fresh id while there is room, and ends at most once, with its session.
THEOREM ManagerIsFlowService ==
    ASSUME SingleDispatcher, InitOnly
    PROVE  Spec => ImplementsFlowService
<1>1. Init => IInv
    BY InitType, InitCapacity, InitFlow, InitSession DEF IInv, Sessioned, Init
<1>2. IInv /\ [Next]_vars => IInv'
    BY StepType, StepCapacity, StepFlow, StepSession, StepSessioned DEF IInv
<1>3. IInv /\ [Next]_vars => [Service!Next]_(Service!vars)
    BY StepMaps
<1> QED
    BY <1>1, <1>2, <1>3, InitMaps, PTL DEF Spec, ImplementsFlowService, Service!Spec

-----------------------------------------------------------------------------
(* Induction. The library's induction theorems take an operator; these take *)
(* the set of the numbers for which a formula holds.                        *)

\* Every non-empty set of naturals has a least element.
LEMMA NatLeast ==
    ASSUME NEW T, T \subseteq Nat, T # {}
    PROVE  \E n \in T : \A m \in T : n <= m
<1> DEFINE Sets == {0..n : n \in T}
<1>1. Sets \subseteq FiniteSubsetsOf(Nat)
    <2>1. \A n \in T : 0..n \subseteq Nat /\ IsFiniteSet(0..n)
        BY FS_Interval
    <2> QED
        BY <2>1 DEF FiniteSubsetsOf
<1>2. IsWellFoundedOn(StrictSubsetOrdering(Nat), FiniteSubsetsOf(Nat))
    BY FS_StrictSubsetOrderingWellFounded
<1>3. Sets # {}
    OBVIOUS
<1>4. PICK x \in Sets : \A y \in Sets : ~(<<y, x>> \in StrictSubsetOrdering(Nat))
    <2> HIDE DEF Sets
    <2> QED
        BY <1>1, <1>2, <1>3, WFMin
<1>5. PICK n \in T : x = 0..n
    OBVIOUS
<1>6. ASSUME NEW m \in T PROVE n <= m
    <2>1. n \in Nat /\ m \in Nat
        OBVIOUS
    <2>2. SUFFICES ASSUME m < n PROVE FALSE
        BY <2>1
    <2>3. 0..m \subseteq 0..n /\ 0..m # 0..n /\ 0..m \in SUBSET Nat /\ 0..n \in SUBSET Nat
        BY <2>1, <2>2
    <2>4. <<0..m, 0..n>> \in StrictSubsetOrdering(Nat)
        BY <2>3 DEF StrictSubsetOrdering
    <2> QED
        BY <1>4, <1>5, <2>4
<1> QED
    BY <1>6

\* A set that has 0 and every successor of its elements has all naturals.
LEMMA SetInduction ==
    ASSUME NEW T, 0 \in T, \A n \in Nat : n \in T => n + 1 \in T
    PROVE  Nat \subseteq T
<1>1. SUFFICES ASSUME Nat \ T # {} PROVE FALSE
    OBVIOUS
<1>2. PICK n \in Nat \ T : \A m \in Nat \ T : n <= m
    BY <1>1, NatLeast
<1>3. n # 0 /\ n - 1 \in Nat /\ n - 1 \notin T
    BY <1>2
<1> QED
    BY <1>2, <1>3
-----------------------------------------------------------------------------
(* The requests of a sequence of messages.                                  *)

\* f[n] is the requests among the first n messages of s.
Collects(f, s, k) ==
    f = [n \in 0..k |->
            IF n = 0 THEN <<>>
            ELSE IF IsInit(s[n]) THEN Append(f[n - 1], s[n])
            ELSE f[n - 1]]

\* The recursive function in Requests exists, up to every length.
LEMMA CollectsExists ==
    ASSUME NEW s, NEW k \in Nat
    PROVE  \E f : Collects(f, s, k)
<1> DEFINE T == {n \in Nat : \E f : Collects(f, s, n)}
<1>1. 0 \in T
    <2>1. Collects([n \in 0..0 |-> <<>>], s, 0)
        BY DEF Collects
    <2> QED
        BY <2>1
<1>2. ASSUME NEW n \in Nat, n \in T PROVE n + 1 \in T
    <2>1. PICK f : Collects(f, s, n)
        BY <1>2
    <2>2. /\ DOMAIN f = 0..n
          /\ \A i \in 0..n : f[i] = IF i = 0 THEN <<>>
                                    ELSE IF IsInit(s[i]) THEN Append(f[i - 1], s[i])
                                    ELSE f[i - 1]
        BY <2>1 DEF Collects
    <2> DEFINE last == IF IsInit(s[n + 1]) THEN Append(f[n], s[n + 1]) ELSE f[n]
               g == [i \in 0..(n + 1) |-> IF i = n + 1 THEN last ELSE f[i]]
    <2>3. \A i \in 0..n : g[i] = f[i]
        OBVIOUS
    <2>4. g[n + 1] = last
        OBVIOUS
    <2>5. Collects(g, s, n + 1)
        <3>1. ASSUME NEW i \in 0..(n + 1)
              PROVE  g[i] = IF i = 0 THEN <<>>
                            ELSE IF IsInit(s[i]) THEN Append(g[i - 1], s[i])
                            ELSE g[i - 1]
            <4>1. CASE i = n + 1
                <5>1. i # 0 /\ i - 1 = n /\ i - 1 \in 0..n
                    BY <4>1
                <5> QED
                    BY <2>3, <2>4, <4>1, <5>1
            <4>2. CASE i \in 0..n
                <5>1. g[i] = f[i] /\ (i = 0 \/ g[i - 1] = f[i - 1])
                    BY <2>3, <4>2
                <5> HIDE DEF g, last
                <5> QED
                    BY <2>2, <4>2, <5>1
            <4> QED
                BY <4>1, <4>2
        <3> QED
            BY <3>1 DEF Collects
    <2> QED
        BY <2>5
<1>3. Nat \subseteq T
    <2> HIDE DEF T
    <2> QED
        BY <1>1, <1>2, SetInduction
<1> QED
    BY <1>3

\* What Requests computes.
LEMMA RequestsDef ==
    ASSUME NEW s \in Seq(CMsg)
    PROVE  \E f : Collects(f, s, Len(s)) /\ Requests(s) = f[Len(s)]
<1>1. Len(s) \in Nat
    OBVIOUS
<1>2. \E f : Collects(f, s, Len(s))
    BY <1>1, CollectsExists
<1> QED
    BY <1>2 DEF Requests, Collects

\* A collecting function, value by value.
LEMMA CollectsAt ==
    ASSUME NEW f, NEW s, NEW k \in Nat, Collects(f, s, k)
    PROVE  /\ f[0] = <<>>
           /\ \A n \in 1..k : f[n] = IF IsInit(s[n]) THEN Append(f[n - 1], s[n]) ELSE f[n - 1]
<1>1. 0 \in 0..k /\ \A n \in 1..k : n \in 0..k /\ n # 0
    OBVIOUS
<1> QED
    BY <1>1 DEF Collects

\* What is collected is a sequence of messages.
LEMMA CollectsType ==
    ASSUME NEW s \in Seq(CMsg), NEW f, Collects(f, s, Len(s))
    PROVE  \A n \in 0..Len(s) : f[n] \in Seq(CMsg)
<1>1. /\ f[0] = <<>> /\ Len(s) \in Nat
      /\ \A n \in 1..Len(s) : f[n] = IF IsInit(s[n]) THEN Append(f[n - 1], s[n]) ELSE f[n - 1]
    BY CollectsAt
<1> DEFINE T == {n \in Nat : n <= Len(s) => f[n] \in Seq(CMsg)}
<1>2. 0 \in T
    <2>1. f[0] \in Seq(CMsg)
        BY <1>1, EmptySeq
    <2> QED
        BY <2>1
<1>3. ASSUME NEW n \in Nat, n \in T PROVE n + 1 \in T
    <2>1. SUFFICES ASSUME n + 1 <= Len(s) PROVE f[n + 1] \in Seq(CMsg)
        OBVIOUS
    <2>2. f[n] \in Seq(CMsg) /\ n + 1 \in 1..Len(s) /\ s[n + 1] \in CMsg /\ (n + 1) - 1 = n
        BY <1>1, <1>3, <2>1
    <2>3. f[n + 1] = f[n] \/ f[n + 1] = Append(f[n], s[n + 1])
        BY <1>1, <2>2
    <2>4. Append(f[n], s[n + 1]) \in Seq(CMsg)
        BY <2>2, AppendProperties
    <2> QED
        BY <2>2, <2>3, <2>4
<1>4. Nat \subseteq T
    <2> HIDE DEF T
    <2> QED
        BY <1>2, <1>3, SetInduction
<1> QED
    BY <1>1, <1>4

\* The requests of a sequence are a sequence of messages.
LEMMA RequestsType ==
    ASSUME NEW s \in Seq(CMsg)
    PROVE  Requests(s) \in Seq(CMsg)
<1>1. PICK f : Collects(f, s, Len(s)) /\ Requests(s) = f[Len(s)]
    BY RequestsDef
<1>2. Len(s) \in 0..Len(s)
    OBVIOUS
<1> QED
    BY <1>1, <1>2, CollectsType

\* An empty queue has no requests.
LEMMA RequestsEmpty == Requests(<<>>) = <<>>
<1>1. <<>> \in Seq(CMsg) /\ Len(<<>>) = 0
    OBVIOUS
<1>2. PICK f : Collects(f, <<>>, Len(<<>>)) /\ Requests(<<>>) = f[Len(<<>>)]
    BY <1>1, RequestsDef
<1> QED
    BY <1>1, <1>2, CollectsAt

\* A message that is appended is the last request, or none.
LEMMA RequestsAppend ==
    ASSUME NEW s \in Seq(CMsg), NEW m \in CMsg
    PROVE  Requests(Append(s, m)) = IF IsInit(m) THEN Append(Requests(s), m) ELSE Requests(s)
<1> DEFINE a == Append(s, m)
<1>1. /\ a \in Seq(CMsg) /\ Len(s) \in Nat /\ Len(a) = Len(s) + 1 /\ a[Len(a)] = m
      /\ \A n \in 1..Len(s) : a[n] = s[n]
    OBVIOUS
<1> HIDE DEF a
<1>2. PICK f : Collects(f, s, Len(s)) /\ Requests(s) = f[Len(s)]
    BY RequestsDef
<1>3. PICK g : Collects(g, a, Len(a)) /\ Requests(a) = g[Len(a)]
    BY <1>1, RequestsDef
<1>4. /\ f[0] = <<>>
      /\ \A n \in 1..Len(s) : f[n] = IF IsInit(s[n]) THEN Append(f[n - 1], s[n]) ELSE f[n - 1]
    BY <1>1, <1>2, CollectsAt
<1>5. /\ g[0] = <<>>
      /\ \A n \in 1..Len(a) : g[n] = IF IsInit(a[n]) THEN Append(g[n - 1], a[n]) ELSE g[n - 1]
    BY <1>1, <1>3, CollectsAt
<1> DEFINE T == {n \in Nat : n <= Len(s) => g[n] = f[n]}
<1>6. 0 \in T
    BY <1>4, <1>5
<1>7. ASSUME NEW n \in Nat, n \in T PROVE n + 1 \in T
    <2>1. SUFFICES ASSUME n + 1 <= Len(s) PROVE g[n + 1] = f[n + 1]
        OBVIOUS
    <2>2. /\ g[n] = f[n] /\ n + 1 \in 1..Len(s) /\ n + 1 \in 1..Len(a)
          /\ a[n + 1] = s[n + 1] /\ (n + 1) - 1 = n
        BY <1>1, <1>7, <2>1
    <2> QED
        BY <1>4, <1>5, <2>2
<1>8. Nat \subseteq T
    <2> HIDE DEF T
    <2> QED
        BY <1>6, <1>7, SetInduction
<1>9. g[Len(s)] = f[Len(s)]
    BY <1>1, <1>8
<1>10. Len(a) \in 1..Len(a) /\ Len(a) - 1 = Len(s)
    BY <1>1
<1> QED
    BY <1>1, <1>2, <1>3, <1>5, <1>9, <1>10 DEF a

\* Collected one message later, behind what the front message gives.
Shifted(f, g, first, n) == f[n + 1] = first \o g[n]

\* The front message is the first request, or none.
LEMMA RequestsTail ==
    ASSUME NEW s \in Seq(CMsg), s # <<>>
    PROVE  Requests(s) = (IF IsInit(Head(s)) THEN <<Head(s)>> ELSE <<>>) \o Requests(Tail(s))
<1>1. PICK r \in Seq(CMsg) :
          /\ r = Tail(s) /\ Len(s) \in Nat /\ Len(r) \in Nat /\ Len(s) = Len(r) + 1
          /\ Head(s) = s[1] /\ s[1] \in CMsg
          /\ \A n \in 1..Len(r) : r[n] = s[n + 1] /\ r[n] \in CMsg
    <2>1. /\ Tail(s) \in Seq(CMsg) /\ Len(s) \in Nat /\ Len(Tail(s)) \in Nat
          /\ Len(s) = Len(Tail(s)) + 1
          /\ Head(s) = s[1] /\ s[1] \in CMsg
          /\ \A n \in 1..Len(Tail(s)) : Tail(s)[n] = s[n + 1] /\ Tail(s)[n] \in CMsg
        OBVIOUS
    <2> QED
        BY <2>1
<1>2. PICK first \in Seq(CMsg) : first = IF IsInit(s[1]) THEN <<s[1]>> ELSE <<>>
    <2>1. <<s[1]>> \in Seq(CMsg) /\ <<>> \in Seq(CMsg)
        BY <1>1
    <2> QED
        BY <2>1, Zenon
<1>3. PICK f : Collects(f, s, Len(s)) /\ Requests(s) = f[Len(s)]
    BY RequestsDef
<1>4. PICK g : Collects(g, r, Len(r)) /\ Requests(r) = g[Len(r)]
    BY RequestsDef
<1>5. /\ f[0] = <<>>
      /\ \A n \in 1..Len(s) : f[n] = IF IsInit(s[n]) THEN Append(f[n - 1], s[n]) ELSE f[n - 1]
    BY <1>1, <1>3, CollectsAt
<1>6. /\ g[0] = <<>>
      /\ \A n \in 1..Len(r) : g[n] = IF IsInit(r[n]) THEN Append(g[n - 1], r[n]) ELSE g[n - 1]
    BY <1>1, <1>4, CollectsAt
<1>7. \A n \in 0..Len(r) : g[n] \in Seq(CMsg)
    BY <1>4, CollectsType
<1> DEFINE T == {n \in Nat : n <= Len(r) => Shifted(f, g, first, n)}
<1>8. 0 \in T
    <2>1. 1 \in 1..Len(s) /\ 1 - 1 = 0 /\ 0 + 1 = 1
        BY <1>1
    <2>2. f[1] = IF IsInit(s[1]) THEN Append(<<>>, s[1]) ELSE <<>>
        BY <1>5, <2>1
    <2>3. Append(<<>>, s[1]) = <<s[1]>>
        BY <1>1
    <2>4. f[0 + 1] = first
        BY <1>2, <2>1, <2>2, <2>3
    <2>5. first \o <<>> = first
        BY ConcatEmptySeq
    <2>6. Shifted(f, g, first, 0)
        BY <1>6, <2>4, <2>5, Zenon DEF Shifted
    <2> QED
        BY <2>6
<1>9. ASSUME NEW n \in Nat, n \in T PROVE n + 1 \in T
    <2>1. SUFFICES ASSUME n + 1 <= Len(r) PROVE Shifted(f, g, first, n + 1)
        OBVIOUS
    <2>2. /\ Shifted(f, g, first, n) /\ n + 1 \in 1..Len(r) /\ n \in 0..Len(r)
          /\ (n + 1) + 1 \in 1..Len(s) /\ ((n + 1) + 1) - 1 = n + 1 /\ (n + 1) - 1 = n
          /\ r[n + 1] = s[(n + 1) + 1] /\ r[n + 1] \in CMsg
        BY <1>1, <1>9, <2>1
    <2>3. f[(n + 1) + 1] = IF IsInit(r[n + 1]) THEN Append(f[n + 1], r[n + 1]) ELSE f[n + 1]
        BY <1>5, <2>2
    <2>4. g[n + 1] = IF IsInit(r[n + 1]) THEN Append(g[n], r[n + 1]) ELSE g[n]
        BY <1>6, <2>2
    <2>5. PICK b \in Seq(CMsg) : b = g[n]
        BY <1>7, <2>2
    <2>6. PICK m \in CMsg : m = r[n + 1]
        BY <2>2
    <2>7. f[n + 1] = first \o b
        BY <2>2, <2>5, Zenon DEF Shifted
    <2>8. Append(first \o b, m) = first \o Append(b, m)
        <3>1. first \o b \in Seq(CMsg) /\ <<m>> \in Seq(CMsg)
            BY ConcatProperties
        <3>2. /\ Append(first \o b, m) = (first \o b) \o <<m>>
              /\ Append(b, m) = b \o <<m>>
            BY <3>1, AppendIsConcat
        <3> QED
            BY <3>1, <3>2, ConcatAssociative
    <2>9. CASE IsInit(m)
        <3>1. f[(n + 1) + 1] = Append(f[n + 1], m) /\ g[n + 1] = Append(b, m)
            BY <2>3, <2>4, <2>5, <2>6, <2>9, Zenon
        <3> QED
            BY <2>7, <2>8, <3>1, Zenon DEF Shifted
    <2>10. CASE ~IsInit(m)
        <3>1. f[(n + 1) + 1] = f[n + 1] /\ g[n + 1] = b
            BY <2>3, <2>4, <2>5, <2>6, <2>10, Zenon
        <3> QED
            BY <2>7, <3>1, Zenon DEF Shifted
    <2> QED
        BY <2>9, <2>10
<1>10. Nat \subseteq T
    <2> HIDE DEF T
    <2> QED
        BY <1>8, <1>9, SetInduction
<1>11. Shifted(f, g, first, Len(r))
    BY <1>1, <1>10
<1>12. f[Len(s)] = first \o g[Len(r)]
    BY <1>1, <1>11, Zenon DEF Shifted
<1> QED
    BY <1>1, <1>2, <1>3, <1>4, <1>12, Zenon
-----------------------------------------------------------------------------
(* The order.  What the clients posted is what was served, what the worker  *)
(* has taken and what is still queued; only a client posts a request: a row *)
(* never names MSG_INIT as its next event.                                  *)

Taken == IF pc[Worker] \in {"find", "add"} /\ IsInit(cur[Worker]) THEN <<cur[Worker]>> ELSE <<>>
InOrder == Requests(accepted) = served \o (Taken \o Requests(pump))

OrderInv ==
    /\ \A tm \in timers : ~IsInit(tm.msg)
    /\ pc[Worker] \in {"transit", "post"} => row[Worker].nextEvent # "MSG_INIT"
    /\ pc[Worker] = "add" => IsInit(cur[Worker])
    /\ InOrder

\* With one dispatching thread, InOrder is ServedInOrder.
LEMMA InOrderIsServed ==
    ASSUME SingleDispatcher
    PROVE  InOrder <=> ServedInOrder
<1>1. Serving = IF pc[Worker] \in {"find", "add"} /\ IsInit(cur[Worker]) THEN {Worker} ELSE {}
    BY DEF SingleDispatcher, Threads, Serving
<1>2. (CHOOSE t \in {Worker} : TRUE) = Worker
    OBVIOUS
<1>3. PendingInits = Taken \o Requests(pump)
    <2>1. CASE pc[Worker] \in {"find", "add"} /\ IsInit(cur[Worker])
        <3>1. Serving = {Worker} /\ Taken = <<cur[Worker]>>
            BY <1>1, <2>1 DEF Taken
        <3>2. {Worker} # {}
            OBVIOUS
        <3> QED
            BY <1>2, <3>1, <3>2, Zenon DEF PendingInits
    <2>2. CASE ~(pc[Worker] \in {"find", "add"} /\ IsInit(cur[Worker]))
        <3>1. Serving = {} /\ Taken = <<>>
            BY <1>1, <2>2 DEF Taken
        <3> QED
            BY <3>1, Zenon DEF PendingInits
    <2> QED
        BY <2>1, <2>2
<1> QED
    BY <1>3, Zenon DEF InOrder, ServedInOrder

\* What was taken is served next.
LEMMA ServeTaken ==
    ASSUME NEW done \in Seq(CMsg), NEW m \in CMsg, NEW rest \in Seq(CMsg)
    PROVE  done \o (<<m>> \o rest) = Append(done, m) \o (<<>> \o rest)
<1>1. <<m>> \in Seq(CMsg) /\ <<>> \o rest = rest
    BY ConcatEmptySeq
<1>2. Append(done, m) = done \o <<m>>
    BY AppendIsConcat
<1>3. (done \o <<m>>) \o rest = done \o (<<m>> \o rest)
    BY <1>1, ConcatAssociative
<1> QED
    BY <1>1, <1>2, <1>3, Zenon

\* What is posted is served last.
LEMMA PostLast ==
    ASSUME NEW done \in Seq(CMsg), NEW taken \in Seq(CMsg), NEW rest \in Seq(CMsg), NEW m \in CMsg
    PROVE  Append(done \o (taken \o rest), m) = done \o (taken \o Append(rest, m))
<1>1. /\ <<m>> \in Seq(CMsg) /\ taken \o rest \in Seq(CMsg)
      /\ done \o (taken \o rest) \in Seq(CMsg)
    BY ConcatProperties
<1>2. /\ Append(done \o (taken \o rest), m) = (done \o (taken \o rest)) \o <<m>>
      /\ Append(rest, m) = rest \o <<m>>
    BY <1>1, AppendIsConcat
<1>3. PICK both \in Seq(CMsg) : both = taken \o rest
    BY <1>1
<1>4. (done \o both) \o <<m>> = done \o (both \o <<m>>)
    BY <1>1, ConcatAssociative
<1>5. (taken \o rest) \o <<m>> = taken \o (rest \o <<m>>)
    BY <1>1, ConcatAssociative
<1> QED
    BY <1>2, <1>3, <1>4, <1>5, Zenon

\* A step that posts and serves no request.
LEMMA OrderFrame ==
    ASSUME InOrder, UNCHANGED <<accepted, served>>, Requests(pump)' = Requests(pump), Taken' = Taken
    PROVE  InOrder'
<1>1. Requests(accepted)' = Requests(accepted)
    BY Zenon
<1> QED
    BY <1>1, Zenon DEF InOrder

\* The step that serves the request the worker has taken.
LEMMA OrderServe ==
    ASSUME TypeInv, InOrder, UNCHANGED <<accepted, pump>>, pc'[Worker] \notin {"find", "add"},
           pc[Worker] \in {"find", "add"},
           served' = IF IsInit(cur[Worker]) THEN Append(served, cur[Worker]) ELSE served
    PROVE  InOrder'
<1>1. /\ served \in Seq(CMsg) /\ cur[Worker] \in CMsg /\ Requests(pump) \in Seq(CMsg)
    BY RequestsType, WorkerIsThread DEF TypeInv, TypeOK
<1>2. /\ Requests(accepted)' = Requests(accepted) /\ Requests(pump)' = Requests(pump)
      /\ Taken' = <<>>
    BY Zenon DEF Taken
<1>3. CASE IsInit(cur[Worker])
    <2>1. Taken = <<cur[Worker]>> /\ served' = Append(served, cur[Worker])
        BY <1>3 DEF Taken
    <2>2. served \o (<<cur[Worker]>> \o Requests(pump))
              = Append(served, cur[Worker]) \o (<<>> \o Requests(pump))
        BY <1>1, ServeTaken
    <2> QED
        BY <1>2, <2>1, <2>2, Zenon DEF InOrder
<1>4. CASE ~IsInit(cur[Worker])
    <2>1. Taken = <<>> /\ served' = served
        BY <1>4 DEF Taken
    <2> QED
        BY <1>2, <2>1, Zenon DEF InOrder
<1> QED
    BY <1>3, <1>4

\* An event that is no request enters the pump.
LEMMA EventPosted ==
    ASSUME TypeInv, NEW m \in CMsg, ~IsInit(m), pump' = Append(pump, m)
    PROVE  Requests(pump)' = Requests(pump)
<1>1. Requests(Append(pump, m)) = Requests(pump)
    BY RequestsAppend DEF TypeInv, TypeOK
<1> QED
    BY <1>1, Zenon

\* A client's message takes its place behind all that was posted.
LEMMA ClientOrder ==
    ASSUME TypeInv, OrderInv, NEW m \in ClientMsgs, ClientSend(m)
    PROVE  OrderInv'
<1>1. /\ m \in CMsg /\ pump' = Append(pump, m) /\ accepted' = Append(accepted, m)
      /\ UNCHANGED <<served, timers, pc, cur, row>>
    BY ClientAssumption DEF ClientSend, SendMsg, timerVars, threadVars
<1>2. /\ accepted \in Seq(CMsg) /\ pump \in Seq(CMsg) /\ served \in Seq(CMsg)
      /\ Taken \in Seq(CMsg) /\ Requests(pump) \in Seq(CMsg)
    <2>1. accepted \in Seq(CMsg) /\ pump \in Seq(CMsg) /\ served \in Seq(CMsg) /\ cur[Worker] \in CMsg
        BY WorkerIsThread DEF TypeInv, TypeOK
    <2>2. <<cur[Worker]>> \in Seq(CMsg) /\ <<>> \in Seq(CMsg)
        BY <2>1
    <2> QED
        BY <2>1, <2>2, RequestsType, Zenon DEF Taken
<1>3. Taken' = Taken
    BY <1>1, Zenon DEF Taken
<1>4. InOrder
    BY DEF OrderInv
<1>5. InOrder'
    <2>1. CASE IsInit(m)
        <3>1. /\ Requests(Append(accepted, m)) = Append(Requests(accepted), m)
              /\ Requests(Append(pump, m)) = Append(Requests(pump), m)
            BY <1>1, <1>2, <2>1, RequestsAppend
        <3>2. PICK done \in Seq(CMsg), taken \in Seq(CMsg), rest \in Seq(CMsg) :
                  done = served /\ taken = Taken /\ rest = Requests(pump)
            BY <1>2
        <3>3. Append(done \o (taken \o rest), m) = done \o (taken \o Append(rest, m))
            BY <1>1, PostLast
        <3> QED
            BY <1>1, <1>3, <1>4, <3>1, <3>2, <3>3, Zenon DEF InOrder
    <2>2. CASE ~IsInit(m)
        <3>1. /\ Requests(Append(accepted, m)) = Requests(accepted)
              /\ Requests(Append(pump, m)) = Requests(pump)
            BY <1>1, <1>2, <2>2, RequestsAppend
        <3> QED
            BY <1>1, <1>3, <1>4, <3>1, Zenon DEF InOrder
    <2> QED
        BY <2>1, <2>2
<1> QED
    BY <1>1, <1>5 DEF OrderInv, IsInit

\* The worker takes the front message up.
LEMMA PopOrder ==
    ASSUME TypeInv, OrderInv, Pop(Worker)
    PROVE  OrderInv'
<1>1. /\ pump \in Seq(CMsg) /\ pump # <<>> /\ pump' = Tail(pump)
      /\ pc[Worker] = "idle" /\ pc'[Worker] = "find" /\ cur'[Worker] = Head(pump)
      /\ UNCHANGED <<accepted, served, timers>>
    BY WorkerIsThread DEF Pop, Goto, timerVars, histVars, TypeInv, TypeOK
<1>2. /\ Taken = <<>> /\ Taken' = IF IsInit(Head(pump)) THEN <<Head(pump)>> ELSE <<>>
    BY <1>1, Zenon DEF Taken
<1>3. Requests(pump) = Taken' \o Requests(Tail(pump))
    BY <1>1, <1>2, RequestsTail
<1>4. <<>> \o Requests(pump) = Requests(pump)
    BY <1>1, RequestsType, ConcatEmptySeq
<1>5. InOrder'
    BY <1>1, <1>2, <1>3, <1>4, Zenon DEF InOrder, OrderInv
<1> QED
    BY <1>1, <1>5 DEF OrderInv

\* Every step of a manager with one dispatching thread keeps the order.
LEMMA StepOrder ==
    ASSUME SingleDispatcher, TypeInv, FlowInv, OrderInv, [Next]_vars
    PROVE  OrderInv'
<1>1. /\ Threads = {Worker} /\ Worker \in Threads /\ pc \in [Threads -> PC]
      /\ row \in [Threads -> Rows] /\ cur[Worker] \in CMsg /\ timers \subseteq Timer
    BY DEF SingleDispatcher, Threads, TypeInv, TypeOK, Rows
<1>2. InOrder
    BY DEF OrderInv
<1>3. ASSUME \/ \E id \in FactoryId : RegisterFactory(id)
             \/ Stop
             \/ UNCHANGED vars
      PROVE  OrderInv'
    <2>1. UNCHANGED <<accepted, served, pump, timers, pc, cur, row>>
        BY <1>3 DEF RegisterFactory, Stop, vars, timerVars, threadVars, histVars
    <2>2. Requests(pump)' = Requests(pump) /\ Taken' = Taken
        BY <2>1, Zenon DEF Taken
    <2>3. InOrder'
        BY <1>2, <2>1, <2>2, OrderFrame
    <2> QED
        BY <2>1, <2>3 DEF OrderInv
<1>4. ASSUME NEW m \in ClientMsgs, ClientSend(m) PROVE OrderInv'
    BY <1>4, ClientOrder
<1>5. ASSUME NEW tm \in timers, TimerFires(tm) PROVE OrderInv'
    <2>1. /\ pump' = Append(pump, tm.msg) \/ UNCHANGED pump
          /\ timers' \subseteq timers /\ tm.msg \in CMsg /\ ~IsInit(tm.msg)
          /\ UNCHANGED <<accepted, served, pc, cur, row>>
        BY <1>1, <1>5 DEF TimerFires, SendMsg, threadVars, Timer, OrderInv
    <2>2. UNCHANGED pump => Requests(pump)' = Requests(pump)
        BY Zenon
    <2>3. Requests(pump)' = Requests(pump)
        BY <2>1, <2>2, EventPosted
    <2>4. Taken' = Taken
        BY <2>1, Zenon DEF Taken
    <2>5. InOrder'
        BY <1>2, <2>1, <2>3, <2>4, OrderFrame
    <2> QED
        BY <2>1, <2>5 DEF OrderInv
<1>6. ASSUME Start \/ Join \/ WorkerExits PROVE OrderInv'
    <2>1. /\ pc[Worker] \in {"none", "idle", "exited"} /\ pc'[Worker] \in {"none", "idle", "exited"}
          /\ UNCHANGED <<accepted, served, pump, timers>>
        BY <1>1, <1>6
        DEF FlowInv, Joinable, Start, Join, WorkerExits, Goto, timerVars, histVars
    <2>2. Requests(pump)' = Requests(pump)
        BY <2>1, Zenon
    <2>3. Taken' = Taken
        BY <2>1 DEF Taken
    <2>4. InOrder'
        BY <1>2, <2>1, <2>2, <2>3, OrderFrame
    <2> QED
        BY <2>1, <2>4 DEF OrderInv
<1>7. CASE Pop(Worker)
    BY <1>7, PopOrder
<1>8. CASE FindFsm(Worker)
    <2>1. pc[Worker] = "find" /\ UNCHANGED <<accepted, pump, timers>>
        BY <1>8 DEF FindFsm, timerVars
    <2>2. CASE /\ pc'[Worker] \in {"execute", "idle"}
               /\ served' = IF IsInit(cur[Worker]) THEN Append(served, cur[Worker]) ELSE served
        <3>1. InOrder'
            BY <1>2, <2>1, <2>2, OrderServe
        <3> QED
            BY <2>1, <2>2, <3>1 DEF OrderInv
    <2>3. CASE pc'[Worker] = "add" /\ IsInit(cur[Worker]) /\ UNCHANGED <<cur, served>>
        <3>1. Requests(pump)' = Requests(pump)
            BY <2>1, Zenon
        <3>2. Taken' = Taken
            BY <2>1, <2>3 DEF Taken, IsInit
        <3>3. InOrder'
            BY <1>2, <2>1, <2>3, <3>1, <3>2, OrderFrame
        <3> QED
            BY <2>1, <2>3, <3>3 DEF OrderInv, IsInit
    <2> QED
        BY <1>1, <1>8, <2>2, <2>3 DEF FindFsm, Refuse, Return, Goto
<1>9. CASE AddFsm(Worker)
    <2>1. /\ pc[Worker] = "add" /\ IsInit(cur[Worker]) /\ pc'[Worker] \in {"execute", "idle"}
          /\ UNCHANGED <<accepted, pump, timers>>
        BY <1>1, <1>9 DEF AddFsm, Refuse, Return, Goto, timerVars, OrderInv
    <2>2. served' = Append(served, cur[Worker])
        BY <1>9, <2>1 DEF AddFsm, Refuse
    <2>3. InOrder'
        BY <1>2, <2>1, <2>2, OrderServe
    <2> QED
        BY <2>1, <2>3 DEF OrderInv
<1>10. CASE Execute(Worker)
    <2>1. /\ pc[Worker] = "execute" /\ UNCHANGED <<accepted, served, pump, timers>>
          /\ \/ pc'[Worker] = "reap"
             \/ pc'[Worker] = "transit" /\ row'[Worker] \in TransitionsFor(Worker)
        BY <1>1, <1>10 DEF Execute, Goto, timerVars, histVars
    <2>2. \A r \in TransitionsFor(Worker) : r.nextEvent # "MSG_INIT"
        BY RowsEnd DEF TransitionsFor, FindFsmTransition, Transitions, RowEnds
    <2>3. Requests(pump)' = Requests(pump)
        BY <2>1, Zenon
    <2>4. Taken' = Taken
        BY <2>1 DEF Taken
    <2>5. InOrder'
        BY <1>2, <2>1, <2>3, <2>4, OrderFrame
    <2> QED
        BY <2>1, <2>2, <2>5 DEF OrderInv
<1>11. CASE SetState(Worker) \/ Reap(Worker) \/ KillFsm(Worker)
    <2>1. /\ pc[Worker] \in {"transit", "reap", "kill"}
          /\ pc'[Worker] \in {"reap", "idle", "kill"} \/ (pc'[Worker] = "post" /\ pc[Worker] = "transit")
          /\ pc'[Worker] = "post" => row' = row
          /\ UNCHANGED <<accepted, served, pump, timers>>
        BY <1>1, <1>11 DEF SetState, Reap, KillFsm, Return, Goto, timerVars, histVars
    <2>2. Requests(pump)' = Requests(pump)
        BY <2>1, Zenon
    <2>3. Taken' = Taken
        BY <2>1 DEF Taken
    <2>4. InOrder'
        BY <1>2, <2>1, <2>2, <2>3, OrderFrame
    <2> QED
        BY <2>1, <2>4 DEF OrderInv
<1>12. CASE Post(Worker)
    <2>1. /\ pc[Worker] = "post" /\ pc'[Worker] = "reap" /\ UNCHANGED <<accepted, served>>
          /\ pump' = Append(pump, NextMsg(Worker)) \/ UNCHANGED pump
          /\ \/ UNCHANGED timers
             \/ timers' = timers \cup {[id |-> nextTimerId, msg |-> NextMsg(Worker)]}
        BY <1>1, <1>12 DEF Post, Goto, SendMsg, timerVars
    <2>2. NextMsg(Worker) \in CMsg /\ ~IsInit(NextMsg(Worker))
        BY <1>1, <2>1, NextMsgType DEF OrderInv, IsInit
    <2>3. UNCHANGED pump => Requests(pump)' = Requests(pump)
        BY Zenon
    <2>4. Requests(pump)' = Requests(pump)
        BY <2>1, <2>2, <2>3, EventPosted
    <2>5. Taken' = Taken
        BY <2>1 DEF Taken
    <2>6. InOrder'
        BY <1>2, <2>1, <2>4, <2>5, OrderFrame
    <2>7. \A tm \in timers' : ~IsInit(tm.msg)
        BY <2>1, <2>2 DEF OrderInv
    <2> QED
        BY <2>1, <2>6, <2>7 DEF OrderInv, IsInit
<1> QED
    BY <1>1, <1>3, <1>4, <1>5, <1>6, <1>7, <1>8, <1>9, <1>10, <1>11, <1>12 DEF Next, Dispatch

\* Nothing was posted at first.
LEMMA InitOrder == Init => OrderInv
<1> SUFFICES ASSUME Init PROVE OrderInv
    OBVIOUS
<1>1. /\ pc[Worker] = "none" /\ timers = {} /\ accepted = <<>> /\ served = <<>> /\ pump = <<>>
    BY WorkerIsThread DEF Init
<1>2. Taken = <<>>
    BY <1>1 DEF Taken
<1>3. <<>> \o (<<>> \o <<>>) = <<>>
    OBVIOUS
<1>4. InOrder
    BY <1>1, <1>2, <1>3, RequestsEmpty, Zenon DEF InOrder
<1> QED
    BY <1>1, <1>4 DEF OrderInv

\* With one dispatching thread, and whatever clients post, requests are served in
\* the order SendMsg accepted them, none lost and none twice, although events of
\* running flows and of timers travel through the same queue.
THEOREM ServedInOrderKept == ASSUME SingleDispatcher PROVE Spec => []ServedInOrder
<1>1. TypeInv /\ FlowInv /\ OrderInv /\ [Next]_vars => (TypeInv /\ FlowInv /\ OrderInv)'
    BY StepType, StepFlow, StepOrder
<1>2. OrderInv => ServedInOrder
    BY InOrderIsServed DEF OrderInv
<1> QED
    BY <1>1, <1>2, InitType, InitFlow, InitOrder, PTL DEF Spec

(***************************************************************************)
(* One event for each flow.  OneContinuation counts places; the invariant  *)
(* says pairwise what counting says: no two entries of the pump, no two    *)
(* timers, no pump entry and timer, and nothing beside the worker, name    *)
(* the same live FSM (PlacesInv).  The event is never dropped on the way:  *)
(* whoever has it, the FSM's state has a row for it (FitInv), and a        *)
(* factory that has FSMs is registered, so FindFsm comes to it (NamesInv). *)
(***************************************************************************)

\* The worker has a message for FSM h, or has not come to posting its next one.
Owing   == {"find", "execute", "transit", "post"}
Owes(h) == pc[Worker] \in Owing /\ Held(Worker) = h

OneInPump ==
    \A i, j \in 1..Len(pump) :
        (Target(pump[i]) \in DOMAIN fsms /\ Target(pump[i]) = Target(pump[j])) => i = j

OneInTimers == \A tm, tn \in timers : Target(tm.msg) = Target(tn.msg) => tm = tn

PumpOrTimer == \A i \in 1..Len(pump), tm \in timers : Target(pump[i]) # Target(tm.msg)

WorkerAlone ==
    \A h \in DOMAIN fsms : Owes(h) =>
        /\ \A i \in 1..Len(pump) : Target(pump[i]) # h
        /\ \A tm \in timers : Target(tm.msg) # h

Continued(h) ==
    \/ Owes(h)
    \/ \E i \in 1..Len(pump) : Target(pump[i]) = h
    \/ \E tm \in timers : Target(tm.msg) = h

ContinuedIfAlive ==
    \A h \in DOMAIN fsms : Continued(h) <=> (fsms[h] # "KILL_FSM" /\ h \notin orphans)

\* A message whose event has a transition in the state of its FSM.
HasRow(s, state, event) == \E r \in Transitions(s) : r.from = state /\ r.event = event
Fits(m) == Target(m) \in DOMAIN fsms /\ HasRow(m.serviceId, fsms[Target(m)], m.type)

PumpFits   == \A i \in 1..Len(pump) : IsInit(pump[i]) \/ Fits(pump[i])
TimersFit  == \A tm \in timers : Fits(tm.msg)
WorkerFits ==
    /\ pc[Worker] = "find" => (IsInit(cur[Worker]) \/ Fits(cur[Worker]))
    /\ pc[Worker] = "add" => (IsInit(cur[Worker]) /\ Routed(cur[Worker]))
    /\ pc[Worker] = "execute" => Fits(cur[Worker])
    /\ pc[Worker] = "transit" => row[Worker] \in Transitions(cur[Worker].serviceId)
    /\ pc[Worker] = "post" =>
          HasRow(cur[Worker].serviceId, fsms[Held(Worker)], row[Worker].nextEvent)

FsmsRouted == \A h \in DOMAIN fsms : h[1] \in registered
OrphansKnown == orphans \subseteq DOMAIN sessionOf

PlacesInv == OneInPump /\ OneInTimers /\ PumpOrTimer /\ WorkerAlone /\ ContinuedIfAlive
FitInv    == PumpFits /\ TimersFit /\ WorkerFits
NamesInv  == FsmsRouted /\ OrphansKnown
ContinuationInv == PlacesInv /\ FitInv /\ NamesInv
-----------------------------------------------------------------------------
(* The rows.                                                                *)

\* What makes a set of rows one the framework can follow to the end.
Chained(table) ==
    \A r \in table :
        /\ r.from # "KILL_FSM"
        /\ r.hasNext <=> r.to # "KILL_FSM"
        /\ r.hasNext => \E n \in table : n.from = r.to /\ n.event = r.nextEvent

\* Every row of a service's table leads to a state with a row for the event it
\* posts, or to KILL_FSM, and a new FSM has a row for MSG_INIT.
LEMMA TablesChained ==
    ASSUME NEW s
    PROVE  Chained(Transitions(s)) /\ HasRow(s, "IDLE", "MSG_INIT")
<1>1. Chained(RegTransitions) /\ \E r \in RegTransitions : r.from = "IDLE" /\ r.event = "MSG_INIT"
    BY DEF Chained, RegTransitions, Row
<1>2. Chained(AuthTransitions) /\ \E r \in AuthTransitions : r.from = "IDLE" /\ r.event = "MSG_INIT"
    BY DEF Chained, AuthTransitions, Row
<1> QED
    BY <1>1, <1>2 DEF HasRow, Transitions
-----------------------------------------------------------------------------
(* Where the events are.                                                    *)

\* What Append and Tail do to the places of the pump.
LEMMA PumpAppend ==
    ASSUME pump \in Seq(CMsg), NEW m \in CMsg, pump' = Append(pump, m)
    PROVE  /\ Len(pump) \in Nat /\ Len(pump') = Len(pump) + 1
           /\ \A i \in 1..Len(pump) : i \in 1..Len(pump') /\ pump'[i] = pump[i]
           /\ Len(pump') \in 1..Len(pump') /\ pump'[Len(pump')] = m
           /\ \A i \in 1..Len(pump') : i \in 1..Len(pump) \/ i = Len(pump')
OBVIOUS

\* When the front message leaves the pump, each other moves up one place.
LEMMA PumpTail ==
    ASSUME pump \in Seq(CMsg), pump # <<>>, pump' = Tail(pump)
    PROVE  /\ Len(pump) \in Nat /\ 1 \in 1..Len(pump) /\ Head(pump) = pump[1]
           /\ Head(pump) \in CMsg
           /\ \A i \in 1..Len(pump') : i + 1 \in 1..Len(pump) /\ pump'[i] = pump[i + 1]
           /\ \A i \in 1..Len(pump) : i = 1 \/ (i - 1 \in 1..Len(pump') /\ pump'[i - 1] = pump[i])
OBVIOUS

\* A step that moves no message.
LEMMA PlacesFrame ==
    ASSUME PlacesInv, UNCHANGED <<pump, timers, fsms, orphans>>,
           \A h \in DOMAIN fsms : Owes(h)' <=> Owes(h)
    PROVE  PlacesInv'
<1>1. OneInPump' /\ OneInTimers' /\ PumpOrTimer'
    BY DEF PlacesInv, OneInPump, OneInTimers, PumpOrTimer, Target
<1>2. WorkerAlone'
    BY DEF PlacesInv, WorkerAlone, Target
<1>3. ContinuedIfAlive'
    BY DEF PlacesInv, ContinuedIfAlive, Continued, Target
<1> QED
    BY <1>1, <1>2, <1>3 DEF PlacesInv

\* A message enters the pump: it is for no FSM, or it is the event that its FSM
\* had in a timer or at the worker and that is there no more.
LEMMA PlacesToPump ==
    ASSUME TypeInv, PlacesInv, NEW m \in CMsg, pump' = Append(pump, m),
           UNCHANGED <<fsms, orphans>>, timers' \subseteq timers,
           \A h \in DOMAIN fsms : h # Target(m) =>
               /\ Owes(h)' <=> Owes(h)
               /\ \A tm \in timers : Target(tm.msg) = h => tm \in timers',
           \A tm \in timers' : Target(tm.msg) # Target(m),
           Target(m) \in DOMAIN fsms =>
               /\ Continued(Target(m)) /\ ~Owes(Target(m))'
               /\ \A i \in 1..Len(pump) : Target(pump[i]) # Target(m)
    PROVE  PlacesInv'
<1>1. pump \in Seq(CMsg)
    BY DEF TypeInv, TypeOK
<1>2. /\ Len(pump) \in Nat /\ Len(pump') = Len(pump) + 1
      /\ \A i \in 1..Len(pump) : i \in 1..Len(pump') /\ pump'[i] = pump[i]
      /\ Len(pump') \in 1..Len(pump') /\ pump'[Len(pump')] = m
      /\ \A i \in 1..Len(pump') : i \in 1..Len(pump) \/ i = Len(pump')
    BY <1>1, PumpAppend
<1>3. \A i \in 1..Len(pump) : Target(pump'[i]) = Target(pump[i])
    BY <1>2
<1>4. Target(pump'[Len(pump')]) = Target(m)
    BY <1>2
<1>5. OneInPump'
    <2> SUFFICES ASSUME NEW i \in 1..Len(pump'), NEW j \in 1..Len(pump'),
                        Target(pump'[i]) \in DOMAIN fsms, Target(pump'[i]) = Target(pump'[j])
                 PROVE  i = j
        BY DEF OneInPump, Target
    <2>1. CASE i \in 1..Len(pump) /\ j \in 1..Len(pump)
        BY <1>3, <2>1 DEF PlacesInv, OneInPump
    <2>2. CASE i = Len(pump') /\ j \in 1..Len(pump)
        BY <1>3, <1>4, <2>2
    <2>3. CASE i \in 1..Len(pump) /\ j = Len(pump')
        BY <1>3, <1>4, <2>3
    <2> QED
        BY <1>2, <2>1, <2>2, <2>3
<1>6. OneInTimers'
    BY DEF PlacesInv, OneInTimers, Target
<1>7. PumpOrTimer'
    <2> SUFFICES ASSUME NEW i \in 1..Len(pump'), NEW tm \in timers'
                 PROVE  Target(pump'[i]) # Target(tm.msg)
        BY DEF PumpOrTimer, Target
    <2> QED
        BY <1>2, <1>3, <1>4 DEF PlacesInv, PumpOrTimer
<1>8. WorkerAlone'
    <2> SUFFICES ASSUME NEW h \in DOMAIN fsms, Owes(h)'
                 PROVE  /\ \A i \in 1..Len(pump') : Target(pump'[i]) # h
                        /\ \A tm \in timers' : Target(tm.msg) # h
        BY DEF WorkerAlone, Target
    <2>1. h # Target(m) /\ Owes(h)
        OBVIOUS
    <2> QED
        BY <1>2, <1>3, <1>4, <2>1 DEF PlacesInv, WorkerAlone
<1>9. ContinuedIfAlive'
    <2>1. ASSUME NEW h \in DOMAIN fsms PROVE Continued(h)' <=> Continued(h)
        <3>1. CASE h = Target(m)
            <4>1. Continued(h)'
                BY <1>2, <1>4, <3>1 DEF Continued, Target
            <4> QED
                BY <3>1, <4>1
        <3>2. CASE h # Target(m)
            <4>1. (\E i \in 1..Len(pump') : Target(pump'[i]) = h)
                      <=> \E i \in 1..Len(pump) : Target(pump[i]) = h
                BY <1>2, <1>3, <1>4, <3>2
            <4>2. (\E tm \in timers' : Target(tm.msg) = h) <=> \E tm \in timers : Target(tm.msg) = h
                BY <3>2
            <4>3. Owes(h)' <=> Owes(h)
                BY <3>2
            <4> QED
                BY <4>1, <4>2, <4>3 DEF Continued, Target
        <3> QED
            BY <3>1, <3>2
    <2> QED
        BY <2>1 DEF PlacesInv, ContinuedIfAlive
<1> QED
    BY <1>5, <1>6, <1>7, <1>8, <1>9 DEF PlacesInv

\* A stopped pump rejects the event, which is nowhere then: its FSM is an orphan.
LEMMA PlacesToOrphan ==
    ASSUME PlacesInv, NEW g \in DOMAIN fsms, orphans' = orphans \cup {g},
           UNCHANGED <<pump, fsms>>, timers' \subseteq timers,
           \A h \in DOMAIN fsms : h # g =>
               /\ Owes(h)' <=> Owes(h)
               /\ \A tm \in timers : Target(tm.msg) = h => tm \in timers',
           ~Owes(g)', \A tm \in timers' : Target(tm.msg) # g,
           \A i \in 1..Len(pump) : Target(pump[i]) # g
    PROVE  PlacesInv'
<1>1. OneInPump' /\ OneInTimers' /\ PumpOrTimer'
    BY DEF PlacesInv, OneInPump, OneInTimers, PumpOrTimer, Target
<1>2. WorkerAlone'
    BY DEF PlacesInv, WorkerAlone, Target
<1>3. ~Continued(g)'
    BY DEF Continued, Target
<1>4. \A h \in DOMAIN fsms : h # g => (Continued(h)' <=> Continued(h))
    BY DEF Continued, Target
<1>5. ContinuedIfAlive'
    BY <1>3, <1>4 DEF PlacesInv, ContinuedIfAlive
<1> QED
    BY <1>1, <1>2, <1>5 DEF PlacesInv

\* A timer takes the event over from the worker.
LEMMA PlacesToTimer ==
    ASSUME PlacesInv, NEW new, timers' = timers \cup {new}, Target(new.msg) \in DOMAIN fsms,
           UNCHANGED <<pump, fsms, orphans>>,
           \A h \in DOMAIN fsms : h # Target(new.msg) => (Owes(h)' <=> Owes(h)),
           Owes(Target(new.msg)), ~Owes(Target(new.msg))'
    PROVE  PlacesInv'
<1>1. /\ \A i \in 1..Len(pump) : Target(pump[i]) # Target(new.msg)
      /\ \A tm \in timers : Target(tm.msg) # Target(new.msg)
    BY DEF PlacesInv, WorkerAlone
<1>2. OneInPump'
    BY DEF PlacesInv, OneInPump, Target
<1>3. OneInTimers'
    BY <1>1 DEF PlacesInv, OneInTimers, Target
<1>4. PumpOrTimer'
    BY <1>1 DEF PlacesInv, PumpOrTimer, Target
<1>5. WorkerAlone'
    BY DEF PlacesInv, WorkerAlone, Target
<1>6. \A h \in DOMAIN fsms : Continued(h)' <=> Continued(h)
    BY DEF Continued, Target
<1>7. ContinuedIfAlive'
    BY <1>6 DEF PlacesInv, ContinuedIfAlive
<1> QED
    BY <1>2, <1>3, <1>4, <1>5, <1>7 DEF PlacesInv

\* The worker takes the front message up.
LEMMA PlacesPop ==
    ASSUME TypeInv, PlacesInv, Pop(Worker)
    PROVE  PlacesInv'
<1>1. /\ pump \in Seq(CMsg) /\ pump # <<>> /\ pump' = Tail(pump)
      /\ pc[Worker] = "idle" /\ pc'[Worker] = "find" /\ cur'[Worker] = Head(pump)
      /\ UNCHANGED <<timers, fsms, orphans>>
    BY WorkerIsThread DEF Pop, Goto, facVars, timerVars, histVars, TypeInv, TypeOK
<1>2. /\ Len(pump) \in Nat /\ 1 \in 1..Len(pump) /\ Head(pump) = pump[1]
      /\ \A i \in 1..Len(pump') : i + 1 \in 1..Len(pump) /\ pump'[i] = pump[i + 1]
      /\ \A i \in 1..Len(pump) : i = 1 \/ (i - 1 \in 1..Len(pump') /\ pump'[i - 1] = pump[i])
    BY <1>1, PumpTail
<1>3. /\ \A i \in 1..Len(pump') : Target(pump'[i]) = Target(pump[i + 1])
      /\ \A i \in 1..Len(pump) : i = 1 \/ Target(pump'[i - 1]) = Target(pump[i])
    BY <1>2
<1>4. \A h : ~Owes(h) /\ (Owes(h)' <=> Target(pump[1]) = h)
    BY <1>1, <1>2 DEF Owes, Owing, Held, Target
<1>5. OneInPump'
    <2> SUFFICES ASSUME NEW i \in 1..Len(pump'), NEW j \in 1..Len(pump'),
                        Target(pump'[i]) \in DOMAIN fsms, Target(pump'[i]) = Target(pump'[j])
                 PROVE  i = j
        BY <1>1 DEF OneInPump, Target
    <2>1. i + 1 = j + 1
        BY <1>2, <1>3 DEF PlacesInv, OneInPump
    <2> QED
        BY <2>1
<1>6. OneInTimers'
    BY <1>1 DEF PlacesInv, OneInTimers, Target
<1>7. PumpOrTimer'
    <2> SUFFICES ASSUME NEW i \in 1..Len(pump'), NEW tm \in timers
                 PROVE  Target(pump'[i]) # Target(tm.msg)
        BY <1>1 DEF PumpOrTimer, Target
    <2> QED
        BY <1>2, <1>3 DEF PlacesInv, PumpOrTimer
<1>8. WorkerAlone'
    <2> SUFFICES ASSUME NEW h \in DOMAIN fsms, Target(pump[1]) = h
                 PROVE  /\ \A i \in 1..Len(pump') : Target(pump'[i]) # h
                        /\ \A tm \in timers : Target(tm.msg) # h
        BY <1>1, <1>4 DEF WorkerAlone, Target
    <2>1. ASSUME NEW i \in 1..Len(pump') PROVE Target(pump'[i]) # h
        <3>1. i + 1 # 1 /\ i + 1 \in 1..Len(pump) /\ Target(pump'[i]) = Target(pump[i + 1])
            BY <1>2, <1>3
        <3> QED
            BY <1>2, <3>1 DEF PlacesInv, OneInPump
    <2> QED
        BY <1>2, <2>1 DEF PlacesInv, PumpOrTimer
<1>9. ContinuedIfAlive'
    <2>1. ASSUME NEW h \in DOMAIN fsms PROVE Continued(h)' <=> Continued(h)
        <3>1. (\E i \in 1..Len(pump) : Target(pump[i]) = h)
                  <=> (Target(pump[1]) = h \/ \E i \in 1..Len(pump') : Target(pump'[i]) = h)
            BY <1>2, <1>3
        <3>2. (\E tm \in timers' : Target(tm.msg) = h) <=> \E tm \in timers : Target(tm.msg) = h
            BY <1>1
        <3> QED
            BY <1>4, <3>1, <3>2 DEF Continued, Target
    <2> QED
        BY <1>1, <2>1 DEF PlacesInv, ContinuedIfAlive
<1> QED
    BY <1>5, <1>6, <1>7, <1>8, <1>9 DEF PlacesInv

\* A new FSM: the worker holds its MSG_INIT, and no message knows its id yet.
LEMMA PlacesAdd ==
    ASSUME PlacesInv, NEW g, g \notin DOMAIN fsms, g \notin orphans,
           fsms' = [x \in DOMAIN fsms \cup {g} |-> IF x = g THEN "IDLE" ELSE fsms[x]],
           UNCHANGED <<pump, timers, orphans>>,
           \A i \in 1..Len(pump) : Target(pump[i]) # g,
           \A tm \in timers : Target(tm.msg) # g,
           Owes(g)', \A h \in DOMAIN fsms : ~Owes(h) /\ ~Owes(h)'
    PROVE  PlacesInv'
<1>1. DOMAIN fsms' = DOMAIN fsms \cup {g} /\ fsms'[g] = "IDLE"
        /\ \A h \in DOMAIN fsms : fsms'[h] = fsms[h]
    OBVIOUS
<1>2. OneInPump'
    BY <1>1 DEF PlacesInv, OneInPump, Target
<1>3. OneInTimers' /\ PumpOrTimer'
    BY DEF PlacesInv, OneInTimers, PumpOrTimer, Target
<1>4. WorkerAlone'
    BY <1>1 DEF WorkerAlone, Target
<1>5. ContinuedIfAlive'
    BY <1>1 DEF PlacesInv, ContinuedIfAlive, Continued, Target
<1> QED
    BY <1>2, <1>3, <1>4, <1>5 DEF PlacesInv

\* A transition: the FSM ends exactly if the worker has no event to post for it.
LEMMA PlacesSet ==
    ASSUME PlacesInv, NEW g \in DOMAIN fsms, NEW state,
           fsms' = [fsms EXCEPT ![g] = state], Owes(g), g \notin orphans,
           UNCHANGED <<pump, timers, orphans>>,
           \A h \in DOMAIN fsms : h # g => (Owes(h)' <=> Owes(h)),
           Owes(g)' <=> state # "KILL_FSM"
    PROVE  PlacesInv'
<1>1. DOMAIN fsms' = DOMAIN fsms /\ fsms'[g] = state
        /\ \A h \in DOMAIN fsms : h # g => fsms'[h] = fsms[h]
    OBVIOUS
<1>2. OneInPump'
    BY <1>1 DEF PlacesInv, OneInPump, Target
<1>3. OneInTimers' /\ PumpOrTimer'
    BY DEF PlacesInv, OneInTimers, PumpOrTimer, Target
<1>4. WorkerAlone'
    BY <1>1 DEF PlacesInv, WorkerAlone, Target
<1>5. ContinuedIfAlive'
    <2>1. Continued(g)' <=> fsms'[g] # "KILL_FSM"
        BY <1>1 DEF PlacesInv, WorkerAlone, Continued, Target
    <2>2. \A h \in DOMAIN fsms : h # g => (Continued(h)' <=> Continued(h))
        BY DEF Continued, Target
    <2> QED
        BY <1>1, <2>1, <2>2 DEF PlacesInv, ContinuedIfAlive
<1> QED
    BY <1>2, <1>3, <1>4, <1>5 DEF PlacesInv

\* An FSM is reclaimed: the places of the others stay.
LEMMA PlacesKill ==
    ASSUME PlacesInv, NEW g, fsms' = [h \in DOMAIN fsms \ {g} |-> fsms[h]],
           UNCHANGED <<pump, timers, orphans>>, \A h : ~Owes(h) /\ ~Owes(h)'
    PROVE  PlacesInv'
<1>1. OneInPump' /\ OneInTimers' /\ PumpOrTimer'
    BY DEF PlacesInv, OneInPump, OneInTimers, PumpOrTimer, Target
<1>2. WorkerAlone'
    BY DEF WorkerAlone
<1>3. ContinuedIfAlive'
    BY DEF PlacesInv, ContinuedIfAlive, Continued, Target
<1> QED
    BY <1>1, <1>2, <1>3 DEF PlacesInv
-----------------------------------------------------------------------------
(* The steps of the worker that move an event.                              *)

\* What the worker knows when it is about to post: the event is the only one of
\* its FSM, and fits.
LEMMA PostKnows ==
    ASSUME TypeInv, FlowInv, ContinuationInv, pc[Worker] = "post"
    PROVE  /\ NextMsg(Worker) \in CMsg /\ Target(NextMsg(Worker)) = Held(Worker)
           /\ Fits(NextMsg(Worker)) /\ Owes(Held(Worker))
           /\ \A i \in 1..Len(pump) : Target(pump[i]) # Held(Worker)
           /\ \A tm \in timers : Target(tm.msg) # Held(Worker)
<1>1. /\ NextMsg(Worker) \in CMsg /\ Target(NextMsg(Worker)) = Held(Worker)
      /\ NextMsg(Worker).type = row[Worker].nextEvent
      /\ NextMsg(Worker).serviceId = cur[Worker].serviceId
    <2>1. cur[Worker] \in CMsg /\ row[Worker] \in Rows
        BY WorkerIsThread DEF TypeInv, TypeOK, Rows
    <2>2. NextMsg(Worker).serviceId = cur[Worker].serviceId
        BY <2>1 DEF NextMsg, CMsg
    <2> QED
        BY <2>1, <2>2, NextMsgType, WorkerIsThread
<1>2. Held(Worker) \in DOMAIN fsms /\ Owes(Held(Worker))
    BY DEF FlowInv, Alive, Holding, Owes, Owing
<1>3. Fits(NextMsg(Worker))
    BY <1>1, <1>2 DEF ContinuationInv, FitInv, WorkerFits, Fits
<1> QED
    BY <1>1, <1>2, <1>3 DEF ContinuationInv, PlacesInv, WorkerAlone

\* Posting: the event goes to the pump, to a timer, or nowhere.
LEMMA PostPlaces ==
    ASSUME TypeInv, FlowInv, ContinuationInv, Post(Worker)
    PROVE  PlacesInv'
<1>1. /\ pc[Worker] = "post" /\ pc'[Worker] = "reap" /\ UNCHANGED <<cur, fsms>>
      /\ Held(Worker) \in DOMAIN fsms
    BY WorkerIsThread DEF Post, Goto, facVars, TypeInv, TypeOK
<1>2. /\ NextMsg(Worker) \in CMsg /\ Target(NextMsg(Worker)) = Held(Worker)
      /\ Owes(Held(Worker))
      /\ \A i \in 1..Len(pump) : Target(pump[i]) # Held(Worker)
      /\ \A tm \in timers : Target(tm.msg) # Held(Worker)
    BY <1>1, PostKnows
<1>3. \A h : ~Owes(h)' /\ (h # Held(Worker) => ~Owes(h))
    BY <1>1 DEF Owes, Owing
<1>4. PlacesInv
    BY DEF ContinuationInv
<1>5. CASE pump' = Append(pump, NextMsg(Worker)) /\ UNCHANGED <<timers, orphans>>
    <2>1. Continued(Held(Worker))
        BY <1>2 DEF Continued
    <2> QED
        BY <1>1, <1>2, <1>3, <1>4, <1>5, <2>1, PlacesToPump
<1>6. CASE orphans' = orphans \cup {Held(Worker)} /\ UNCHANGED <<pump, timers>>
    BY <1>1, <1>2, <1>3, <1>4, <1>6, PlacesToOrphan
<1>7. CASE /\ timers' = timers \cup {[id |-> nextTimerId, msg |-> NextMsg(Worker)]}
           /\ UNCHANGED <<pump, orphans>>
    <2>1. PICK new : new = [id |-> nextTimerId, msg |-> NextMsg(Worker)]
        OBVIOUS
    <2>2. Target(new.msg) = Held(Worker)
        BY <1>2, <2>1
    <2> QED
        BY <1>1, <1>2, <1>3, <1>4, <1>7, <2>1, <2>2, PlacesToTimer
<1> QED
    BY <1>5, <1>6, <1>7 DEF Post, SendMsg, timerVars

\* A timer that fires gives its event to the pump, or nowhere.
LEMMA TimerPlaces ==
    ASSUME TypeInv, ContinuationInv, NEW tm \in timers, TimerFires(tm)
    PROVE  PlacesInv'
<1>1. /\ timers' = timers \ {tm} /\ UNCHANGED <<pc, cur, fsms>>
      /\ tm.msg \in CMsg /\ PlacesInv
    BY DEF TimerFires, facVars, threadVars, TypeInv, TypeOK, Timer, ContinuationInv
<1>2. Target(tm.msg) \in DOMAIN fsms
    BY DEF ContinuationInv, FitInv, TimersFit, Fits
<1>3. \A h : Owes(h)' <=> Owes(h)
    BY <1>1 DEF Owes, Held, Target
<1>4. /\ \A tn \in timers' : Target(tn.msg) # Target(tm.msg)
      /\ \A i \in 1..Len(pump) : Target(pump[i]) # Target(tm.msg)
      /\ ~Owes(Target(tm.msg)) /\ Continued(Target(tm.msg))
    BY <1>1, <1>2 DEF PlacesInv, OneInTimers, PumpOrTimer, WorkerAlone, Continued
<1>5. \A h \in DOMAIN fsms : h # Target(tm.msg) =>
          \A tn \in timers : Target(tn.msg) = h => tn \in timers'
    BY <1>1
<1>6. CASE pump' = Append(pump, tm.msg) /\ UNCHANGED orphans
    BY <1>1, <1>3, <1>4, <1>5, <1>6, PlacesToPump
<1>7. CASE orphans' = orphans \cup {Target(tm.msg)} /\ UNCHANGED pump
    BY <1>1, <1>2, <1>3, <1>4, <1>5, <1>7, PlacesToOrphan
<1> QED
    BY <1>6, <1>7 DEF TimerFires, SendMsg

\* What the worker finds for its message: a request has no FSM yet, an event has
\* one and its factory is registered.
LEMMA FindKnows ==
    ASSUME TypeInv, SessionInv, ContinuationInv, pc[Worker] = "find"
    PROVE  \/ IsInit(cur[Worker]) /\ ~FsmFound(cur[Worker]) /\ Held(Worker) \notin DOMAIN fsms
           \/ Fits(cur[Worker]) /\ FsmFound(cur[Worker]) /\ Routed(cur[Worker])
<1>1. cur[Worker] \in CMsg /\ DOMAIN fsms \subseteq FsmHandle
    BY WorkerIsThread DEF TypeInv, TypeOK
<1>2. CASE IsInit(cur[Worker])
    <2>1. cur[Worker].fsmId = 0
        BY <1>2 DEF SessionInv, CurCarries, Carries
    <2>2. Held(Worker) \notin DOMAIN fsms
        BY <1>1, <2>1, TargetType DEF Held
    <2> QED
        BY <1>2, <2>1, <2>2 DEF FsmFound
<1>3. CASE ~IsInit(cur[Worker])
    <2>1. Fits(cur[Worker]) /\ Target(cur[Worker]) \in DOMAIN fsms
        BY <1>3 DEF ContinuationInv, FitInv, WorkerFits, Fits
    <2>2. cur[Worker].fsmId # 0
        BY <1>1, <2>1, TargetType
    <2>3. Routed(cur[Worker])
        BY <2>1 DEF ContinuationInv, NamesInv, FsmsRouted, Target, Routed
    <2> QED
        BY <2>1, <2>2, <2>3 DEF FsmFound
<1> QED
    BY <1>2, <1>3

\* The FSM the worker executes is alive and has a row for its event.
LEMMA ExecuteKnows ==
    ASSUME ContinuationInv, pc[Worker] = "execute"
    PROVE  fsms[Held(Worker)] # "KILL_FSM" /\ TransitionsFor(Worker) # {}
<1>1. Fits(cur[Worker])
    BY DEF ContinuationInv, FitInv, WorkerFits
<1>2. PICK r \in Transitions(cur[Worker].serviceId) :
          r.from = fsms[Held(Worker)] /\ r.event = cur[Worker].type
    BY <1>1 DEF Fits, HasRow, Held
<1>3. r.from # "KILL_FSM"
    BY TablesChained DEF Chained
<1> QED
    BY <1>2, <1>3 DEF TransitionsFor, FindFsmTransition

\* The FSM that AddFsm creates is known to no message, timer or orphan.
LEMMA AddKnows ==
    ASSUME TypeInv, FlowInv, SessionInv, ContinuationInv, AddFsm(Worker),
           ~FactoryFull(cur[Worker].serviceId)
    PROVE  \E g \in FsmHandle :
               /\ g[1] = cur[Worker].serviceId
               /\ g \notin DOMAIN fsms /\ g \notin orphans
               /\ fsms' = [x \in DOMAIN fsms \cup {g} |-> IF x = g THEN "IDLE" ELSE fsms[x]]
               /\ DOMAIN sessionOf \subseteq DOMAIN sessionOf'
               /\ \A i \in 1..Len(pump) : Target(pump[i]) # g
               /\ \A tm \in timers : Target(tm.msg) # g
               /\ pc'[Worker] = "execute" /\ Held(Worker)' = g
               /\ cur'[Worker].serviceId = cur[Worker].serviceId
               /\ cur'[Worker].type = "MSG_INIT"
<1>1. /\ pc[Worker] = "add" /\ cur[Worker] \in CMsg /\ cur[Worker].serviceId \in FactoryId
      /\ nextFsmId \in [FactoryId -> Nat \ {0}] /\ pc \in [Threads -> PC]
      /\ cur \in [Threads -> CMsg] /\ Worker \in Threads /\ pump \in Seq(CMsg)
    BY WorkerIsThread DEF AddFsm, TypeInv, TypeOK, Routable
<1>2. PICK g \in FsmHandle : g = <<cur[Worker].serviceId, nextFsmId[cur[Worker].serviceId]>>
    BY <1>1 DEF FsmHandle
<1>3. /\ fsms' = [x \in DOMAIN fsms \cup {g} |-> IF x = g THEN "IDLE" ELSE fsms[x]]
      /\ cur' = [cur EXCEPT ![Worker].fsmId = g[2]]
      /\ DOMAIN sessionOf \subseteq DOMAIN sessionOf'
      /\ pc' = [pc EXCEPT ![Worker] = "execute"]
    BY <1>2 DEF AddFsm, Goto, NewFsmId
<1>4. g \notin DOMAIN fsms /\ g \notin DOMAIN sessionOf
    BY <1>1, <1>2 DEF FlowInv, IdsUsed, Used
<1>5. g \notin orphans
    BY <1>4 DEF ContinuationInv, NamesInv, OrphansKnown
<1>6. /\ pc'[Worker] = "execute" /\ Held(Worker)' = g
      /\ cur'[Worker].serviceId = cur[Worker].serviceId
      /\ cur'[Worker].type = cur[Worker].type
    BY <1>1, <1>2, <1>3 DEF Held, Target, CMsg
<1>7. cur[Worker].type = "MSG_INIT"
    BY <1>1 DEF ContinuationInv, FitInv, WorkerFits, IsInit
<1>8. ASSUME NEW i \in 1..Len(pump) PROVE Target(pump[i]) # g
    <2>1. pump[i] \in CMsg
        BY <1>1
    <2>2. CASE IsInit(pump[i])
        <3>1. pump[i].fsmId = 0
            BY <2>2 DEF SessionInv, PumpCarries, Carries
        <3> QED
            BY <2>1, <3>1, TargetType
    <2>3. CASE Fits(pump[i])
        BY <1>4, <2>3 DEF Fits
    <2> QED
        BY <2>2, <2>3 DEF ContinuationInv, FitInv, PumpFits
<1>9. \A tm \in timers : Target(tm.msg) # g
    BY <1>4 DEF ContinuationInv, FitInv, TimersFit, Fits
<1> QED
    BY <1>2, <1>3, <1>4, <1>5, <1>6, <1>7, <1>8, <1>9
-----------------------------------------------------------------------------
(* Every step keeps the places.                                             *)

\* No step gives a live FSM a second event, or takes the last from one.
LEMMA StepPlaces ==
    ASSUME SingleDispatcher, InitOnly, TypeInv, FlowInv, SessionInv, ContinuationInv, [Next]_vars
    PROVE  PlacesInv'
<1>1. /\ Threads = {Worker} /\ Worker \in Threads /\ pc \in [Threads -> PC] /\ PlacesInv
    BY DEF SingleDispatcher, Threads, TypeInv, TypeOK, ContinuationInv
<1>2. ASSUME \/ \E id \in FactoryId : RegisterFactory(id)
             \/ Stop
             \/ UNCHANGED vars
      PROVE  PlacesInv'
    <2>1. UNCHANGED <<pump, timers, fsms, orphans, pc, cur>>
        BY <1>2 DEF RegisterFactory, Stop, vars, facVars, timerVars, threadVars, histVars
    <2> QED
        BY <1>1, <2>1, PlacesFrame DEF Owes, Held, Target
<1>3. ASSUME NEW m \in ClientMsgs, ClientSend(m) PROVE PlacesInv'
    <2>1. m \in CMsg /\ m.fsmId = 0
        BY ClientAssumption DEF InitOnly
    <2>2. /\ pump' = Append(pump, m)
          /\ UNCHANGED <<fsms, orphans, timers, pc, cur>>
        BY <1>3 DEF ClientSend, SendMsg, facVars, timerVars, threadVars
    <2>3. \A h : Owes(h)' <=> Owes(h)
        BY <2>2 DEF Owes, Held, Target
    <2>4. Target(m) \notin FsmHandle /\ DOMAIN fsms \subseteq FsmHandle
        BY <2>1, TargetType DEF TypeInv, TypeOK
    <2>5. \A tm \in timers : Target(tm.msg) # Target(m)
        BY <2>4 DEF TypeInv, Routable
    <2> QED
        BY <1>1, <2>1, <2>2, <2>3, <2>4, <2>5, PlacesToPump
<1>4. ASSUME NEW tm \in timers, TimerFires(tm) PROVE PlacesInv'
    BY <1>4, TimerPlaces
<1>5. ASSUME Start \/ Join \/ WorkerExits PROVE PlacesInv'
    <2>1. /\ pc[Worker] \in {"none", "idle", "exited"} /\ pc'[Worker] \in {"none", "idle", "exited"}
          /\ UNCHANGED <<pump, timers, fsms, orphans>>
        BY <1>1, <1>5
        DEF FlowInv, Joinable, Start, Join, WorkerExits, Goto, facVars, timerVars, histVars
    <2> QED
        BY <1>1, <2>1, PlacesFrame DEF Owes, Owing
<1>6. CASE Pop(Worker)
    BY <1>1, <1>6, PlacesPop
<1>7. CASE FindFsm(Worker)
    <2>1. pc[Worker] = "find" /\ UNCHANGED <<pump, timers, fsms, orphans>>
        BY <1>7 DEF FindFsm, facVars, timerVars
    <2>2. \/ pc'[Worker] = "idle" /\ ~(FsmFound(cur[Worker]) /\ Routed(cur[Worker]))
          \/ pc'[Worker] = "add" /\ ~FsmFound(cur[Worker])
          \/ pc'[Worker] = "execute" /\ UNCHANGED cur
        BY <1>1, <1>7 DEF FindFsm, Refuse, Return, Goto
    <2>3. \A h \in DOMAIN fsms : Owes(h)' <=> Owes(h)
        BY <2>1, <2>2, FindKnows DEF Owes, Owing, Held, Target
    <2> QED
        BY <1>1, <2>1, <2>3, PlacesFrame
<1>8. CASE AddFsm(Worker)
    <2>1. pc[Worker] = "add" /\ UNCHANGED <<pump, timers, orphans>>
        BY <1>8 DEF AddFsm, timerVars
    <2>2. CASE ~FactoryFull(cur[Worker].serviceId)
        <3>1. PICK g \in FsmHandle :
                  /\ g \notin DOMAIN fsms /\ g \notin orphans
                  /\ fsms' = [x \in DOMAIN fsms \cup {g} |-> IF x = g THEN "IDLE" ELSE fsms[x]]
                  /\ \A i \in 1..Len(pump) : Target(pump[i]) # g
                  /\ \A tm \in timers : Target(tm.msg) # g
                  /\ pc'[Worker] = "execute" /\ Held(Worker)' = g
            BY <1>8, <2>2, AddKnows
        <3>2. Owes(g)' /\ \A h \in DOMAIN fsms : ~Owes(h) /\ ~Owes(h)'
            BY <2>1, <3>1 DEF Owes, Owing
        <3> QED
            BY <1>1, <2>1, <3>1, <3>2, PlacesAdd
    <2>3. CASE FactoryFull(cur[Worker].serviceId)
        <3>1. pc'[Worker] = "idle" /\ UNCHANGED fsms
            BY <1>1, <1>8, <2>3 DEF AddFsm, Refuse, Return, facVars
        <3> QED
            BY <1>1, <2>1, <3>1, PlacesFrame DEF Owes, Owing
    <2> QED
        BY <2>2, <2>3
<1>9. CASE Execute(Worker)
    <2>1. pc[Worker] = "execute" /\ UNCHANGED <<cur, pump, timers, fsms, orphans>>
        BY <1>9 DEF Execute, facVars, timerVars, histVars
    <2>2. pc'[Worker] = "transit"
        BY <1>1, <1>9, <2>1, ExecuteKnows DEF Execute, Goto
    <2> QED
        BY <1>1, <2>1, <2>2, PlacesFrame DEF Owes, Owing, Held, Target
<1>10. CASE SetState(Worker)
    <2>1. /\ pc[Worker] = "transit" /\ Held(Worker) \in DOMAIN fsms
          /\ fsms' = [fsms EXCEPT ![Held(Worker)] = row[Worker].to]
          /\ pc'[Worker] = IF row[Worker].hasNext THEN "post" ELSE "reap"
          /\ UNCHANGED <<cur, pump, timers, orphans>>
        BY <1>1, <1>10 DEF SetState, Goto, timerVars, histVars
    <2>2. row[Worker].hasNext <=> row[Worker].to # "KILL_FSM"
        BY <2>1, TablesChained DEF Chained, ContinuationInv, FitInv, WorkerFits
    <2>3. PICK g \in DOMAIN fsms : g = Held(Worker)
        BY <2>1
    <2>4. PICK state : state = row[Worker].to
        OBVIOUS
    <2>5. Held(Worker)' = g
        BY <2>1, <2>3 DEF Held, Target
    <2>6. /\ Owes(g) /\ (Owes(g)' <=> state # "KILL_FSM")
          /\ \A h \in DOMAIN fsms : h # g => ~Owes(h) /\ ~Owes(h)'
        BY <2>1, <2>2, <2>3, <2>4, <2>5 DEF Owes, Owing
    <2>7. g \notin orphans
        BY <1>1, <2>6 DEF PlacesInv, ContinuedIfAlive, Continued
    <2>8. fsms' = [fsms EXCEPT ![g] = state]
        BY <2>1, <2>3, <2>4
    <2> QED
        BY <1>1, <2>1, <2>6, <2>7, <2>8, PlacesSet
<1>11. CASE Post(Worker)
    BY <1>11, PostPlaces
<1>12. CASE Reap(Worker)
    <2>1. pc[Worker] = "reap" /\ UNCHANGED <<pump, timers, fsms, orphans>>
        BY <1>12 DEF Reap, facVars, timerVars
    <2>2. pc'[Worker] \in {"idle", "kill"}
        BY <1>1, <1>12 DEF Reap, Return, Goto
    <2> QED
        BY <1>1, <2>1, <2>2, PlacesFrame DEF Owes, Owing
<1>13. CASE KillFsm(Worker)
    <2>1. /\ pc[Worker] = "kill" /\ pc'[Worker] = "idle"
          /\ fsms' = [h \in DOMAIN fsms \ {Held(Worker)} |-> fsms[h]]
          /\ UNCHANGED <<pump, timers, orphans>>
        BY <1>1, <1>13 DEF KillFsm, Erase, Return, timerVars, histVars
    <2>2. \A h : ~Owes(h) /\ ~Owes(h)'
        BY <2>1 DEF Owes, Owing
    <2> QED
        BY <1>1, <2>1, <2>2, PlacesKill
<1> QED
    BY <1>1, <1>2, <1>3, <1>4, <1>5, <1>6, <1>7, <1>8, <1>9, <1>10, <1>11, <1>12, <1>13
    DEF Next, Dispatch
-----------------------------------------------------------------------------
(* Every step keeps the fit of events and states.                           *)

\* A message that is appended fits, or opens a flow.
LEMMA AppendFits ==
    ASSUME TypeInv, NEW m \in CMsg, pump' = Append(pump, m), UNCHANGED fsms, PumpFits,
           IsInit(m) \/ Fits(m)
    PROVE  PumpFits'
<1>1. pump \in Seq(CMsg)
    BY DEF TypeInv, TypeOK
<1>2. /\ \A i \in 1..Len(pump) : i \in 1..Len(pump') /\ pump'[i] = pump[i]
      /\ pump'[Len(pump')] = m
      /\ \A i \in 1..Len(pump') : i \in 1..Len(pump) \/ i = Len(pump')
    BY <1>1, PumpAppend
<1>3. ASSUME NEW i \in 1..Len(pump') PROVE IsInit(pump'[i]) \/ Fits(pump'[i])
    BY <1>2 DEF PumpFits
<1> QED
    BY <1>3 DEF PumpFits, Fits, Target, IsInit

\* What Post, Execute and the others leave of the fit, action by action.
LEMMA StepFit ==
    ASSUME SingleDispatcher, InitOnly, TypeInv, FlowInv, SessionInv, ContinuationInv, [Next]_vars
    PROVE  FitInv'
<1>1. /\ Threads = {Worker} /\ Worker \in Threads /\ pc \in [Threads -> PC]
      /\ row \in [Threads -> Rows] /\ pump \in Seq(CMsg) /\ FitInv
      /\ PumpFits /\ TimersFit /\ WorkerFits
    BY DEF SingleDispatcher, Threads, TypeInv, TypeOK, ContinuationInv, FitInv, Rows
<1>2. UNCHANGED <<pump, timers, fsms>> => PumpFits' /\ TimersFit'
    BY <1>1 DEF PumpFits, TimersFit, Fits, Target, IsInit
<1>3. UNCHANGED fsms /\ timers' \subseteq timers => TimersFit'
    BY <1>1 DEF TimersFit, Fits, Target
<1>4. UNCHANGED <<fsms, pc, cur, row>> /\ registered \subseteq registered' => WorkerFits'
    BY <1>1 DEF WorkerFits, Fits, Target, Held, Routed, IsInit
<1>5. ASSUME \/ \E id \in FactoryId : RegisterFactory(id)
             \/ Stop
             \/ UNCHANGED vars
      PROVE  FitInv'
    <2>1. UNCHANGED <<pump, timers, fsms, pc, cur, row>> /\ registered \subseteq registered'
        BY <1>5 DEF RegisterFactory, Stop, vars, facVars, timerVars, threadVars
    <2> QED
        BY <1>2, <1>4, <2>1 DEF FitInv
<1>6. ASSUME NEW m \in ClientMsgs, ClientSend(m) PROVE FitInv'
    <2>1. m \in CMsg /\ IsInit(m)
        BY ClientAssumption DEF InitOnly
    <2>2. pump' = Append(pump, m) /\ UNCHANGED <<fsms, timers, pc, cur, row, registered>>
        BY <1>6 DEF ClientSend, SendMsg, facVars, timerVars, threadVars
    <2>3. PumpFits'
        BY <1>1, <2>1, <2>2, AppendFits
    <2> QED
        BY <1>3, <1>4, <2>2, <2>3 DEF FitInv
<1>7. ASSUME NEW tm \in timers, TimerFires(tm) PROVE FitInv'
    <2>1. tm.msg \in CMsg /\ Fits(tm.msg)
        BY <1>1 DEF TypeInv, TypeOK, Timer, TimersFit
    <2>2. /\ pump' = Append(pump, tm.msg) \/ UNCHANGED pump
          /\ timers' \subseteq timers /\ UNCHANGED <<fsms, pc, cur, row, registered>>
        BY <1>7 DEF TimerFires, SendMsg, facVars, threadVars
    <2>3. UNCHANGED <<pump, fsms>> => PumpFits'
        BY <1>1 DEF PumpFits, Fits, Target, IsInit
    <2>4. PumpFits'
        BY <1>1, <2>1, <2>2, <2>3, AppendFits
    <2> QED
        BY <1>3, <1>4, <2>2, <2>4 DEF FitInv
<1>8. ASSUME Start \/ Join \/ WorkerExits PROVE FitInv'
    <2>1. /\ pc'[Worker] \in {"none", "idle", "exited"}
          /\ UNCHANGED <<pump, timers, fsms>>
        BY <1>1, <1>8
        DEF Start, Join, WorkerExits, Goto, facVars, timerVars, histVars
    <2>2. WorkerFits'
        BY <2>1 DEF WorkerFits
    <2> QED
        BY <1>2, <2>1, <2>2 DEF FitInv
<1>9. CASE Pop(Worker)
    <2>1. /\ pump # <<>> /\ pump' = Tail(pump)
          /\ pc'[Worker] = "find" /\ cur'[Worker] = Head(pump)
          /\ UNCHANGED <<timers, fsms>>
        BY <1>1, <1>9 DEF Pop, Goto, facVars, timerVars, TypeInv, TypeOK
    <2>2. /\ 1 \in 1..Len(pump) /\ Head(pump) = pump[1]
          /\ \A i \in 1..Len(pump') : i + 1 \in 1..Len(pump) /\ pump'[i] = pump[i + 1]
        BY <1>1, <2>1, PumpTail
    <2>3. PumpFits'
        BY <1>1, <2>1, <2>2 DEF PumpFits, Fits, Target, IsInit
    <2>4. WorkerFits'
        BY <1>1, <2>1, <2>2 DEF PumpFits, WorkerFits, Fits, Target, IsInit
    <2> QED
        BY <1>3, <2>1, <2>3, <2>4 DEF FitInv
<1>10. CASE FindFsm(Worker)
    <2>1. pc[Worker] = "find" /\ UNCHANGED <<pump, timers, fsms, registered>>
        BY <1>10 DEF FindFsm, facVars, timerVars
    <2>2. \/ pc'[Worker] = "idle"
          \/ /\ pc'[Worker] = "add" /\ Routed(cur[Worker]) /\ IsInit(cur[Worker])
             /\ UNCHANGED cur
          \/ pc'[Worker] = "execute" /\ FsmFound(cur[Worker]) /\ UNCHANGED cur
        BY <1>1, <1>10 DEF FindFsm, Refuse, Return, Goto
    <2>3. WorkerFits'
        BY <2>1, <2>2, FindKnows DEF WorkerFits, Fits, Target, IsInit, Routed
    <2> QED
        BY <1>2, <2>1, <2>3 DEF FitInv
<1>11. CASE AddFsm(Worker)
    <2>1. pc[Worker] = "add" /\ UNCHANGED <<pump, timers>>
        BY <1>11 DEF AddFsm, timerVars
    <2>2. CASE ~FactoryFull(cur[Worker].serviceId)
        <3>1. PICK g \in FsmHandle :
                  /\ fsms' = [x \in DOMAIN fsms \cup {g} |-> IF x = g THEN "IDLE" ELSE fsms[x]]
                  /\ g \notin DOMAIN fsms
                  /\ pc'[Worker] = "execute" /\ Held(Worker)' = g
                  /\ cur'[Worker].serviceId = cur[Worker].serviceId
                  /\ cur'[Worker].type = "MSG_INIT"
            BY <1>11, <2>2, AddKnows
        <3>2. \A m : Fits(m) => Target(m) \in DOMAIN fsms' /\ fsms'[Target(m)] = fsms[Target(m)]
            BY <3>1 DEF Fits
        <3>3. PumpFits' /\ TimersFit'
            BY <1>1, <2>1, <3>2 DEF PumpFits, TimersFit, Fits, Target, IsInit
        <3>4. Target(cur'[Worker]) = g
            BY <3>1 DEF Held, Target
        <3>5. Fits(cur[Worker])'
            BY <3>1, <3>4, TablesChained DEF Fits, Target
        <3>6. WorkerFits'
            BY <3>1, <3>5 DEF WorkerFits
        <3> QED
            BY <3>3, <3>6 DEF FitInv
    <2>3. CASE FactoryFull(cur[Worker].serviceId)
        <3>1. pc'[Worker] = "idle" /\ UNCHANGED fsms
            BY <1>1, <1>11, <2>3 DEF AddFsm, Refuse, Return, facVars
        <3>2. WorkerFits'
            BY <3>1 DEF WorkerFits
        <3> QED
            BY <1>2, <2>1, <3>1, <3>2 DEF FitInv
    <2> QED
        BY <2>2, <2>3
<1>12. CASE Execute(Worker)
    <2>1. pc[Worker] = "execute" /\ UNCHANGED <<cur, pump, timers, fsms>>
        BY <1>12 DEF Execute, facVars, timerVars, histVars
    <2>2. pc'[Worker] = "transit" /\ row'[Worker] \in TransitionsFor(Worker)
        BY <1>1, <1>12, <2>1, ExecuteKnows DEF Execute, Goto
    <2>3. row'[Worker] \in Transitions(cur[Worker].serviceId)
        BY <2>2 DEF TransitionsFor, FindFsmTransition
    <2>4. WorkerFits'
        BY <2>1, <2>2, <2>3 DEF WorkerFits
    <2> QED
        BY <1>2, <2>1, <2>4 DEF FitInv
<1>13. CASE SetState(Worker)
    <2>1. /\ pc[Worker] = "transit" /\ Held(Worker) \in DOMAIN fsms
          /\ fsms' = [fsms EXCEPT ![Held(Worker)] = row[Worker].to]
          /\ pc'[Worker] = IF row[Worker].hasNext THEN "post" ELSE "reap"
          /\ UNCHANGED <<cur, row, pump, timers>>
        BY <1>1, <1>13 DEF SetState, Goto, timerVars, histVars
    <2>2. /\ \A i \in 1..Len(pump) : Target(pump[i]) # Held(Worker)
          /\ \A tm \in timers : Target(tm.msg) # Held(Worker)
        BY <2>1 DEF ContinuationInv, PlacesInv, WorkerAlone, Owes, Owing
    <2>3. ASSUME NEW m, Fits(m), Target(m) # Held(Worker)
          PROVE  Target(m) \in DOMAIN fsms' /\ fsms'[Target(m)] = fsms[Target(m)]
        BY <2>1, <2>3 DEF Fits
    <2>4. PumpFits' /\ TimersFit'
        BY <1>1, <2>1, <2>2, <2>3 DEF PumpFits, TimersFit, Fits, Target, IsInit
    <2>5. WorkerFits'
        <3>1. row[Worker] \in Transitions(cur[Worker].serviceId)
            BY <1>1, <2>1 DEF WorkerFits
        <3>2. row[Worker].hasNext =>
                  HasRow(cur[Worker].serviceId, row[Worker].to, row[Worker].nextEvent)
            BY <3>1, TablesChained DEF Chained, HasRow
        <3>3. Held(Worker)' = Held(Worker) /\ fsms'[Held(Worker)] = row[Worker].to
            BY <2>1 DEF Held, Target
        <3> QED
            BY <2>1, <3>2, <3>3 DEF WorkerFits
    <2> QED
        BY <2>4, <2>5 DEF FitInv
<1>14. CASE Post(Worker)
    <2>1. /\ pc[Worker] = "post" /\ pc'[Worker] = "reap" /\ UNCHANGED fsms
          /\ pump' = Append(pump, NextMsg(Worker)) \/ UNCHANGED pump
          /\ \/ UNCHANGED timers
             \/ timers' = timers \cup {[id |-> nextTimerId, msg |-> NextMsg(Worker)]}
        BY <1>1, <1>14 DEF Post, Goto, SendMsg, timerVars, facVars
    <2>2. PICK m \in CMsg : m = NextMsg(Worker) /\ Fits(m)
        BY <2>1, PostKnows
    <2>3. UNCHANGED <<pump, fsms>> => PumpFits'
        BY <1>1 DEF PumpFits, Fits, Target, IsInit
    <2>4. PumpFits'
        BY <1>1, <2>1, <2>2, <2>3, AppendFits
    <2>5. TimersFit'
        <3>1. ASSUME NEW tm \in timers' PROVE Fits(tm.msg)
            BY <1>1, <2>1, <2>2 DEF TimersFit
        <3> QED
            BY <2>1, <3>1 DEF TimersFit, Fits, Target
    <2>6. WorkerFits'
        BY <2>1 DEF WorkerFits
    <2> QED
        BY <2>4, <2>5, <2>6 DEF FitInv
<1>15. CASE Reap(Worker)
    <2>1. UNCHANGED <<pump, timers, fsms>> /\ pc'[Worker] \in {"idle", "kill"}
        BY <1>1, <1>15 DEF Reap, Return, Goto, facVars, timerVars
    <2>2. WorkerFits'
        BY <2>1 DEF WorkerFits
    <2> QED
        BY <1>2, <2>1, <2>2 DEF FitInv
<1>16. CASE KillFsm(Worker)
    <2>1. /\ pc[Worker] = "kill" /\ pc'[Worker] = "idle"
          /\ fsms' = [h \in DOMAIN fsms \ {Held(Worker)} |-> fsms[h]]
          /\ UNCHANGED <<pump, timers>>
        BY <1>1, <1>16 DEF KillFsm, Erase, Return, timerVars
    <2>2. Held(Worker) \in DOMAIN fsms /\ fsms[Held(Worker)] = "KILL_FSM"
        BY <2>1 DEF FlowInv, Alive, Holding, KillReported
    <2>3. /\ \A i \in 1..Len(pump) : Target(pump[i]) # Held(Worker)
          /\ \A tm \in timers : Target(tm.msg) # Held(Worker)
        BY <2>2 DEF ContinuationInv, PlacesInv, ContinuedIfAlive, Continued
    <2>4. ASSUME NEW m, Fits(m), Target(m) # Held(Worker)
          PROVE  Target(m) \in DOMAIN fsms' /\ fsms'[Target(m)] = fsms[Target(m)]
        BY <2>1, <2>4 DEF Fits
    <2>5. PumpFits' /\ TimersFit'
        BY <1>1, <2>1, <2>3, <2>4 DEF PumpFits, TimersFit, Fits, Target, IsInit
    <2>6. WorkerFits'
        BY <2>1 DEF WorkerFits
    <2> QED
        BY <2>5, <2>6 DEF FitInv
<1> QED
    BY <1>1, <1>5, <1>6, <1>7, <1>8, <1>9, <1>10, <1>11, <1>12, <1>13, <1>14, <1>15, <1>16
    DEF Next, Dispatch
-----------------------------------------------------------------------------
\* Factories stay registered, and an orphan is an FSM that was created.
LEMMA StepNames ==
    ASSUME SingleDispatcher, InitOnly, TypeInv, FlowInv, SessionInv, Sessioned, ContinuationInv,
           [Next]_vars
    PROVE  NamesInv'
<1>1. /\ Threads = {Worker} /\ Worker \in Threads /\ FsmsRouted /\ OrphansKnown
    BY DEF SingleDispatcher, Threads, ContinuationInv, NamesInv
<1>2. registered \subseteq registered'
    BY <1>1 DEF Next, Dispatch, RegisterFactory, ClientSend, Start, Stop, Join, WorkerExits, Pop,
       FindFsm, AddFsm, Execute, SetState, Post, Reap, KillFsm, TimerFires, vars
<1>3. CASE AddFsm(Worker) /\ ~FactoryFull(cur[Worker].serviceId)
    <2>1. pc[Worker] = "add" /\ UNCHANGED orphans
        BY <1>3 DEF AddFsm
    <2>2. cur[Worker].serviceId \in registered
        BY <2>1 DEF ContinuationInv, FitInv, WorkerFits, Routed
    <2>3. PICK g \in FsmHandle :
              /\ g[1] = cur[Worker].serviceId /\ DOMAIN sessionOf \subseteq DOMAIN sessionOf'
              /\ fsms' = [x \in DOMAIN fsms \cup {g} |-> IF x = g THEN "IDLE" ELSE fsms[x]]
        BY <1>3, AddKnows
    <2> QED
        BY <1>1, <1>2, <2>1, <2>2, <2>3 DEF NamesInv, FsmsRouted, OrphansKnown
<1>4. CASE /\ DOMAIN fsms' \subseteq DOMAIN fsms /\ DOMAIN sessionOf \subseteq DOMAIN sessionOf'
           /\ orphans' \subseteq orphans \cup DOMAIN sessionOf
    BY <1>1, <1>2, <1>4 DEF NamesInv, FsmsRouted, OrphansKnown
<1>5. ASSUME NEW tm \in timers, TimerFires(tm) PROVE NamesInv'
    <2>1. Target(tm.msg) \in DOMAIN fsms
        BY DEF ContinuationInv, FitInv, TimersFit, Fits
    <2> QED
        BY <1>4, <1>5, <2>1 DEF TimerFires, facVars, Sessioned
<1>6. CASE Post(Worker)
    BY <1>4, <1>6 DEF Post, facVars, Sessioned
<1>7. CASE AddFsm(Worker) /\ FactoryFull(cur[Worker].serviceId)
    BY <1>4, <1>7 DEF AddFsm, facVars
<1>8. CASE SetState(Worker) \/ KillFsm(Worker)
    BY <1>4, <1>8 DEF SetState, KillFsm, Erase, histVars
<1>9. CASE Pop(Worker) \/ FindFsm(Worker) \/ Execute(Worker) \/ Reap(Worker)
    BY <1>4, <1>9 DEF Pop, FindFsm, Execute, Reap, facVars, histVars
<1>10. CASE \/ \E id \in FactoryId : RegisterFactory(id)
            \/ \E m \in ClientMsgs : ClientSend(m)
            \/ Start \/ Stop \/ Join \/ WorkerExits
            \/ UNCHANGED vars
    BY <1>4, <1>10 DEF RegisterFactory, ClientSend, Start, Stop, Join, WorkerExits, vars,
       facVars, histVars
<1> QED
    BY <1>1, <1>3, <1>5, <1>6, <1>7, <1>8, <1>9, <1>10 DEF Next, Dispatch

\* No message is anywhere at first.
LEMMA InitContinuation == Init => ContinuationInv
<1> SUFFICES ASSUME Init PROVE ContinuationInv
    OBVIOUS
<1>1. pump = <<>> /\ timers = {} /\ DOMAIN fsms = {} /\ orphans = {} /\ pc[Worker] = "none"
    BY WorkerIsThread DEF Init
<1>2. PlacesInv
    BY <1>1 DEF PlacesInv, OneInPump, OneInTimers, PumpOrTimer, WorkerAlone, ContinuedIfAlive
<1>3. FitInv
    BY <1>1 DEF FitInv, PumpFits, TimersFit, WorkerFits
<1>4. NamesInv
    BY <1>1 DEF NamesInv, FsmsRouted, OrphansKnown
<1> QED
    BY <1>2, <1>3, <1>4 DEF ContinuationInv

IContinuation == IInv /\ ContinuationInv

\* The whole invariant is inductive.
LEMMA ContinuationInductive ==
    ASSUME SingleDispatcher, InitOnly
    PROVE  /\ Init => IContinuation
           /\ IContinuation /\ [Next]_vars => IContinuation'
<1>1. Init => IContinuation
    BY InitType, InitCapacity, InitFlow, InitSession, InitContinuation
    DEF IContinuation, IInv, Sessioned, Init
<1>2. ASSUME IContinuation, [Next]_vars PROVE IContinuation'
    <2>1. IInv'
        BY <1>2, StepType, StepCapacity, StepFlow, StepSession, StepSessioned
        DEF IContinuation, IInv
    <2>2. PlacesInv' /\ FitInv' /\ NamesInv'
        BY <1>2, StepPlaces, StepFit, StepNames DEF IContinuation, IInv
    <2> QED
        BY <2>1, <2>2 DEF IContinuation, ContinuationInv
<1> QED
    BY <1>1, <1>2

\* The invariant says of the places of an event what OneContinuation says.
LEMMA PlacesAreOne ==
    ASSUME SingleDispatcher, PlacesInv
    PROVE  OneContinuation
<1>1. Threads = {Worker}
    BY DEF SingleDispatcher, Threads
<1> SUFFICES ASSUME NEW h \in DOMAIN fsms
             PROVE  /\ \A p, q \in Places(h) : p = q
                    /\ (Places(h) # {}) <=> (fsms[h] # "KILL_FSM" /\ h \notin orphans)
    BY DEF OneContinuation
<1>2. ASSUME NEW p \in Places(h)
      PROVE  \/ \E i \in 1..Len(pump) : p = <<"pump", i>> /\ Target(pump[i]) = h
             \/ \E tm \in timers : p = <<"timer", tm.id>> /\ Target(tm.msg) = h
             \/ p = <<"thread", Worker>> /\ Owes(h)
    BY <1>1 DEF Places, Owes, Owing
<1>3. ASSUME NEW p \in Places(h), NEW q \in Places(h) PROVE p = q
    <2>1. CASE \E i \in 1..Len(pump) : p = <<"pump", i>> /\ Target(pump[i]) = h
        BY <1>2, <2>1 DEF PlacesInv, OneInPump, PumpOrTimer, WorkerAlone
    <2>2. CASE \E tm \in timers : p = <<"timer", tm.id>> /\ Target(tm.msg) = h
        BY <1>2, <2>2 DEF PlacesInv, OneInTimers, PumpOrTimer, WorkerAlone
    <2>3. CASE p = <<"thread", Worker>> /\ Owes(h)
        BY <1>2, <2>3 DEF PlacesInv, WorkerAlone
    <2> QED
        BY <1>2, <2>1, <2>2, <2>3
<1>4. Places(h) # {} <=> Continued(h)
    <2>1. Places(h) # {} => Continued(h)
        BY <1>2 DEF Continued
    <2>2. Continued(h) => Places(h) # {}
        BY <1>1 DEF Continued, Places, Owes, Owing
    <2> QED
        BY <2>1, <2>2
<1> QED
    BY <1>3, <1>4 DEF PlacesInv, ContinuedIfAlive

\* Driven as by HttpServer and main.cpp, each live flow that can still end has
\* exactly one event under way - in the pump, in a timer or at the worker - and
\* one without an event is an orphan of Stop or is being reclaimed.
THEOREM OneContinuationKept ==
    ASSUME SingleDispatcher, InitOnly
    PROVE  Spec => []OneContinuation
<1>1. IContinuation => OneContinuation
    BY PlacesAreOne DEF IContinuation, ContinuationInv
<1> QED
    BY <1>1, ContinuationInductive, PTL DEF Spec

\* Driven the same way, an event that is posted, by the worker or by a timer,
\* finds its FSM alive and in a state with a transition for it: DispatchToFsm
\* drops no message and ExecuteFsmTransition refuses none.
THEOREM EventsAreExpectedKept ==
    ASSUME SingleDispatcher, InitOnly
    PROVE  Spec => []EventsAreExpected
<1>1. ASSUME IContinuation PROVE EventsAreExpected
    <2>1. Threads = {Worker} /\ PumpFits /\ TimersFit /\ WorkerFits
        BY <1>1 DEF SingleDispatcher, Threads, IContinuation, ContinuationInv, FitInv
    <2>2. ASSUME NEW m \in InFlight, ~IsInit(m) PROVE Fits(m)
        BY <2>1, <2>2 DEF InFlight, PumpFits, TimersFit, WorkerFits
    <2> QED
        BY <2>2 DEF EventsAreExpected, Fits, HasRow, FindFsmTransition
<1> QED
    BY <1>1, ContinuationInductive, PTL DEF Spec
===============================================================================
