------------------------------ MODULE FsmTables ------------------------------
(***************************************************************************)
(* The vocabulary of the framework (common.h, CMsg.h) and the two          *)
(* transition tables it ships (RegFsm.cpp, AuthFsm.cpp), with the lookup   *)
(* of FsmTableExecutor.h.  A table is a set of rows: no table has two rows *)
(* for the same state and event (TablesDeterministic), so the first row    *)
(* that matches is the only one.  The row's log text and action are left   *)
(* out: every action only logs.                                            *)
(***************************************************************************)
EXTENDS Naturals

FAC_REG_FAC_ID  == 1
FAC_AUTH_FAC_ID == 3
FactoryId       == {FAC_REG_FAC_ID, FAC_AUTH_FAC_ID}

MsgType == {"MSG_INIT", "MSG_CONNECT", "MSG_REQ", "MSG_RESP", "MSG_TIMEOUT", "MSG_CLOSE"}
Tstate  == {"IDLE", "WORKING", "KILL_FSM"}
EerrNo  == {"INIT", "SUCCESS", "ERROR", "INVALID_STATE", "INVALID_MSG", "TIMER_ERROR"}

\* A message without its payload, which no code of the framework reads.
CMsg == [type : MsgType, serviceId : Nat, fsmId : Nat, sessionId : Nat]

Row(from, event, to, hasNext, nextEvent, delayMs) ==
    [from |-> from, event |-> event, to |-> to,
     hasNext |-> hasNext, nextEvent |-> nextEvent, delayMs |-> delayMs]

RegTransitions ==
    { Row("IDLE",    "MSG_INIT",    "WORKING",  TRUE,  "MSG_CONNECT", 0),
      Row("WORKING", "MSG_CONNECT", "WORKING",  TRUE,  "MSG_REQ",     0),
      Row("WORKING", "MSG_REQ",     "WORKING",  TRUE,  "MSG_RESP",    0),
      Row("WORKING", "MSG_RESP",    "WORKING",  TRUE,  "MSG_TIMEOUT", 100),
      Row("WORKING", "MSG_TIMEOUT", "WORKING",  TRUE,  "MSG_CLOSE",   0),
      Row("WORKING", "MSG_CLOSE",   "KILL_FSM", FALSE, "MSG_CLOSE",   0) }

AuthTransitions ==
    { Row("IDLE",    "MSG_INIT",    "WORKING",  TRUE,  "MSG_CONNECT", 0),
      Row("WORKING", "MSG_CONNECT", "WORKING",  TRUE,  "MSG_REQ",     0),
      Row("WORKING", "MSG_REQ",     "WORKING",  TRUE,  "MSG_RESP",    0),
      Row("WORKING", "MSG_RESP",    "WORKING",  TRUE,  "MSG_CLOSE",   100),
      Row("WORKING", "MSG_CLOSE",   "KILL_FSM", FALSE, "MSG_CLOSE",   0) }

\* A RegFactory creates RegFsm objects, an AuthFactory AuthFsm objects.
Transitions(serviceId) ==
    IF serviceId = FAC_REG_FAC_ID THEN RegTransitions ELSE AuthTransitions

\* The row for a state and an event: a singleton, or empty where the code
\* returns nullptr.
FindFsmTransition(transitions, state, event) ==
    {row \in transitions : row.from = state /\ row.event = event}

TablesDeterministic ==
    \A s \in FactoryId : \A r1, r2 \in Transitions(s) :
        (r1.from = r2.from /\ r1.event = r2.event) => r1 = r2
=============================================================================
