------------------------------ MODULE FactoryIds ------------------------------
(***************************************************************************)
(* One factory with ids of their real, finite width: _nextFsmId wraps, 0   *)
(* means "no FSM" in a message, and an id may be given again while its     *)
(* FSM is alive.  _fsm_list is the sequence it is in the code, so that     *)
(* which of two FSMs with one id is found is part of the model.            *)
(*                                                                         *)
(* One thread dispatches, a dispatch is one step (FsmManager has the steps *)
(* in it), and clients open flows, as HttpServer does.                     *)
(***************************************************************************)
EXTENDS FsmTables, SequencesExt

CONSTANTS
    IdModulus,        \* 2^32 in the code
    FSM_NUM_IN_FAC,   \* capacity of the factory
    Service,          \* the factory's service id
    MaxFlows          \* bound: MSG_INITs posted

ASSUME IdAssumption ==
    /\ IdModulus \in Nat \ {0, 1} /\ FSM_NUM_IN_FAC \in Nat /\ MaxFlows \in Nat
    /\ Service \in FactoryId

VARIABLES
    fsms,        \* _fsm_list; obj tells apart FSMs that have the same id
    nextFsmId,   \* _nextFsmId
    pump,        \* _pump
    sleeping,    \* the messages of timers, in any order
    posted,      \* MSG_INITs posted so far
    created,     \* history: FSMs created so far
    ended        \* history: FSMs reported, in order, and those erased for them

vars == <<fsms, nextFsmId, pump, sleeping, posted, created, ended>>

Ids  == 0..(IdModulus - 1)
Objs == 0..MaxFlows            \* 0: no object
Fsm  == [obj : Objs, id : Ids, state : Tstate]
Msg  == [type : MsgType, fsmId : Ids]

TypeOK ==
    /\ fsms \in Seq(Fsm) /\ nextFsmId \in Ids
    /\ pump \in Seq(Msg) /\ sleeping \in Seq(Msg)
    /\ posted \in 0..MaxFlows /\ created \in 0..MaxFlows
    /\ ended \in Seq([reported : Objs, erased : Objs])

Init ==
    /\ fsms = <<>> /\ nextFsmId = 1
    /\ pump = <<>> /\ sleeping = <<>>
    /\ posted = 0 /\ created = 0
    /\ ended = <<>>
-----------------------------------------------------------------------------
(* The list.                                                                *)

\* The places of the FSMs with an id.
WithId(list, id) == {i \in 1..Len(list) : list[i].id = id}

First(found) == CHOOSE i \in found : \A j \in found : i <= j

\* FindFsm: the place of the first FSM with the id, or 0.
FindFsm(id) == IF id = 0 \/ WithId(fsms, id) = {} THEN 0 ELSE First(WithId(fsms, id))

Full == Len(fsms) >= FSM_NUM_IN_FAC

NextId == (nextFsmId + 1) % IdModulus

\* Faulty variant: KillFsm takes the last FSM with the id.
PlaceToEraseLast(list, id) ==
    CHOOSE i \in WithId(list, id) : \A j \in WithId(list, id) : j <= i

\* std::find_if in KillFsm.
PlaceToErase(list, id) == First(WithId(list, id))
-----------------------------------------------------------------------------
(* A dispatch.                                                              *)

\* A client opens a flow.
Open ==
    /\ posted < MaxFlows /\ posted' = posted + 1
    /\ pump' = Append(pump, [type |-> "MSG_INIT", fsmId |-> 0])
    /\ UNCHANGED <<fsms, nextFsmId, sleeping, created, ended>>

\* Faulty variant: the message keeps the id it came with.
ContinuedAsBefore(row, msg, fsm) == [type |-> row.nextEvent, fsmId |-> msg.fsmId]

\* SendNextMsg and StartNextTimer address the next event to the FSM itself.
Continued(row, msg, fsm) == [type |-> row.nextEvent, fsmId |-> fsm.id]

PostNextEvent(row, msg, fsm) ==
    IF row.delayMs = 0
    THEN pump' = Append(Tail(pump), Continued(row, msg, fsm)) /\ UNCHANGED sleeping
    ELSE pump' = Tail(pump) /\ sleeping' = Append(sleeping, Continued(row, msg, fsm))

\* DispatchToFsm for the FSM at place i of the list.
DispatchToFsm(list, i, msg) ==
    LET fsm == list[i]
        rows == FindFsmTransition(Transitions(Service), fsm.state, msg.type)
    IN  \/ /\ rows = {} /\ fsms' = list /\ pump' = Tail(pump)
           /\ UNCHANGED <<sleeping, ended>>
        \/ \E row \in rows :
              \/ /\ row.hasNext /\ PostNextEvent(row, msg, fsm)
                 /\ fsms' = [list EXCEPT ![i].state = row.to]
                 /\ UNCHANGED ended
              \/ /\ ~row.hasNext /\ pump' = Tail(pump)
                 /\ LET place == PlaceToErase(list, fsm.id)
                    IN  /\ fsms' = RemoveAt([list EXCEPT ![i].state = row.to], place)
                        /\ ended' = Append(ended, [reported |-> fsm.obj, erased |-> list[place].obj])
                 /\ UNCHANGED sleeping

\* FacMsgPrc finds the FSM of the message,
ToKnown ==
    LET msg == Head(pump) IN
    /\ pump # <<>> /\ FindFsm(msg.fsmId) # 0
    /\ DispatchToFsm(fsms, FindFsm(msg.fsmId), msg)
    /\ UNCHANGED <<nextFsmId, posted, created>>

\* or creates one for MSG_INIT,
ToNew ==
    LET msg == Head(pump)
        fsm == [obj |-> created + 1, id |-> nextFsmId, state |-> "IDLE"]
    IN  /\ pump # <<>> /\ FindFsm(msg.fsmId) = 0
        /\ msg.type = "MSG_INIT" /\ ~Full
        /\ DispatchToFsm(Append(fsms, fsm), Len(fsms) + 1, msg)
        /\ created' = created + 1 /\ nextFsmId' = NextId
        /\ UNCHANGED posted

\* or drops the message.
Drop ==
    LET msg == Head(pump) IN
    /\ pump # <<>> /\ FindFsm(msg.fsmId) = 0
    /\ msg.type # "MSG_INIT" \/ Full
    /\ pump' = Tail(pump)
    /\ UNCHANGED <<fsms, nextFsmId, sleeping, posted, created, ended>>

TimerFires(i) ==
    /\ pump' = Append(pump, sleeping[i]) /\ sleeping' = RemoveAt(sleeping, i)
    /\ UNCHANGED <<fsms, nextFsmId, posted, created, ended>>

Next ==
    \/ Open \/ ToKnown \/ ToNew \/ Drop
    \/ \E i \in 1..Len(sleeping) : TimerFires(i)

Spec == Init /\ [][Next]_vars

\* The worker dispatches and timers fire; nobody has to open a flow.
FairSpec ==
    /\ Spec
    /\ WF_vars(ToKnown \/ ToNew \/ Drop)
    /\ WF_vars(\E i \in 1..Len(sleeping) : TimerFires(i))
-----------------------------------------------------------------------------
\* Whatever ids wrap to, the FSM that KillFsm destroys is the one that was
\* dispatched to and reported, and it is reported once.
KillsTheReported ==
    \A i \in 1..Len(ended) :
        /\ ended[i].erased = ended[i].reported
        /\ \A j \in 1..Len(ended) : ended[j].reported = ended[i].reported => i = j

\* FSMs that share an id have as many messages on their way as there are of them,
\* so each ends in the end, though perhaps with another's message; an FSM whose
\* id wrapped to 0 has none left once its first message was dropped.
AsManyMessagesAsFsms ==
    \A id \in Ids \ {0} :
        Cardinality(WithId(fsms, id)) =
            Cardinality({i \in 1..Len(pump) : pump[i].fsmId = id})
              + Cardinality({i \in 1..Len(sleeping) : sleeping[i].fsmId = id})

\* Every FSM ends unless its id wrapped to 0.
EveryFsmEnds ==
    \A o \in 1..MaxFlows :
        (\E i \in 1..Len(fsms) : fsms[i].obj = o /\ fsms[i].id # 0)
          ~> \A i \in 1..Len(fsms) : fsms[i].obj # o

=============================================================================
