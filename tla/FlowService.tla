----------------------------- MODULE FlowService -----------------------------
(***************************************************************************)
(* What the manager promises its clients, without pump, threads, FSM states*)
(* or timers: a flow is opened for a session under a fresh id while its    *)
(* service has room, and ends at most once, with a completion event that   *)
(* names that session and reports success.                                 *)
(***************************************************************************)
EXTENDS FsmTables, Sequences, FiniteSets

CONSTANT Capacity        \* flows one service runs at a time

VARIABLES
    flows,    \* the flows that are open: <<serviceId, fsmId>> -> sessionId
    ended     \* the completion events, in the order they were reported

vars == <<flows, ended>>

Flow == FactoryId \X (Nat \ {0})

Event(h, session) ==
    [serviceId |-> h[1], fsmId |-> h[2], sessionId |-> session,
     result |-> "SUCCESS", finalEvent |-> "MSG_CLOSE"]

Ended(h) == \E i \in 1..Len(ended) : <<ended[i].serviceId, ended[i].fsmId>> = h

Init == flows = [h \in {} |-> 0] /\ ended = <<>>

Open(h, session) ==
    /\ h \in Flow \ DOMAIN flows /\ ~Ended(h)
    /\ Cardinality({g \in DOMAIN flows : g[1] = h[1]}) < Capacity
    /\ flows' = [g \in DOMAIN flows \cup {h} |-> IF g = h THEN session ELSE flows[g]]
    /\ UNCHANGED ended

End(h) ==
    /\ h \in DOMAIN flows
    /\ ended' = Append(ended, Event(h, flows[h]))
    /\ flows' = [g \in DOMAIN flows \ {h} |-> flows[g]]

\* Any id and any session may be the new flow's.  They are read from the next
\* state, so that TLC can check a step without enumerating Flow and Nat.
Next ==
    \/ \E h \in DOMAIN flows' : \E session \in {flows'[h]} : Open(h, session)
    \/ \E h \in DOMAIN flows : End(h)

Spec == Init /\ [][Next]_vars
=============================================================================
