----------------------------- MODULE MessagePump -----------------------------
(***************************************************************************)
(* What FsmManager assumes of the pump of Cfactory_mgr: a queue that posts *)
(* enter while it is open, and threads in Run that take whatever is queued *)
(* and leave when it is closed and drained.  No lock, no sleep, no wake-up:*)
(* a thread in the loop takes as soon as there is something to take.       *)
(***************************************************************************)
EXTENDS Naturals

CONSTANTS Worker, Callers     \* the thread of Start; threads that call Run

Runners == {Worker} \cup Callers

VARIABLES pump, stopped, phase

vars == <<pump, stopped, phase>>

Init == pump = 0 /\ stopped = FALSE /\ phase = [r \in Runners |-> "none"]

Accept == ~stopped /\ pump' = pump + 1 /\ UNCHANGED <<stopped, phase>>

PumpOnce == pump > 0 /\ pump' = pump - 1 /\ UNCHANGED <<stopped, phase>>

Move(r, from, to) == phase[r] = from /\ phase' = [phase EXCEPT ![r] = to]

Take(r)   == Move(r, "loop", "dispatch") /\ pump > 0 /\ pump' = pump - 1 /\ UNCHANGED stopped
Finish(r) == Move(r, "dispatch", "loop") /\ UNCHANGED <<pump, stopped>>
Leave(r)  == Move(r, "loop", "exited") /\ stopped /\ pump = 0 /\ UNCHANGED <<pump, stopped>>
Gone(r)   == Move(r, "exited", "none") /\ UNCHANGED <<pump, stopped>>

Start      == Move(Worker, "none", "loop") /\ stopped' = FALSE /\ UNCHANGED pump
CallRun(r) == r \in Callers /\ Move(r, "none", "loop") /\ UNCHANGED <<pump, stopped>>
Stop       == stopped' = TRUE /\ UNCHANGED <<pump, phase>>

Next ==
    \/ Accept \/ PumpOnce \/ Start \/ Stop
    \/ \E r \in Runners : Take(r) \/ Finish(r) \/ Leave(r) \/ Gone(r) \/ CallRun(r)

\* What is queued is taken as long as somebody is in the loop, a dispatch ends,
\* and on a closed and drained queue everybody leaves.
Spec ==
    /\ Init /\ [][Next]_vars
    /\ WF_vars(\E r \in Runners : Take(r))
    /\ \A r \in Runners : WF_vars(Finish(r)) /\ WF_vars(Leave(r))
=============================================================================
