---------------------------- MODULE TimerService ----------------------------
(***************************************************************************)
(* What TimerManager promises: a started timer goes off once, in the end,  *)
(* unless it is cancelled before that; a timer that went off posts its     *)
(* message once, and cancelling it in between changes nothing.             *)
(***************************************************************************)
VARIABLES
    pending,   \* started timers
    due,       \* timers that went off and have not posted yet
    posted     \* timers that posted their message

vars == <<pending, due, posted>>

Init == pending = {} /\ due = {} /\ posted = {}

Known == pending \cup due \cup posted

Begin(o) ==
    /\ o \notin Known
    /\ pending' = pending \cup {o}
    /\ UNCHANGED <<due, posted>>

\* A cancelled timer is forgotten.
Cancel(objs) ==
    /\ pending' = pending \ objs
    /\ UNCHANGED <<due, posted>>

GoOff(o) ==
    /\ o \in pending
    /\ pending' = pending \ {o}
    /\ due' = due \cup {o}
    /\ UNCHANGED posted

Deliver(o) ==
    /\ o \in due
    /\ due' = due \ {o}
    /\ posted' = posted \cup {o}
    /\ UNCHANGED pending

Next ==
    \/ \E o \in pending' \cup due : Begin(o) \/ Deliver(o)
    \/ \E o \in pending : GoOff(o)
    \/ \E objs \in SUBSET pending : Cancel(objs)

\* Timers go on going off and posting as long as there are any.
Spec ==
    /\ Init /\ [][Next]_vars
    /\ WF_vars(\E o \in pending : GoOff(o))
    /\ WF_vars(\E o \in due : Deliver(o))
=============================================================================
