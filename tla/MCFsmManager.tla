---------------------------- MODULE MCFsmManager ----------------------------
(* Small instances of FsmManager for TLC.                                   *)
EXTENDS FsmManager

Msg(type, s, id, session) ==
    [type |-> type, serviceId |-> s, fsmId |-> id, sessionId |-> session]

\* What the HTTP server posts: two sessions of one service and one of the other.
RegOnly  == {Msg("MSG_INIT", FAC_REG_FAC_ID, 0, 1)}
HttpMsgs ==
    RegOnly
      \cup {Msg("MSG_INIT", FAC_REG_FAC_ID, 0, 2), Msg("MSG_INIT", FAC_AUTH_FAC_ID, 0, 1)}

\* What the public SendMsg lets any client post: MSG_INIT for a new and for a
\* known id, events out of turn for the first FSM, a service nobody registered.
ApiMsgs ==
    RegOnly
      \cup {Msg(e, FAC_REG_FAC_ID, 1, 2) : e \in {"MSG_INIT", "MSG_RESP", "MSG_CLOSE"}}
      \cup {Msg("MSG_INIT", 4, 0, 1)}

\* The application calls PumpOnce itself, as the tests do, only while it has no
\* worker.
Alone == joinable => \A t \in Pumpers : pc[t] = "idle"
AloneSpec == Init /\ [][Next /\ Alone']_vars
=============================================================================
