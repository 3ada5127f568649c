---------------------------- MODULE MCHttpServer ----------------------------
(* Small instances of HttpServer for TLC.                                   *)
EXTENDS HttpServer, FsmTables, TLC

CONSTANTS r1, r2, r3

\* Two registrations and an authentication.
Routes == (r1 :> FAC_REG_FAC_ID) @@ (r2 :> FAC_AUTH_FAC_ID) @@ (r3 :> FAC_REG_FAC_ID)

\* A registration and an authentication bring one session id, which the server
\* may generate for the second registration.
SameChosen == [r \in Requests |-> IF r \in {r1, r2} THEN 1 ELSE 0]
=============================================================================
