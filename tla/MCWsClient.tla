----------------------------- MODULE MCWsClient -----------------------------
(* A small instance of WsClient. *)
EXTENDS WsClient

CONSTANTS c1, c2

MCCallers == {c1, c2}

=============================================================================
