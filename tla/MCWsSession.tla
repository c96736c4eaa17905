---------------------------- MODULE MCWsSession ----------------------------
(* Small instances of WsSession. *)
EXTENDS WsSession

CONSTANTS a, b

MCTopics == {a, b}
MCOneTopic == {a}

=============================================================================
