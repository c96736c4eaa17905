--------------------------- MODULE MCRestRequest ---------------------------
(* Small instances of RestRequest. *)
EXTENDS RestRequest

CONSTANTS r1, r2

MCRequests == {r1, r2}

=============================================================================
