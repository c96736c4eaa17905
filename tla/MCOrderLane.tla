---------------------------- MODULE MCOrderLane ----------------------------
(* OrderLane in units of 625 ms: pacing 2 (1.25 s), cooldown 8 (5 s) to 48 (30 s). *)
EXTENDS OrderLane

CONSTANTS leg1, leg2

MCLegs == {leg1, leg2}

=============================================================================
