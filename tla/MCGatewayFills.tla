--------------------------- MODULE MCGatewayFills ---------------------------
(* Small instances of GatewayFills. *)
EXTENDS GatewayFills

CONSTANTS o1, o2

MCOrders == {o1, o2}
MCForeign == {o2}
MCNone == {}

=============================================================================
