---------------------- MODULE MCGatewayClassReconciler ----------------------
(* Two Gateways are enough for the first and the last reference to differ. *)
EXTENDS GatewayClassReconciler

CONSTANTS g1, g2

TwoGateways == {g1, g2}
=============================================================================
