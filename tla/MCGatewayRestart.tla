-------------------------- MODULE MCGatewayRestart --------------------------
(* GatewayRestart with two dispatchers; see GatewayRestart.cfg for its bounds. *)
EXTENDS GatewayRestart

=============================================================================
