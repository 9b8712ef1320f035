-------------------------- MODULE MCGatewayRunLoop --------------------------
(* GatewayRunLoop with a session's lane of limit 1.                         *)
EXTENDS GatewayRunLoop

MCRawLimits == {1}

=============================================================================
