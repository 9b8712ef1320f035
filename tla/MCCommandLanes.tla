--------------------------- MODULE MCCommandLanes ---------------------------
(* CommandLanes with two lanes.  Limits 0, 1 and 2 are configured: 0 is     *)
(* clamped, 2 lets calls of a lane overlap and can be lowered again.        *)
EXTENDS CommandLanes

MCRawLimits == {0, 2}

=============================================================================
