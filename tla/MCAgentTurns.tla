---------------------------- MODULE MCAgentTurns ----------------------------
(* AgentTurns with two sessions; see AgentTurns.cfg for its bounds.          *)
EXTENDS AgentTurns

MCConfigLimits == [l \in {Main, Subagent, Cron} |-> IF l = Main THEN 2 ELSE 0]
MCLanes == Sessions \cup {Main, Subagent, Nested, Cron}

=============================================================================
