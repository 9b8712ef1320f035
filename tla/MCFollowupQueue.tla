--------------------------- MODULE MCFollowupQueue ---------------------------
(* FollowupQueue for model checking: each configuration names the modes,    *)
(* caps, policies and races it is about, and what is redelivered.           *)
EXTENDS FollowupQueue

\* Three messages, the last of which is delivered again at any time afterwards:
\* while it waits, in a turn, or dealt with.
LastTwice == <<1, 2, 3, 3>>

\* Every message comes once.
EachOnce == <<1, 2, 3>>

=============================================================================
