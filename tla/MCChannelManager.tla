-------------------------- MODULE MCChannelManager --------------------------
(* ChannelManager with one account; see ChannelManager.cfg for its bounds.   *)
EXTENDS ChannelManager

=============================================================================
