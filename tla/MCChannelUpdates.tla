------------------------- MODULE MCChannelUpdates -------------------------
(* Model values for ChannelUpdates: updates of one or two points. *)
EXTENDS ChannelUpdates

MCCounts == {1, 2}
=============================================================================
