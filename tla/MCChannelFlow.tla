--------------------------- MODULE MCChannelFlow ---------------------------
(* Model checking ChannelFlow: a window that grows once. *)
EXTENDS ChannelFlow
=============================================================================
