------------------------- MODULE MCChannelLifecycle -------------------------
(* Two endpoints; a opens two channels, b opens one. *)
EXTENDS ChannelLifecycle, TLC

CONSTANTS a, b, c1, c2, c3

MCCaller == (c1 :> a) @@ (c2 :> a) @@ (c3 :> b)

MCCallerA == (c1 :> a) @@ (c2 :> a)
=============================================================================
