--------------------------- MODULE MCConnectionLoop ---------------------------
(* Instances of ConnectionLoop for TLC; the bounds are in the cfg files.   *)
EXTENDS ConnectionLoop

=============================================================================
