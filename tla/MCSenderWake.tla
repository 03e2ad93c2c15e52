---------------------------- MODULE MCSenderWake ----------------------------
(* Small instances of the wake-up protocol of a channel writer. *)
EXTENDS SenderWake
=============================================================================
