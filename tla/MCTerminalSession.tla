------------------------- MODULE MCTerminalSession -------------------------
(* The graces keep the order of 2, 5 and 8 seconds. *)
EXTENDS TerminalSession

=============================================================================
