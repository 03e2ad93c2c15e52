------------------------------- MODULE MCLocalApi -------------------------------
(* Two programs that run as the service or as a one-shot command, one      *)
(* pairing key, two key pairs, one local client at a time.  The first      *)
(* endpoint has no TLS.                                                    *)
EXTENDS LocalApi, TLC

MCEndpoints == <<"lab", "us">>
MCSchemes == [lab |-> "http", us |-> "https", own |-> "http"]
MCSymmetry == Permutations(Procs)
=============================================================================
