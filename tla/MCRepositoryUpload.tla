--------------------------- MODULE MCRepositoryUpload ---------------------------
(* Two uploaders and two runs: a run meets another, or follows one that    *)
(* failed; a file of up to two chunks, changed twice: enough to change it  *)
(* behind and before a reader.  Uploaders and values are symmetric.        *)
EXTENDS RepositoryUpload, TLC

Symmetric == Permutations(Uploaders) \union Permutations(Values)
=============================================================================
