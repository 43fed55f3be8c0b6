------------------------- MODULE MCGracefulShutdown -------------------------
(* Instances of GracefulShutdown for TLC.                                  *)
EXTENDS GracefulShutdown, TLC

Symm == Permutations(Servers) \cup Permutations(Calls)
=============================================================================
