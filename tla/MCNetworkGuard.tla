---------------------------- MODULE MCNetworkGuard ----------------------------
(* Small instance of NetworkGuard for TLC. *)
EXTENDS NetworkGuard, TLC

Symmetry == Permutations(Req)
=============================================================================
