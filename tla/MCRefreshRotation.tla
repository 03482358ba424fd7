-------------------------- MODULE MCRefreshRotation --------------------------
(* Small instance of RefreshRotation for TLC. *)
EXTENDS RefreshRotation, TLC

Symmetry == Permutations(Sid) \cup Permutations(Token) \cup Permutations(Req)
=============================================================================
