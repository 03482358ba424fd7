------------------------------ MODULE MCLockout ------------------------------
(* Small instance of Lockout for TLC. *)
EXTENDS Lockout, TLC

Symmetry == Permutations(Email) \cup Permutations(Ip) \cup Permutations(Req)
=============================================================================
