---------------------------- MODULE MCAccessTokens ----------------------------
(* Small instance of AccessTokens for TLC: every session belongs to one user. *)
EXTENDS AccessTokens, TLC

CONSTANT u1

MCOwner == [s \in Sid |-> u1]

Symmetry == Permutations(Sid) \cup Permutations(Jti) \cup Permutations(Req)
=============================================================================
