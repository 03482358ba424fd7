---------------------------- MODULE MCPasskeys ----------------------------
(* Small instance of Passkeys for TLC. *)
EXTENDS Passkeys, TLC

Symmetry == Permutations(User) \cup Permutations(RegChallenge)
            \cup Permutations(LoginChallenge) \cup Permutations(Req)
=============================================================================
