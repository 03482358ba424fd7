---------------------------- MODULE MCCredentials ----------------------------
(* Small instance of Credentials for TLC. *)
EXTENDS Credentials, TLC

Symmetry == Permutations(Sid) \cup Permutations(ResetToken)
            \cup Permutations(Req) \cup Permutations(Password)
=============================================================================
