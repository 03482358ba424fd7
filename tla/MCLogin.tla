------------------------------ MODULE MCLogin ------------------------------
(* Small instance of Login for TLC. *)
EXTENDS Login, TLC

Symmetry ==
    Permutations(Secret) \cup Permutations(Code) \cup Permutations(Req)
        \cup Permutations(Password)

\* Bound: a password that was replaced is not chosen again.
PasswordsAreNew == replaced[password] = None

\* Bound: nothing is followed past a second kind of overlap.
FewOverlaps == Cardinality(raced) <= 1
=============================================================================
