------------------------------- MODULE MCEmails -------------------------------
(* Small instance of Emails for TLC. *)
EXTENDS Emails, TLC

Symmetry == Permutations(User)
            \cup Permutations(Token) \cup Permutations(Req)
=============================================================================
