-------------------------- MODULE OneTimeChallenges --------------------------
(***************************************************************************)
(* What a WebAuthn ceremony promises, without a store or a database: a     *)
(* challenge is made out to one user, and is good for one result, which is *)
(* that user's.  Nothing is said of ceremonies that fail.                  *)
(***************************************************************************)
EXTENDS Sequences

CONSTANTS Challenge, User, None

VARIABLES
    owner,      \* the user a challenge was made out to, or None
    results     \* <<challenge, user>> of every passkey stored and session opened, in turn

vars == <<owner, results>>

Init ==
    /\ owner = [ch \in Challenge |-> None]
    /\ results = <<>>

Issue(ch, u) ==
    /\ owner[ch] = None
    /\ owner' = [owner EXCEPT ![ch] = u]
    /\ UNCHANGED results

Complete(ch) ==
    /\ owner[ch] # None
    /\ \A i \in DOMAIN results : results[i][1] # ch
    /\ results' = Append(results, <<ch, owner[ch]>>)
    /\ UNCHANGED owner

Next ==
    \/ \E ch \in Challenge, u \in User : Issue(ch, u)
    \/ \E ch \in Challenge : Complete(ch)

Spec == Init /\ [][Next]_vars
=============================================================================
