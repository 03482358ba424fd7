---------------------------- MODULE OneTimeTokens ----------------------------
(***************************************************************************)
(* What refresh rotation promises, without a database: a token is minted   *)
(* once, for one session, and can be exchanged once, for one new token of  *)
(* the same session.  Nothing is said of requests that fail: a token may   *)
(* be minted and never handed out, or handed out and never honoured.       *)
(***************************************************************************)
CONSTANTS Token, Sid, None

VARIABLES
    family,     \* the session a token was minted for, or None
    exchanged   \* <<old, new>> of every exchange

vars == <<family, exchanged>>

Init ==
    /\ family = [t \in Token |-> None]
    /\ exchanged = {}

Mint(t, s) ==
    /\ family[t] = None
    /\ family' = [family EXCEPT ![t] = s]
    /\ UNCHANGED exchanged

Exchange(old, new) ==
    /\ family[old] # None
    /\ family[new] = family[old]
    /\ \A g \in exchanged : g[1] # old /\ g[2] # new
    /\ exchanged' = exchanged \cup {<<old, new>>}
    /\ UNCHANGED family

Next ==
    \/ \E t \in Token, s \in Sid : Mint(t, s)
    \/ \E old, new \in Token : Exchange(old, new)

Spec == Init /\ [][Next]_vars
=============================================================================
