----------------------------- MODULE MCClients -----------------------------
(* Small instance of Clients for TLC. *)
EXTENDS Clients

\* The bound on the tokens must never be what stops a rotation.
ASSUME TokensSuffice == Cardinality(Token) >= Cardinality(Sid) + MaxCalls
=============================================================================
