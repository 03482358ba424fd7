----------------------------- MODULE MCDialects -----------------------------
(* Small instance of Dialects for TLC. *)
EXTENDS Dialects
=============================================================================
