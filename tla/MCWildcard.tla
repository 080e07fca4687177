----------------------------- MODULE MCWildcard -----------------------------
(* Characters of Wildcard for TLC. *)
EXTENDS Wildcard

CONSTANTS a, b
=============================================================================
