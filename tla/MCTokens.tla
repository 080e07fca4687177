------------------------------ MODULE MCTokens ------------------------------
(* Characters of Tokens for TLC. *)
EXTENDS Tokens

CONSTANTS a, b
=============================================================================
