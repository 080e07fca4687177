--------------------------- MODULE MCRegistration ---------------------------
(* Model values and finite instances of Registration for TLC. *)
EXTENDS Registration

CONSTANTS c1, c2, secret

\* The server is started with a password.
MCServerPass == [colon |-> FALSE, text |-> secret]
=============================================================================
