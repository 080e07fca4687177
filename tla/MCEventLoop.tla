---------------------------- MODULE MCEventLoop -----------------------------
(* Finite instances of EventLoop for TLC. *)
EXTENDS EventLoop
=============================================================================
