----------------------------- MODULE MCSession -----------------------------
(* The session specification, bounded for TLC. *)
EXTENDS Session
=============================================================================
