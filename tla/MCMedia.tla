------------------------------- MODULE MCMedia -------------------------------
(* Instance for TLC. *)
EXTENDS Media
=============================================================================
