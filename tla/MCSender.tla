------------------------------ MODULE MCSender ------------------------------
(* The instance of the command line sender for TLC is in sender.cfg. *)
EXTENDS Sender
============================================================================
