---------------------------- MODULE MCVideoAccess ----------------------------
(* Instance for TLC: one server with one sound key document. *)
EXTENDS VideoAccess, TLC

CONSTANTS peer

MCServer == {peer}

MCDocument ==
  [s \in MCServer |->
     [type |-> "Application", named |-> TRUE, id |-> s,
      keys |-> <<[embedded |-> TRUE, owner |-> s, pem |-> "pkix", pair |-> s]>>]]

MCSymmetry == Permutations(Worker) \cup Permutations(Video)
=============================================================================
