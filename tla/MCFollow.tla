------------------------------ MODULE MCFollow ------------------------------
(* Instance for TLC: a peer whose first key is only named and whose second   *)
(* is in order, and an odd one that lists another kind of key before its RSA *)
(* key: it can be followed, but Verify refuses what it signs.                *)
EXTENDS Follow

CONSTANTS peer, odd

MCServer == {peer, odd}

RSA(s, pem) == [embedded |-> TRUE, owner |-> s, pem |-> pem, pair |-> s]

MCDocument ==
  [s \in MCServer |->
     [type  |-> "Application", named |-> TRUE, id |-> s,
      keys  |-> IF s = peer THEN <<[RSA(s, "pkix") EXCEPT !.embedded = FALSE], RSA(s, "pkix")>>
                ELSE <<RSA(s, "ecdsa"), RSA(s, "pkix")>>]]

MCTrusted == <<peer>>

\* The peer encloses a follow that is not its own; the odd one names some follow.
MCClaim ==
  {[from |-> peer, form |-> "object", target |-> odd],
   [from |-> odd, form |-> "iri", target |-> Nobody]}
=============================================================================
