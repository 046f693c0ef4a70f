------------------------------- MODULE MCHub -------------------------------
(* Instance of the hub for TLC: both sessions may get an egress endpoint, s2 *)
(* publishes the main track.  The proofs are for any number of tracks.       *)
EXTENDS Hub

CONSTANTS s1, s2, t1

TwoSessions == {s1, s2}
OneTrack    == {t1}
OneOwner    == [t \in OneTrack |-> s2]
=============================================================================
