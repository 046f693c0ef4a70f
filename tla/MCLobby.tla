------------------------------ MODULE MCLobby ------------------------------
(* Model values of the lobby specification for TLC. *)
EXTENDS Lobby, TLC

CONSTANTS l1, l2, s1, s2, s3, u1, u2, r1, r2, r3, w1, w2

TwoLobbies    == {l1, l2}
OneLobby      == {l1}
ThreeSessions == {s1, s2, s3}
TwoSessions   == {s1, s2}
OneUser       == {u1}
TwoUsers      == {u1, u2}
TwoRequests   == {r1, r2}
ThreeRequests == {r1, r2, r3}
TwoWatchers   == {w1, w2}
OneWatcher    == {w1}

\* Sound for the safety runs only.
Symmetry == Permutations(Lobby) \cup Permutations(Session) \cup Permutations(User)
            \cup Permutations(Request) \cup Permutations(Watcher)
=============================================================================
