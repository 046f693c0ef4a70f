------------------------------- MODULE Rooms -------------------------------
(***************************************************************************)
(* What the lobbies of one id promise to the people in them, whatever       *)
(* goroutines, channels and locks bring it about: there is at most one open *)
(* room; a person takes part in it with at most one session; a session      *)
(* takes part once, and in one room only; and a room that was closed has    *)
(* nobody in it and is never opened again.                                  *)
(***************************************************************************)
CONSTANTS Room, NoRoom, Session, Person

VARIABLES
  room,     \* the open room, or NoRoom
  opened,   \* every room that was ever opened
  members,  \* the sessions that take part in the open room
  born,     \* every session that ever took part
  user      \* user[s]: whose session s is

roomVars == <<room, opened, members, born, user>>

Init ==
  /\ room = NoRoom
  /\ opened = {}
  /\ members = {}
  /\ born = {}
  /\ user \in [Session -> Person]

Open(r) ==
  /\ room = NoRoom
  /\ r \notin opened
  /\ room' = r
  /\ opened' = opened \cup {r}
  /\ UNCHANGED <<members, born, user>>

Join(s, u) ==
  /\ room # NoRoom
  /\ s \notin born
  /\ \A m \in members : user[m] # u
  /\ members' = members \cup {s}
  /\ born' = born \cup {s}
  /\ user' = [user EXCEPT ![s] = u]
  /\ UNCHANGED <<room, opened>>

Leave(s) ==
  /\ s \in members
  /\ members' = members \ {s}
  /\ UNCHANGED <<room, opened, born, user>>

Close ==
  /\ room # NoRoom
  /\ room' = NoRoom
  /\ members' = {}
  /\ UNCHANGED <<opened, born, user>>

Next ==
  \/ \E r \in Room : Open(r)
  \/ \E s \in Session, u \in Person : Join(s, u)
  \/ \E s \in Session : Leave(s)
  \/ Close

Spec == Init /\ [][Next]_roomVars
=============================================================================
