---------------------------- MODULE VideoProofs ----------------------------
(***************************************************************************)
(* Proofs about the video service and the stream access it gives, for any   *)
(* number of workers, videos and guests.                                    *)
(*                                                                          *)
(* Nothing locks the tables.  What can be said of a video whose handling    *)
(* was not disturbed rests on this: one worker at most is on it, only that  *)
(* worker touches its row, its streams and its lobby, and what the worker   *)
(* looked up in one step is therefore still so when it uses it in another.  *)
(***************************************************************************)
EXTENDS VideoAccess, FiniteSetTheorems, SequenceTheorems, WellFoundedInduction, TLAPS

Activity == [id : Nat, from : Server, stated : {"rsa-sha256"}, used : {"rsa-sha256"},
             type : {"Announce", "Update", "Delete"}, video : Video, active : BOOLEAN,
             guests : SUBSET Guest]

Local == [people : BOOLEAN, inst : BOOLEAN, guests : SUBSET Guest, account : BOOLEAN,
          space : BOOLEAN, lobby : Nat]

\* Where a worker has not changed the video yet, and where it gives access to it.
Before == {"verify", "handle", "save"}
Giving == {"account", "space", "lobby", "create"}

State == {"idle", "access", "revoke"} \cup Before \cup Giving

\* The inbox and its workers.
InboxTypes ==
  /\ up \in BOOLEAN
  /\ kills \in 0..MaxKills
  /\ silent \subseteq Fragile
  /\ posted \in 0..MaxPosts
  /\ waiting \subseteq Activity
  /\ wpc \in [Worker -> State]
  /\ wjob \in [Worker -> Activity \cup {NoJob}]

\* Every activity waits once or is with one worker.
OneHolder ==
  /\ \A p \in waiting : p.id \in 1..posted
  /\ \A p, q \in waiting : p.id = q.id => p = q
  /\ \A w \in Worker : wjob[w] = NoJob <=> wpc[w] = "idle"
  /\ \A w \in Worker : wjob[w] # NoJob =>
       wjob[w].id \in 1..posted /\ \A p \in waiting : p.id # wjob[w].id
  /\ \A v, w \in Worker : wjob[v] # NoJob /\ wjob[w] # NoJob /\ wjob[v].id = wjob[w].id => v = w

\* The tables and what the workers have put together.
TableTypes ==
  /\ videos \in [Video -> (SUBSET Guest) \cup {NotStored}]
  /\ accounts \subseteq Guest \cup {Owner}
  /\ space \in BOOLEAN
  /\ lobbies \in Seq(Video)
  /\ local \in [Worker -> Local]
  /\ disturbed \subseteq Video

LobbiesOf(v) == {i \in DOMAIN lobbies : lobbies[i] = v}

\* A stream refers to a lobby made for its video, and so does a worker that found one.
OwnLobby ==
  /\ \A s \in streams : s.video \in Video /\ s.lobby \in LobbiesOf(s.video)
  /\ \A w \in Worker : wpc[w] = "create" /\ local[w].lobby # 0 => local[w].lobby \in LobbiesOf(Of(w))

\* Nobody has begun to change v: stored means accessible, also for its guests.
Settled(v) ==
  /\ videos[v] # NotStored <=> Rows(v) # {}
  /\ videos[v] # NotStored => videos[v] \subseteq accounts

\* How far the worker on v has come.
Stage(w, v) ==
  /\ wpc[w] = "access" => videos[v] # NotStored /\ videos[v] \subseteq accounts \cup local[w].guests
  /\ wpc[w] \in Giving => videos[v] # NotStored /\ videos[v] \subseteq accounts
  /\ wpc[w] = "create" /\ local[w].lobby = 0 => LobbiesOf(v) = {}
  /\ wpc[w] = "revoke" => videos[v] = NotStored

\* What holds of a video that is not disturbed.
Sound(v) ==
  /\ \A w, x \in Busy(v) : w = x
  /\ (\A w \in Busy(v) : wpc[w] \in Before) => Settled(v)
  /\ \A w \in Busy(v) : Stage(w, v)
  /\ \A i, j \in LobbiesOf(v) : i = j

AllSound == \A v \in Video \ disturbed : Sound(v)

\* The inductive invariant.
IInv ==
  /\ InboxTypes
  /\ OneHolder
  /\ TableTypes
  /\ OwnLobby
  /\ AllSound
-----------------------------------------------------------------------------
USE InboxAssumption, VideoAssumption DEF poolVars, inboxVars, tables

(* The inbox. *)

\* An activity is no empty job.
LEMMA ActivityIsJob ==
  ASSUME NEW p \in Activity, p.id # 0
  PROVE  p # NoJob
  BY DEF NoJob

\* A worker that does not idle has an activity, of a video.
LEMMA JobOf ==
  ASSUME InboxTypes, OneHolder, NEW w \in Worker, wpc[w] # "idle"
  PROVE  wjob[w] # NoJob /\ wjob[w] \in Activity /\ Of(w) \in Video
  <1>1. wjob[w] # NoJob /\ wjob[w] \in Activity
    BY DEF InboxTypes, OneHolder
  <1> QED BY <1>1 DEF Activity, Of

LEMMA InboxKept ==
  ASSUME InboxTypes, OneHolder, UNCHANGED inboxVars
  PROVE  InboxTypes' /\ OneHolder'
  BY DEF InboxTypes, OneHolder

\* A new activity has a new number.
LEMMA AddKeeps ==
  ASSUME InboxTypes, OneHolder, NEW p \in Activity, p.id = posted + 1, AddToQueue(p)
  PROVE  InboxTypes' /\ OneHolder'
  <1>1. posted \in Nat /\ posted' = posted + 1 /\ posted' \in 0..MaxPosts
    BY DEF AddToQueue, InboxTypes
  <1>2. waiting' = waiting \cup {p} /\ UNCHANGED <<up, kills, silent, wpc, wjob>>
    BY DEF AddToQueue
  <1>3. InboxTypes'
    BY <1>1, <1>2 DEF InboxTypes
  <1>4. \A n \in 1..posted : n # p.id /\ n \in 1..posted'
    BY <1>1
  <1>5. p.id \in 1..posted'
    BY <1>1
  <1>6. OneHolder'
    <2>1. (\A q \in waiting : q.id \in 1..posted)' /\ (\A q, r \in waiting : q.id = r.id => q = r)'
      BY <1>2, <1>4, <1>5 DEF OneHolder
    <2>2. (\A w \in Worker : wjob[w] # NoJob =>
             wjob[w].id \in 1..posted /\ \A q \in waiting : q.id # wjob[w].id)'
      BY <1>2, <1>4 DEF OneHolder
    <2> QED BY <1>2, <2>1, <2>2 DEF OneHolder
  <1> QED BY <1>3, <1>6

\* A worker takes an activity: nobody else has it.
LEMMA TakeKeeps ==
  ASSUME InboxTypes, OneHolder, NEW w \in Worker, TakeJob(w)
  PROVE  /\ InboxTypes' /\ OneHolder'
         /\ wjob[w] = NoJob /\ wjob'[w] # NoJob /\ wjob'[w].video \in Video
         /\ wpc'[w] = "verify"
         /\ \A x \in Worker : x # w => wjob'[x] = wjob[x] /\ wpc'[x] = wpc[x]
  <1>1. PICK p \in waiting : /\ waiting' = waiting \ {p}
                             /\ wjob' = [wjob EXCEPT ![w] = p]
                             /\ wpc' = [wpc EXCEPT ![w] = "verify"]
    BY DEF TakeJob
  <1>2. p \in Activity /\ p # NoJob /\ p.id \in 1..posted /\ p.video \in Video
    <2>1. p \in Activity /\ p.id \in 1..posted /\ p.id # 0
      BY DEF InboxTypes, OneHolder
    <2> QED BY <2>1, ActivityIsJob DEF Activity
  <1>3. wpc[w] = "idle" /\ wjob[w] = NoJob /\ UNCHANGED <<up, kills, silent, posted>>
    BY DEF TakeJob, OneHolder
  <1>4. /\ wjob'[w] = p /\ wpc'[w] = "verify"
        /\ \A x \in Worker : x # w => wjob'[x] = wjob[x] /\ wpc'[x] = wpc[x]
    BY <1>1 DEF InboxTypes
  <1>5. InboxTypes'
    BY <1>1, <1>2, <1>3 DEF InboxTypes, State, Before
  <1>6. OneHolder'
    <2>1. (\A q \in waiting : q.id \in 1..posted)' /\ (\A q, r \in waiting : q.id = r.id => q = r)'
      BY <1>1, <1>3 DEF OneHolder
    <2>2. (\A v \in Worker : wjob[v] = NoJob <=> wpc[v] = "idle")'
      BY <1>2, <1>4 DEF OneHolder
    <2>3. (\A v \in Worker : wjob[v] # NoJob =>
             wjob[v].id \in 1..posted /\ \A q \in waiting : q.id # wjob[v].id)'
      BY <1>1, <1>2, <1>3, <1>4 DEF OneHolder
    <2>4. (\A v, x \in Worker : wjob[v] # NoJob /\ wjob[x] # NoJob /\ wjob[v].id = wjob[x].id => v = x)'
      BY <1>1, <1>2, <1>3, <1>4 DEF OneHolder
    <2> QED BY <2>1, <2>2, <2>3, <2>4 DEF OneHolder
  <1> QED BY <1>2, <1>3, <1>4, <1>5, <1>6

LEMMA FreeKeeps ==
  ASSUME InboxTypes, OneHolder, NEW w \in Worker, FreeWorker(w)
  PROVE  /\ InboxTypes' /\ OneHolder'
         /\ wjob'[w] = NoJob /\ wpc'[w] = "idle"
         /\ \A x \in Worker : x # w => wjob'[x] = wjob[x] /\ wpc'[x] = wpc[x]
  <1>1. /\ wjob'[w] = NoJob /\ wpc'[w] = "idle"
        /\ \A x \in Worker : x # w => wjob'[x] = wjob[x] /\ wpc'[x] = wpc[x]
        /\ UNCHANGED <<up, kills, silent, posted, waiting>>
    BY DEF FreeWorker, InboxTypes
  <1>2. InboxTypes'
    BY <1>1 DEF FreeWorker, InboxTypes, State
  <1>3. OneHolder'
    BY <1>1 DEF OneHolder
  <1> QED BY <1>1, <1>2, <1>3

LEMMA StepKeeps ==
  ASSUME InboxTypes, OneHolder, NEW w \in Worker, wpc[w] # "idle",
         NEW state \in State \ {"idle"}, StepWorker(w, state)
  PROVE  /\ InboxTypes' /\ OneHolder'
         /\ wjob' = wjob /\ wpc'[w] = state
         /\ \A x \in Worker : x # w => wpc'[x] = wpc[x]
  <1>1. /\ wpc'[w] = state
        /\ \A x \in Worker : x # w => wpc'[x] = wpc[x]
        /\ UNCHANGED <<up, kills, silent, posted, waiting, wjob>>
    BY DEF StepWorker, InboxTypes
  <1>2. InboxTypes'
    BY <1>1 DEF StepWorker, InboxTypes
  <1>3. OneHolder'
    BY <1>1 DEF OneHolder
  <1> QED BY <1>1, <1>2, <1>3

LEMMA DieKeeps ==
  ASSUME InboxTypes, Die, kills' \in 0..MaxKills
  PROVE  InboxTypes' /\ OneHolder' /\ \A w \in Worker : wjob'[w] = NoJob /\ wpc'[w] = "idle"
  <1>1. waiting' = {} /\ \A w \in Worker : wjob'[w] = NoJob /\ wpc'[w] = "idle"
    BY DEF Die
  <1>2. wpc' \in [Worker -> State] /\ wjob' \in [Worker -> Activity \cup {NoJob}]
    BY DEF Die, State
  <1>3. up' \in BOOLEAN /\ UNCHANGED <<silent, posted>>
    BY DEF Die
  <1>4. InboxTypes'
    BY <1>1, <1>2, <1>3 DEF InboxTypes
  <1> QED BY <1>1, <1>4 DEF OneHolder

-----------------------------------------------------------------------------
(* Videos. *)

\* The step leaves v alone.
LeftAlone(v) ==
  /\ videos'[v] = videos[v] /\ Rows(v)' = Rows(v) /\ LobbiesOf(v)' = LobbiesOf(v)
  /\ accounts \subseteq accounts'
  /\ Busy(v)' = Busy(v)
  /\ \A w \in Busy(v) : wpc'[w] = wpc[w] /\ local'[w] = local[w]

LEMMA SoundKept ==
  ASSUME NEW v \in Video, Sound(v), LeftAlone(v)
  PROVE  Sound(v)'
  <1>1. Settled(v) => Settled(v)'
    BY DEF Settled, LeftAlone
  <1>2. \A w \in Busy(v) : Stage(w, v) => Stage(w, v)'
    BY DEF Stage, LeftAlone
  <1> QED BY <1>1, <1>2 DEF Sound, LeftAlone

LEMMA AllSoundKept ==
  ASSUME IInv, UNCHANGED <<wpc, wjob, videos, accounts, lobbies, streams, local, disturbed>>
  PROVE  AllSound'
  <1>1. \A v \in Video : LeftAlone(v)
    BY DEF LeftAlone, Rows, LobbiesOf, Busy, Of
  <1> QED BY <1>1, SoundKept DEF IInv, AllSound

\* One worker is on a video that is not disturbed.
LEMMA OnlyWorker ==
  ASSUME IInv, NEW w \in Worker, wpc[w] # "idle", NEW v, v = Of(w), v \notin disturbed
  PROVE  Busy(v) = {w} /\ Sound(v) /\ Stage(w, v)
  <1>1. v \in Video /\ w \in Busy(v)
    BY JobOf DEF IInv, Busy
  <1>2. Sound(v)
    BY <1>1 DEF IInv, AllSound
  <1> QED BY <1>1, <1>2 DEF Sound

\* Only the worker w changes its state, its job and what it has put together.
OnlyMoves(w) ==
  \A x \in Worker : x # w => wpc'[x] = wpc[x] /\ wjob'[x] = wjob[x] /\ local'[x] = local[x]

\* Only the rows of v change, and accounts stay.
OnlyTouches(v) ==
  /\ accounts \subseteq accounts'
  /\ disturbed \subseteq disturbed'
  /\ \A u \in Video : u # v => videos'[u] = videos[u] /\ Rows(u)' = Rows(u) /\ LobbiesOf(u)' = LobbiesOf(u)

\* A worker changes nothing but its own video.
LEMMA OthersSound ==
  ASSUME IInv, NEW w \in Worker, wpc[w] # "idle", NEW v, v = Of(w), OnlyMoves(w), OnlyTouches(v),
         wjob'[w] \in {wjob[w], NoJob}, v \notin disturbed' => Sound(v)'
  PROVE  AllSound'
  <1> SUFFICES ASSUME NEW u \in Video, u \notin disturbed', u # v PROVE Sound(u)'
    BY DEF AllSound
  <1>1. Busy(u)' = Busy(u) /\ w \notin Busy(u)
    BY DEF OnlyMoves, Busy, Of
  <1>2. LeftAlone(u)
    BY <1>1 DEF LeftAlone, OnlyMoves, OnlyTouches, Busy
  <1> QED BY <1>2, SoundKept DEF IInv, AllSound, OnlyTouches

\* The worker ends: its video is settled.
LEMMA FreedSound ==
  ASSUME IInv, NEW w \in Worker, wpc[w] # "idle", NEW v, v = Of(w), FreeWorker(w),
         OnlyMoves(w), OnlyTouches(v),
         v \notin disturbed' => Settled(v)' /\ \A i, j \in LobbiesOf(v)' : i = j
  PROVE  AllSound'
  <1>1. wjob'[w] = NoJob
    BY FreeKeeps DEF IInv
  <1>2. ASSUME v \notin disturbed'
        PROVE  Sound(v)'
    <2>1. Busy(v) = {w}
      BY <1>2, OnlyWorker DEF OnlyTouches
    <2>2. Busy(v)' = {}
      BY <1>1, <2>1 DEF Busy, Of, OnlyMoves
    <2> QED BY <1>2, <2>2 DEF Sound
  <1> QED BY <1>1, <1>2, OthersSound

\* The worker goes on: what the next state asks for holds.
LEMMA SteppedSound ==
  ASSUME IInv, NEW w \in Worker, wpc[w] # "idle", NEW v, v = Of(w), NEW state \in State \ {"idle"},
         StepWorker(w, state), OnlyMoves(w), OnlyTouches(v),
         v \notin disturbed' =>
           /\ state \in Before => Settled(v)'
           /\ Stage(w, v)'
           /\ \A i, j \in LobbiesOf(v)' : i = j
  PROVE  AllSound'
  <1>1. wjob' = wjob /\ wpc'[w] = state
    BY StepKeeps DEF IInv
  <1>2. ASSUME v \notin disturbed'
        PROVE  Sound(v)'
    <2>1. Busy(v) = {w}
      BY <1>2, OnlyWorker DEF OnlyTouches
    <2>2. Busy(v)' = {w}
      BY <1>1, <2>1 DEF Busy, Of
    <2> QED BY <1>1, <1>2, <2>2 DEF Sound
  <1> QED BY <1>1, <1>2, OthersSound

\* The process ends: a video that nobody was on is settled.
LEMMA PanicSound ==
  ASSUME IInv, Die, disturbed' = disturbed \cup {v \in Video : Busy(v) # {}},
         accounts \subseteq accounts', UNCHANGED <<videos, lobbies, streams>>
  PROVE  AllSound'
  <1> SUFFICES ASSUME NEW v \in Video, v \notin disturbed' PROVE Sound(v)'
    BY DEF AllSound
  <1>1. Busy(v) = {} /\ Sound(v)
    BY DEF IInv, AllSound
  <1>2. Busy(v)' = {}
    BY DEF Die, Busy
  <1>3. Settled(v)'
    BY <1>1 DEF Sound, Settled, Rows
  <1>4. LobbiesOf(v)' = LobbiesOf(v)
    BY DEF LobbiesOf
  <1> QED BY <1>1, <1>2, <1>3, <1>4 DEF Sound

-----------------------------------------------------------------------------
(* What a step leaves alone. *)

LEMMA TablesKept ==
  ASSUME IInv, UNCHANGED <<videos, accounts, space, lobbies>>,
         local' \in [Worker -> Local], disturbed' \subseteq Video
  PROVE  TableTypes'
  BY DEF IInv, TableTypes

\* Lobbies stay, streams only go, and nobody found a lobby.
LEMMA LobbiesKept ==
  ASSUME IInv, lobbies' = lobbies, streams' \subseteq streams,
         \A x \in Worker : wpc'[x] = "create" =>
           wpc[x] = "create" /\ wjob'[x] = wjob[x] /\ local'[x] = local[x]
  PROVE  OwnLobby'
  <1>1. \A v : LobbiesOf(v)' = LobbiesOf(v)
    BY DEF LobbiesOf
  <1>2. \A s \in streams' : s.video \in Video /\ s.lobby \in LobbiesOf(s.video)'
    BY <1>1 DEF IInv, OwnLobby
  <1>3. ASSUME NEW x \in Worker, wpc'[x] = "create", local'[x].lobby # 0
        PROVE  (local[x].lobby \in LobbiesOf(Of(x)))'
    <2>1. local[x].lobby \in LobbiesOf(Of(x))
      BY <1>3 DEF IInv, OwnLobby
    <2> QED BY <1>3, <2>1 DEF LobbiesOf, Of
  <1>4. \A s \in streams' : (s.lobby \in LobbiesOf(s.video))'
    BY <1>2
  <1> QED BY <1>2, <1>3, <1>4 DEF OwnLobby

LEMMA NoLocalType == NoLocal \in Local
  BY DEF NoLocal, Local

\* Nothing but the worker's own record is reset.
LEMMA LocalReset ==
  ASSUME IInv, NEW w \in Worker, NEW l \in Local, local' = [local EXCEPT ![w] = l]
  PROVE  /\ local' \in [Worker -> Local] /\ local'[w] = l
         /\ \A x \in Worker : x # w => local'[x] = local[x]
  BY DEF IInv, TableTypes

\* Tables that stay touch no video.
LEMMA TouchesNone ==
  ASSUME UNCHANGED <<videos, lobbies, streams>>, accounts \subseteq accounts',
         disturbed \subseteq disturbed', NEW v
  PROVE  /\ OnlyTouches(v)
         /\ videos'[v] = videos[v] /\ Rows(v)' = Rows(v) /\ LobbiesOf(v)' = LobbiesOf(v)
         /\ Settled(v) => Settled(v)'
  BY DEF OnlyTouches, Rows, LobbiesOf, Settled

\* A worker gives up: its video counts as disturbed.
LEMMA AbandonStep ==
  ASSUME IInv, NEW w \in Worker, wpc[w] # "idle", Abandon(w), UNCHANGED tables
  PROVE  IInv'
  <1>1. Of(w) \in Video /\ disturbed' = disturbed \cup {Of(w)}
    BY JobOf DEF IInv, Abandon
  <1>2. /\ InboxTypes' /\ OneHolder' /\ wpc'[w] = "idle" /\ FreeWorker(w)
        /\ \A x \in Worker : x # w => wjob'[x] = wjob[x] /\ wpc'[x] = wpc[x]
    BY FreeKeeps DEF IInv, Abandon
  <1>3. /\ local' \in [Worker -> Local]
        /\ \A x \in Worker : x # w => local'[x] = local[x]
    BY NoLocalType, LocalReset DEF Abandon
  <1>4. TableTypes'
    BY <1>1, <1>3, TablesKept DEF IInv, TableTypes
  <1>5. OwnLobby'
    BY <1>2, <1>3, LobbiesKept
  <1>6. AllSound'
    <2> SUFFICES ASSUME NEW v, v = Of(w) PROVE AllSound'
      OBVIOUS
    <2>1. OnlyTouches(v) /\ v \in disturbed'
      BY <1>1, TouchesNone
    <2>2. OnlyMoves(w)
      BY <1>2, <1>3 DEF OnlyMoves
    <2> QED BY <1>2, <2>1, <2>2, FreedSound
  <1> QED BY <1>2, <1>4, <1>5, <1>6 DEF IInv

\* A worker ends before it has changed its video.
LEMMA EndStep ==
  ASSUME IInv, NEW w \in Worker, wpc[w] \in Before, FreeWorker(w),
         UNCHANGED <<videos, accounts, space, lobbies, streams, disturbed>>,
         local' \in [Worker -> Local], \A x \in Worker : x # w => local'[x] = local[x]
  PROVE  IInv'
  <1>1. wpc[w] # "idle"
    BY DEF Before
  <1>2. /\ InboxTypes' /\ OneHolder' /\ wpc'[w] = "idle"
        /\ \A x \in Worker : x # w => wjob'[x] = wjob[x] /\ wpc'[x] = wpc[x]
    BY FreeKeeps DEF IInv
  <1>3. TableTypes'
    BY TablesKept DEF IInv, TableTypes
  <1>4. OwnLobby'
    BY <1>2, LobbiesKept
  <1>5. AllSound'
    <2> SUFFICES ASSUME NEW v, v = Of(w) PROVE AllSound'
      OBVIOUS
    <2>1. OnlyTouches(v) /\ LobbiesOf(v)' = LobbiesOf(v) /\ (Settled(v) => Settled(v)')
      BY TouchesNone
    <2>2. OnlyMoves(w)
      BY <1>2 DEF OnlyMoves
    <2>3. ASSUME v \notin disturbed'
          PROVE  Settled(v) /\ \A i, j \in LobbiesOf(v) : i = j
      BY <1>1, <2>3, OnlyWorker DEF Sound
    <2> QED BY <1>1, <2>1, <2>2, <2>3, FreedSound
  <1> QED BY <1>2, <1>3, <1>4, <1>5 DEF IInv

-----------------------------------------------------------------------------
(* The inbox: post, take, check. *)

LEMMA PostStep ==
  ASSUME IInv, NEW type \in {"Announce", "Update", "Delete"}, NEW v \in Video,
         NEW active \in BOOLEAN, NEW guests \in SUBSET Guest, Post(type, v, active, guests)
  PROVE  IInv'
  <1>1. PICK s \in Server :
          AddToQueue([id |-> posted + 1, from |-> s, stated |-> "rsa-sha256",
                      used |-> "rsa-sha256", type |-> type, video |-> v,
                      active |-> active, guests |-> guests])
    BY DEF Post
  <1> DEFINE p == [id |-> posted + 1, from |-> s, stated |-> "rsa-sha256",
                   used |-> "rsa-sha256", type |-> type, video |-> v,
                   active |-> active, guests |-> guests]
  <1>2. p \in Activity /\ p.id = posted + 1
    BY DEF IInv, InboxTypes, Activity
  <1>3. InboxTypes' /\ OneHolder'
    BY <1>1, <1>2, AddKeeps DEF IInv
  <1>4. UNCHANGED <<wpc, wjob, tables, local, disturbed>>
    BY <1>1 DEF Post, AddToQueue
  <1>5. TableTypes' /\ OwnLobby' /\ AllSound'
    BY <1>4, TablesKept, LobbiesKept, AllSoundKept DEF IInv, TableTypes
  <1> QED BY <1>3, <1>5 DEF IInv

\* A second worker on a video disturbs it.
LEMMA TakeStep ==
  ASSUME IInv, NEW w \in Worker, Take(w)
  PROVE  IInv'
  <1>1. /\ InboxTypes' /\ OneHolder'
        /\ wjob[w] = NoJob /\ wjob'[w] # NoJob /\ wjob'[w].video \in Video
        /\ wpc'[w] = "verify"
        /\ \A x \in Worker : x # w => wjob'[x] = wjob[x] /\ wpc'[x] = wpc[x]
    BY TakeKeeps DEF IInv, Take
  <1>2. UNCHANGED <<tables, local>>
    BY DEF Take
  <1>3. PICK v \in Video : v = wjob'[w].video
    BY <1>1
  <1>4. disturbed' = IF Busy(v) # {} THEN disturbed \cup {v} ELSE disturbed
    BY <1>3 DEF Take
  <1>5. TableTypes'
    BY <1>2, <1>4, TablesKept DEF IInv, TableTypes
  <1>6. OwnLobby'
    BY <1>1, <1>2, LobbiesKept
  <1>7. AllSound'
    <2> SUFFICES ASSUME NEW u \in Video, u \notin disturbed' PROVE Sound(u)'
      BY DEF AllSound
    <2>1. Sound(u)
      BY <1>4 DEF IInv, AllSound
    <2>2. CASE u # v
      <3>1. Busy(u)' = Busy(u) /\ w \notin Busy(u)
        BY <1>1, <1>3, <2>2 DEF Busy, Of
      <3>2. LeftAlone(u)
        BY <1>1, <1>2, <3>1 DEF LeftAlone, Rows, LobbiesOf, Busy
      <3> QED BY <2>1, <3>2, SoundKept
    <2>3. CASE u = v
      <3>1. Busy(u) = {} /\ Settled(u)
        BY <1>4, <2>1, <2>3 DEF Sound
      <3>2. Busy(u)' = {w}
        BY <1>1, <1>3, <2>3, <3>1 DEF Busy, Of
      <3>3. Settled(u)' /\ LobbiesOf(u)' = LobbiesOf(u)
        BY <1>2, <3>1 DEF Settled, Rows, LobbiesOf
      <3>4. Stage(w, u)'
        BY <1>1 DEF Stage, Giving
      <3> QED BY <2>1, <3>2, <3>3, <3>4 DEF Sound
    <2> QED BY <2>2, <2>3
  <1> QED BY <1>1, <1>5, <1>6, <1>7 DEF IInv

\* A worker goes on and has not changed its video yet.
LEMMA BeforeStep ==
  ASSUME IInv, NEW w \in Worker, wpc[w] \in Before, NEW state \in Before, StepWorker(w, state),
         UNCHANGED <<videos, accounts, space, lobbies, streams, disturbed>>,
         local' \in [Worker -> Local], \A x \in Worker : x # w => local'[x] = local[x]
  PROVE  IInv'
  <1>1. wpc[w] # "idle" /\ state \in State \ {"idle"} /\ state # "create"
    BY DEF Before, State
  <1>2. /\ InboxTypes' /\ OneHolder' /\ wjob' = wjob /\ wpc'[w] = state
        /\ \A x \in Worker : x # w => wpc'[x] = wpc[x]
    BY <1>1, StepKeeps DEF IInv
  <1>3. TableTypes'
    BY TablesKept DEF IInv, TableTypes
  <1>4. OwnLobby'
    BY <1>1, <1>2, LobbiesKept
  <1>5. AllSound'
    <2> SUFFICES ASSUME NEW v, v = Of(w) PROVE AllSound'
      OBVIOUS
    <2>1. OnlyTouches(v) /\ LobbiesOf(v)' = LobbiesOf(v) /\ (Settled(v) => Settled(v)')
      BY TouchesNone
    <2>2. OnlyMoves(w)
      BY <1>2 DEF OnlyMoves
    <2>3. ASSUME v \notin disturbed'
          PROVE  Settled(v) /\ \A i, j \in LobbiesOf(v) : i = j
      BY <1>1, <2>3, OnlyWorker DEF Sound
    <2>4. Stage(w, v)'
      BY <1>2 DEF Stage, Before, Giving
    <2> QED BY <1>1, <2>1, <2>2, <2>3, <2>4, SteppedSound
  <1> QED BY <1>2, <1>3, <1>4, <1>5 DEF IInv

\* The check of the signature.
LEMMA CheckStep ==
  ASSUME IInv, NEW w \in Worker, Check(w)
  PROVE  IInv'
  <1>1. wpc[w] = "verify" /\ UNCHANGED <<tables, local, disturbed>>
    BY DEF Check, VerifyJob
  <1>2. CASE StepWorker(w, "handle")
    BY <1>1, <1>2, BeforeStep DEF Before, IInv, TableTypes
  <1>3. CASE FreeWorker(w)
    BY <1>1, <1>3, EndStep DEF Before, IInv, TableTypes
  <1> QED BY <1>2, <1>3 DEF Check, VerifyJob

-----------------------------------------------------------------------------
(* The end of the process. *)

LEMMA PanicStep ==
  ASSUME IInv, Die, kills' \in 0..MaxKills, local' = [w \in Worker |-> NoLocal],
         disturbed' = disturbed \cup {v \in Video : Busy(v) # {}},
         accounts \subseteq accounts', accounts' \subseteq Guest \cup {Owner},
         UNCHANGED <<videos, space, lobbies, streams>>
  PROVE  IInv'
  <1>1. InboxTypes' /\ OneHolder' /\ \A w \in Worker : wjob'[w] = NoJob /\ wpc'[w] = "idle"
    BY DieKeeps DEF IInv
  <1>2. local' \in [Worker -> Local] /\ disturbed' \subseteq Video
    BY NoLocalType DEF IInv, TableTypes
  <1>3. TableTypes'
    BY <1>2 DEF IInv, TableTypes
  <1>4. OwnLobby'
    BY <1>1, LobbiesKept
  <1>5. AllSound'
    BY PanicSound
  <1> QED BY <1>1, <1>3, <1>4, <1>5 DEF IInv

LEMMA KillStep ==
  ASSUME IInv, Kill
  PROVE  IInv'
  <1>1. kills' \in 0..MaxKills
    BY DEF Kill, Killed, IInv, InboxTypes
  <1>2. accounts' = accounts /\ accounts \subseteq Guest \cup {Owner}
    BY DEF Kill, IInv, TableTypes
  <1> QED BY <1>1, <1>2, PanicStep DEF Kill, Killed

LEMMA RestartStep ==
  ASSUME IInv, Restart
  PROVE  IInv'
  <1>1. up' \in BOOLEAN
    BY DEF Restart
  <1>2. InboxTypes' /\ OneHolder'
    BY <1>1 DEF Restart, IInv, InboxTypes, OneHolder
  <1>3. TableTypes' /\ OwnLobby' /\ AllSound'
    BY TablesKept, LobbiesKept, AllSoundKept DEF Restart, IInv, TableTypes
  <1> QED BY <1>2, <1>3 DEF IInv

\* A nil dereference before or after the video was stored.
LEMMA PanicsStep ==
  ASSUME IInv, NEW w \in Worker, AddInstancePanics(w) \/ CreateStreamAccessPanics(w)
  PROVE  IInv'
  <1>1. kills' \in 0..MaxKills /\ Panic
    BY DEF AddInstancePanics, CreateStreamAccessPanics, Panic, IInv, InboxTypes
  <1>2. local[w].guests \subseteq Guest /\ accounts \subseteq Guest \cup {Owner}
    BY DEF IInv, TableTypes, Local
  <1>3. accounts \subseteq accounts' /\ accounts' \subseteq Guest \cup {Owner}
    BY <1>2 DEF AddInstancePanics, CreateStreamAccessPanics
  <1>4. UNCHANGED <<videos, space, lobbies, streams>>
    BY DEF AddInstancePanics, CreateStreamAccessPanics
  <1> QED BY <1>1, <1>3, <1>4, PanicStep DEF Panic

-----------------------------------------------------------------------------
(* AddVideo and UpsertVideo. *)

LEMMA BuildVideoStep ==
  ASSUME IInv, NEW w \in Worker, BuildVideo(w)
  PROVE  IInv'
  <1>1. wpc[w] = "handle"
    BY DEF BuildVideo, HandleAnnounceRequest, HandleUpdateRequest, At
  <1>2. wjob[w] \in Activity
    BY <1>1, JobOf DEF IInv
  <1>3. PICK people \in AddOwnerAndChannel, got \in ParseCommonUnknownProps(wjob[w]) :
          local' = [local EXCEPT ![w] = [NoLocal EXCEPT !.people = people, !.inst = got.inst,
                                                        !.guests = got.guests]]
    BY DEF BuildVideo
  <1> DEFINE l == [NoLocal EXCEPT !.people = people, !.inst = got.inst, !.guests = got.guests]
  <1>4. got.inst \in BOOLEAN /\ got.guests \in SUBSET Guest
    <2>1. ExtractVideoUnknownProperties(wjob[w]).guests \subseteq Guest
      BY <1>2 DEF ExtractVideoUnknownProperties, Activity
    <2>2. got.inst \in BOOLEAN
      BY DEF ParseCommonUnknownProps, AddInstance
    <2>3. got.guests \subseteq ExtractVideoUnknownProperties(wjob[w]).guests
      BY DEF ParseCommonUnknownProps, AddGuest
    <2> QED BY <2>1, <2>2, <2>3
  <1>5. l \in Local
    BY <1>4 DEF NoLocal, Local, AddOwnerAndChannel
  <1>6. local' \in [Worker -> Local] /\ \A x \in Worker : x # w => local'[x] = local[x]
    BY <1>3, <1>5, LocalReset
  <1> QED BY <1>1, <1>6, BeforeStep DEF BuildVideo, Before

LEMMA BuildVideoFailsStep ==
  ASSUME IInv, NEW w \in Worker, BuildVideoFails(w)
  PROVE  IInv'
  <1>1. wpc[w] \in Before
    BY DEF BuildVideoFails, HandleAnnounceRequest, HandleUpdateRequest, At, Before
  <1>2. local' \in [Worker -> Local] /\ \A x \in Worker : x # w => local'[x] = local[x]
    BY NoLocalType, LocalReset DEF BuildVideoFails, Done
  <1> QED BY <1>1, <1>2, EndStep DEF BuildVideoFails, Done

\* No set of guests is NotStored.
LEMMA GuestsAreStored == \A g \in SUBSET Guest : g # NotStored
  BY DEF NotStored

\* A row of the video table changes, and no stream or lobby does.
LEMMA RowChanged ==
  ASSUME IInv, NEW v \in Video, NEW g \in (SUBSET Guest) \cup {NotStored},
         videos' = [videos EXCEPT ![v] = g], UNCHANGED <<accounts, lobbies, streams, disturbed>>
  PROVE  /\ videos' \in [Video -> (SUBSET Guest) \cup {NotStored}]
         /\ videos'[v] = g /\ OnlyTouches(v) /\ LobbiesOf(v)' = LobbiesOf(v)
  BY DEF IInv, TableTypes, OnlyTouches, Rows, LobbiesOf

\* The video is stored: whoever was invited before has an account already.
LEMMA SaveVideoStep ==
  ASSUME IInv, NEW w \in Worker, SaveVideo(w)
  PROVE  IInv'
  <1>1. wpc[w] = "save" /\ wpc[w] # "idle" /\ UNCHANGED <<instances, accounts, space, lobbies, streams>>
    BY DEF SaveVideo, At
  <1>2. CASE Abandon(w) /\ UNCHANGED videos
    BY <1>1, <1>2, AbandonStep
  <1>3. CASE videos' = Upsert(Of(w), local[w].guests) /\ StepWorker(w, "access") /\ UNCHANGED <<local, disturbed>>
    <2> SUFFICES ASSUME NEW v, v = Of(w) PROVE IInv'
      OBVIOUS
    <2> DEFINE g == local[w].guests \cup IF videos[v] = NotStored THEN {} ELSE videos[v]
    <2>1. v \in Video /\ local[w].guests \in SUBSET Guest
      BY <1>1, JobOf DEF IInv, TableTypes, Local
    <2>2. g \in SUBSET Guest /\ videos' = [videos EXCEPT ![v] = g]
      BY <1>3, <2>1 DEF IInv, TableTypes, Upsert
    <2>3. /\ videos' \in [Video -> (SUBSET Guest) \cup {NotStored}]
          /\ videos'[v] = g /\ g # NotStored /\ OnlyTouches(v) /\ LobbiesOf(v)' = LobbiesOf(v)
      BY <1>1, <1>3, <2>1, <2>2, RowChanged, GuestsAreStored
    <2>4. /\ InboxTypes' /\ OneHolder' /\ wjob' = wjob /\ wpc'[w] = "access"
          /\ \A x \in Worker : x # w => wpc'[x] = wpc[x]
      BY <1>1, <1>3, StepKeeps DEF IInv, State
    <2>5. TableTypes'
      BY <1>1, <1>3, <2>3 DEF IInv, TableTypes
    <2>6. OwnLobby'
      BY <1>1, <1>3, <2>4, LobbiesKept
    <2>7. AllSound'
      <3>1. OnlyMoves(w)
        BY <1>3, <2>4 DEF OnlyMoves
      <3>2. ASSUME v \notin disturbed'
            PROVE  Stage(w, v)' /\ \A i, j \in LobbiesOf(v)' : i = j
        <4>1. Settled(v) /\ \A i, j \in LobbiesOf(v) : i = j
          BY <1>1, <1>3, <3>2, OnlyWorker DEF Sound, Before
        <4>2. g \subseteq accounts \cup local[w].guests
          BY <4>1 DEF Settled
        <4> QED BY <1>1, <1>3, <2>3, <2>4, <4>1, <4>2 DEF Stage, Giving
      <3>3. "access" \in State \ {"idle"} /\ "access" \notin Before
        BY DEF State, Before
      <3> QED BY <1>1, <1>3, <2>3, <3>1, <3>2, <3>3, SteppedSound
    <2> QED BY <2>4, <2>5, <2>6, <2>7 DEF IInv
  <1> QED BY <1>2, <1>3 DEF SaveVideo

-----------------------------------------------------------------------------
(* LiveStreamService. *)

\* Accounts are added; a guest left without one disturbs the video.
LEMMA GuestAccounts ==
  ASSUME IInv, NEW w \in Worker, wpc[w] # "idle", BuildGuestAccounts(w)
  PROVE  /\ accounts \subseteq accounts' /\ accounts' \subseteq Guest \cup {Owner}
         /\ disturbed \subseteq disturbed' /\ disturbed' \subseteq Video
         /\ Of(w) \notin disturbed' => accounts \cup local[w].guests \subseteq accounts'
  <1>1. PICK missing \in SUBSET local[w].guests :
          /\ accounts' = accounts \cup (local[w].guests \ missing)
          /\ disturbed' = IF missing \subseteq accounts THEN disturbed ELSE disturbed \cup {Of(w)}
    BY DEF BuildGuestAccounts
  <1>2. local[w].guests \subseteq Guest /\ Of(w) \in Video
    BY JobOf DEF IInv, TableTypes, Local
  <1> QED BY <1>1, <1>2 DEF IInv, TableTypes

\* A stored video with one stream has access already.
LEMMA UpdateStreamAccessStep ==
  ASSUME IInv, NEW w \in Worker, UpdateStreamAccess(w)
  PROVE  IInv'
  <1> SUFFICES ASSUME NEW v, v = Of(w) PROVE IInv'
    OBVIOUS
  <1>1. /\ wpc[w] = "access" /\ wpc[w] # "idle" /\ Contains(v) /\ FreeWorker(w)
        /\ UNCHANGED <<videos, instances, space, lobbies, streams>>
    BY DEF UpdateStreamAccess, At
  <1>2. /\ accounts \subseteq accounts' /\ accounts' \subseteq Guest \cup {Owner}
        /\ disturbed \subseteq disturbed' /\ disturbed' \subseteq Video
        /\ v \notin disturbed' => accounts \cup local[w].guests \subseteq accounts'
    BY <1>1, GuestAccounts DEF UpdateStreamAccess
  <1>3. /\ InboxTypes' /\ OneHolder' /\ wpc'[w] = "idle"
        /\ \A x \in Worker : x # w => wjob'[x] = wjob[x] /\ wpc'[x] = wpc[x]
    BY <1>1, FreeKeeps DEF IInv
  <1>4. local' \in [Worker -> Local] /\ \A x \in Worker : x # w => local'[x] = local[x]
    BY NoLocalType, LocalReset DEF UpdateStreamAccess
  <1>5. TableTypes'
    BY <1>1, <1>2, <1>4 DEF IInv, TableTypes
  <1>6. OwnLobby'
    BY <1>1, <1>3, <1>4, LobbiesKept
  <1>7. AllSound'
    <2>1. /\ OnlyTouches(v)
          /\ videos'[v] = videos[v] /\ Rows(v)' = Rows(v) /\ LobbiesOf(v)' = LobbiesOf(v)
      BY <1>1, <1>2, TouchesNone
    <2>2. OnlyMoves(w)
      BY <1>3, <1>4 DEF OnlyMoves
    <2>3. Rows(v) # {}
      BY <1>1, FS_EmptySet DEF Contains
    <2>4. ASSUME v \notin disturbed'
          PROVE  Settled(v)' /\ \A i, j \in LobbiesOf(v) : i = j
      <3>1. Stage(w, v) /\ \A i, j \in LobbiesOf(v) : i = j
        BY <1>1, <1>2, <2>4, OnlyWorker DEF Sound
      <3> QED BY <1>1, <1>2, <2>1, <2>3, <2>4, <3>1 DEF Stage, Settled
    <2> QED BY <1>1, <2>1, <2>2, <2>4, FreedSound
  <1> QED BY <1>3, <1>5, <1>6, <1>7 DEF IInv

LEMMA CreateStreamAccessStep ==
  ASSUME IInv, NEW w \in Worker, CreateStreamAccess(w)
  PROVE  IInv'
  <1> SUFFICES ASSUME NEW v, v = Of(w) PROVE IInv'
    OBVIOUS
  <1>1. /\ wpc[w] = "access" /\ wpc[w] # "idle" /\ StepWorker(w, "account")
        /\ UNCHANGED <<videos, instances, space, lobbies, streams, local>>
    BY DEF CreateStreamAccess, At
  <1>2. /\ accounts \subseteq accounts' /\ accounts' \subseteq Guest \cup {Owner}
        /\ disturbed \subseteq disturbed' /\ disturbed' \subseteq Video
        /\ v \notin disturbed' => accounts \cup local[w].guests \subseteq accounts'
    BY <1>1, GuestAccounts DEF CreateStreamAccess
  <1>3. "account" \in State \ {"idle"} /\ "account" \notin Before
    BY DEF State, Before, Giving
  <1>4. /\ InboxTypes' /\ OneHolder' /\ wjob' = wjob /\ wpc'[w] = "account"
        /\ \A x \in Worker : x # w => wpc'[x] = wpc[x]
    BY <1>1, <1>3, StepKeeps DEF IInv
  <1>5. TableTypes'
    BY <1>1, <1>2 DEF IInv, TableTypes
  <1>6. OwnLobby'
    BY <1>1, <1>4, LobbiesKept
  <1>7. AllSound'
    <2>1. OnlyTouches(v) /\ videos'[v] = videos[v] /\ LobbiesOf(v)' = LobbiesOf(v)
      BY <1>1, <1>2, TouchesNone
    <2>2. OnlyMoves(w)
      BY <1>1, <1>4 DEF OnlyMoves
    <2>3. ASSUME v \notin disturbed'
          PROVE  Stage(w, v)' /\ \A i, j \in LobbiesOf(v) : i = j
      <3>1. Stage(w, v) /\ \A i, j \in LobbiesOf(v) : i = j
        BY <1>1, <1>2, <2>3, OnlyWorker DEF Sound
      <3> QED BY <1>1, <1>2, <1>4, <2>1, <2>3, <3>1 DEF Stage
    <2> QED BY <1>1, <1>3, <2>1, <2>2, <2>3, SteppedSound
  <1> QED BY <1>4, <1>5, <1>6, <1>7 DEF IInv

\* A lookup: the worker remembers what it found, and goes on to the next one.
LEMMA LookupStep ==
  ASSUME IInv, NEW w \in Worker, wpc[w] \in Giving, NEW next \in Giving, NEW found \in Local,
         Lookup(w, wpc[w], next, found),
         next = "create" => found.lobby \in {0} \cup LobbiesOf(Of(w)),
         next = "create" /\ found.lobby = 0 => LobbiesOf(Of(w)) = {}
  PROVE  IInv'
  <1>1. wpc[w] # "idle" /\ UNCHANGED tables
    BY DEF Lookup, Giving
  <1>2. CASE Abandon(w)
    BY <1>1, <1>2, AbandonStep
  <1>3. CASE StepWorker(w, next) /\ local' = [local EXCEPT ![w] = found] /\ UNCHANGED disturbed
    <2> SUFFICES ASSUME NEW v, v = Of(w) PROVE IInv'
      OBVIOUS
    <2>1. next \in State \ {"idle"} /\ next \notin Before /\ next # "access" /\ next # "revoke"
      BY DEF State, Before, Giving
    <2>2. /\ InboxTypes' /\ OneHolder' /\ wjob' = wjob /\ wpc'[w] = next
          /\ \A x \in Worker : x # w => wpc'[x] = wpc[x]
      BY <1>1, <1>3, <2>1, StepKeeps DEF IInv
    <2>3. /\ local' \in [Worker -> Local] /\ local'[w] = found
          /\ \A x \in Worker : x # w => local'[x] = local[x]
      BY <1>3, LocalReset
    <2>4. TableTypes'
      BY <1>1, <1>3, <2>3, TablesKept DEF IInv, TableTypes
    <2>5. \A u : LobbiesOf(u)' = LobbiesOf(u)
      BY <1>1 DEF LobbiesOf
    <2>6. OwnLobby'
      <3>1. \A s \in streams' : s.video \in Video /\ (s.lobby \in LobbiesOf(s.video))'
        BY <1>1, <2>5 DEF IInv, OwnLobby
      <3>2. ASSUME NEW x \in Worker, wpc'[x] = "create", local'[x].lobby # 0
            PROVE  (local[x].lobby \in LobbiesOf(Of(x)))'
        <4>1. local'[x].lobby \in LobbiesOf(Of(x))
          BY <2>2, <2>3, <3>2 DEF IInv, OwnLobby
        <4> QED BY <1>1, <2>2, <4>1 DEF LobbiesOf, Of
      <3> QED BY <3>1, <3>2 DEF OwnLobby
    <2>7. AllSound'
      <3>1. OnlyTouches(v) /\ videos'[v] = videos[v]
        BY <1>1, <1>3, TouchesNone
      <3>2. OnlyMoves(w)
        BY <2>2, <2>3 DEF OnlyMoves
      <3>3. ASSUME v \notin disturbed'
            PROVE  Stage(w, v)' /\ \A i, j \in LobbiesOf(v) : i = j
        <4>1. Stage(w, v) /\ \A i, j \in LobbiesOf(v) : i = j
          BY <1>1, <1>3, <3>3, OnlyWorker DEF Sound
        <4>2. videos[v] # NotStored /\ videos[v] \subseteq accounts
          BY <4>1 DEF Stage
        <4> QED BY <1>1, <2>1, <2>2, <2>3, <2>5, <3>1, <4>1, <4>2 DEF Stage
      <3> QED BY <1>1, <1>3, <2>1, <2>5, <3>1, <3>2, <3>3, SteppedSound
    <2> QED BY <2>2, <2>4, <2>6, <2>7 DEF IInv
  <1> QED BY <1>2, <1>3 DEF Lookup

LEMMA FindAccountStep ==
  ASSUME IInv, NEW w \in Worker, FindAccount(w) \/ FindSpace(w)
  PROVE  IInv'
  <1>1. local[w] \in Local
    BY DEF IInv, TableTypes
  <1>2. CASE FindAccount(w)
    <2>1. wpc[w] = "account"
      BY <1>2 DEF FindAccount, Lookup, At
    <2>2. \A b \in BOOLEAN : [local[w] EXCEPT !.account = b] \in Local
      BY <1>1 DEF Local
    <2>3. (Owner \in accounts) \in BOOLEAN
      OBVIOUS
    <2>4. [local[w] EXCEPT !.account = Owner \in accounts] \in Local
      BY <2>2, <2>3, Zenon
    <2> QED BY <1>2, <2>1, <2>4, LookupStep DEF FindAccount, Giving
  <1>3. CASE FindSpace(w)
    <2>1. wpc[w] = "space"
      BY <1>3 DEF FindSpace, Lookup, At
    <2>2. space \in BOOLEAN
      BY DEF IInv, TableTypes
    <2>3. [local[w] EXCEPT !.space = space] \in Local
      BY <1>1, <2>2 DEF Local
    <2> QED BY <1>3, <2>1, <2>3, LookupStep DEF FindSpace, Giving
  <1> QED BY <1>2, <1>3

\* A set of numbers has a smallest one.
LEMMA Smallest ==
  ASSUME NEW S \in SUBSET Nat, S # {}
  PROVE  \E i \in S : \A j \in S : i <= j
  <1>1. PICK i \in S : \A j \in S : <<j, i>> \notin OpToRel(<, Nat)
    BY NatLessThanWellFounded, WFMin
  <1>2. \A j \in S : j < i => <<j, i>> \in OpToRel(<, Nat)
    BY DEF OpToRel
  <1>3. \A j \in S : ~(j < i)
    BY <1>1, <1>2, Zenon
  <1>4. \A j \in S : i <= j
    BY ONLY <1>3, S \in SUBSET Nat, i \in S
  <1> QED BY <1>4

\* The first lobby of the video, or none.
LEMMA FindLobbyStep ==
  ASSUME IInv, NEW w \in Worker, FindLobby(w)
  PROVE  IInv'
  <1> DEFINE found == LobbiesOf(Of(w))
             first == IF found = {} THEN 0 ELSE CHOOSE i \in found : \A j \in found : i <= j
  <1>1. Lookup(w, "lobby", "create", [local[w] EXCEPT !.lobby = first])
    BY DEF FindLobby, LobbiesOf
  <1>2. wpc[w] = "lobby" /\ local[w] \in Local
    BY <1>1 DEF Lookup, At, IInv, TableTypes
  <1>3. found \subseteq Nat /\ 0 \notin found
    BY DEF LobbiesOf, IInv, TableTypes
  <1>4. found # {} => first \in found
    BY <1>3, Smallest
  <1>5. first \in {0} \cup found /\ (first = 0 => found = {}) /\ first \in Nat
    BY <1>3, <1>4
  <1> HIDE DEF found, first
  <1>6. [local[w] EXCEPT !.lobby = first] \in Local /\ [local[w] EXCEPT !.lobby = first].lobby = first
    BY <1>2, <1>5 DEF Local
  <1> QED BY <1>1, <1>2, <1>5, <1>6, LookupStep DEF Giving, found

-----------------------------------------------------------------------------
(* LiveStreamRepository: the row is created. *)

\* A lobby is added at the end, for its video only.
LEMMA LobbyAdded ==
  ASSUME IInv, NEW v \in Video, lobbies' = Append(lobbies, v)
  PROVE  /\ lobbies' \in Seq(Video)
         /\ LobbiesOf(v)' = LobbiesOf(v) \cup {Len(lobbies) + 1}
         /\ \A u : u # v => LobbiesOf(u)' = LobbiesOf(u)
  <1>1. lobbies \in Seq(Video)
    BY DEF IInv, TableTypes
  <1>2. /\ lobbies' \in Seq(Video)
        /\ DOMAIN lobbies' = DOMAIN lobbies \cup {Len(lobbies) + 1}
        /\ \A i \in DOMAIN lobbies : lobbies'[i] = lobbies[i] /\ i # Len(lobbies) + 1
        /\ lobbies'[Len(lobbies) + 1] = v
    BY <1>1, AppendProperties
  <1> QED BY <1>2 DEF LobbiesOf

\* The stream gets the lobby that was found, or the new one: nobody else has made a
\* lobby for this video since.
LEMMA CreateStreamStep ==
  ASSUME IInv, NEW w \in Worker, CreateStream(w)
  PROVE  IInv'
  <1> SUFFICES ASSUME NEW v, v = Of(w) PROVE IInv'
    OBVIOUS
  <1> DEFINE lobby == IF local[w].lobby = 0 THEN Len(lobbies) + 1 ELSE local[w].lobby
  <1>1. wpc[w] = "create" /\ wpc[w] # "idle"
    BY DEF CreateStream, At
  <1>2. CASE Abandon(w) /\ UNCHANGED tables
    BY <1>1, <1>2, AbandonStep
  <1>3. CASE ~(Abandon(w) /\ UNCHANGED tables)
    <2>1. PICK row : /\ row.video = v /\ row.lobby = lobby
                     /\ streams' = streams \cup {row}
      BY <1>3 DEF CreateStream
    <2>2. /\ lobbies' = IF local[w].lobby = 0 THEN Append(lobbies, v) ELSE lobbies
          /\ accounts' = accounts \cup {Owner}
          /\ space' = TRUE
          /\ videos' = [videos EXCEPT ![v] = IF videos[v] = NotStored THEN local[w].guests ELSE videos[v]]
          /\ Done(w)
      BY <1>3 DEF CreateStream
    <2>3. v \in Video /\ local[w] \in Local
      BY <1>1, JobOf DEF IInv, TableTypes
    <2>4. /\ InboxTypes' /\ OneHolder' /\ wpc'[w] = "idle" /\ FreeWorker(w) /\ disturbed' = disturbed
          /\ \A x \in Worker : x # w => wjob'[x] = wjob[x] /\ wpc'[x] = wpc[x]
      BY <2>2, FreeKeeps DEF IInv, Done
    <2>5. local' \in [Worker -> Local] /\ \A x \in Worker : x # w => local'[x] = local[x]
      BY <2>2, NoLocalType, LocalReset DEF Done
    <2>6. /\ lobbies' \in Seq(Video)
          /\ lobby \in LobbiesOf(v)'
          /\ LobbiesOf(v)' \subseteq LobbiesOf(v) \cup {lobby}
          /\ \A u : LobbiesOf(u) \subseteq LobbiesOf(u)'
          /\ \A u : u # v => LobbiesOf(u)' = LobbiesOf(u)
      <3>1. CASE local[w].lobby = 0
        BY <2>2, <2>3, <3>1, LobbyAdded
      <3>2. CASE local[w].lobby # 0
        <4>1. lobby \in LobbiesOf(v) /\ lobbies' = lobbies
          BY <1>1, <2>2, <3>2 DEF IInv, OwnLobby
        <4>2. \A u : LobbiesOf(u)' = LobbiesOf(u)
          BY <4>1 DEF LobbiesOf
        <4> QED BY <4>1, <4>2 DEF IInv, TableTypes
      <3> QED BY <3>1, <3>2
    <2> HIDE DEF lobby
    <2>7. TableTypes'
      <3>1. videos' \in [Video -> (SUBSET Guest) \cup {NotStored}]
        BY <2>2, <2>3 DEF IInv, TableTypes, Local
      <3>2. space' \in BOOLEAN
        BY <2>2
      <3> QED BY <2>2, <2>4, <2>5, <2>6, <3>1, <3>2 DEF IInv, TableTypes
    <2>8. OwnLobby'
      <3>1. \A s \in streams' : s.video \in Video /\ (s.lobby \in LobbiesOf(s.video))'
        BY <2>1, <2>3, <2>6 DEF IInv, OwnLobby
      <3>2. ASSUME NEW x \in Worker, wpc'[x] = "create", local'[x].lobby # 0
            PROVE  (local[x].lobby \in LobbiesOf(Of(x)))'
        <4>1. x # w /\ local[x].lobby \in LobbiesOf(Of(x))
          BY <2>4, <2>5, <3>2 DEF IInv, OwnLobby
        <4> QED BY <2>4, <2>5, <2>6, <4>1 DEF LobbiesOf, Of
      <3> QED BY <3>1, <3>2 DEF OwnLobby
    <2>9. AllSound'
      <3>1. /\ row \in Rows(v)' /\ \A u \in Video : u # v => Rows(u)' = Rows(u)
        BY <2>1 DEF Rows
      <3>2. OnlyTouches(v)
        BY <2>2, <2>4, <2>6, <3>1 DEF OnlyTouches, IInv, TableTypes
      <3>3. OnlyMoves(w)
        BY <2>4, <2>5 DEF OnlyMoves
      <3>4. ASSUME v \notin disturbed'
            PROVE  Settled(v)' /\ \A i, j \in LobbiesOf(v)' : i = j
        <4>1. Stage(w, v) /\ \A i, j \in LobbiesOf(v) : i = j
          BY <1>1, <2>4, <3>4, OnlyWorker DEF Sound
        <4>2. videos[v] # NotStored /\ videos[v] \subseteq accounts
          BY <1>1, <4>1 DEF Stage, Giving
        <4>3. videos'[v] = videos[v]
          BY <2>2, <2>3, <4>2 DEF IInv, TableTypes
        <4>4. lobby \in LobbiesOf(v) \/ LobbiesOf(v) = {}
          BY <1>1, <4>1 DEF Stage, IInv, OwnLobby, lobby
        <4> QED BY <2>2, <2>6, <3>1, <4>1, <4>2, <4>3, <4>4 DEF Settled
      <3> QED BY <1>1, <2>4, <3>2, <3>3, <3>4, FreedSound
    <2> QED BY <2>4, <2>7, <2>8, <2>9 DEF IInv
  <1> QED BY <1>2, <1>3

-----------------------------------------------------------------------------
(* DeleteVideo. *)

LEMMA DeleteVideoStep ==
  ASSUME IInv, NEW w \in Worker, DeleteVideo(w)
  PROVE  IInv'
  <1>1. wpc[w] = "handle" /\ wpc[w] # "idle" /\ UNCHANGED <<instances, accounts, space, lobbies, streams>>
    BY DEF DeleteVideo, HandleDeleteRequest, At
  <1>2. CASE Abandon(w) /\ UNCHANGED videos
    BY <1>1, <1>2, AbandonStep
  <1>3. CASE videos' = DeleteByIri(Of(w)) /\ StepWorker(w, "revoke") /\ UNCHANGED <<local, disturbed>>
    <2> SUFFICES ASSUME NEW v, v = Of(w) PROVE IInv'
      OBVIOUS
    <2>1. v \in Video
      BY <1>1, JobOf DEF IInv
    <2>2. /\ videos' \in [Video -> (SUBSET Guest) \cup {NotStored}]
          /\ videos'[v] = NotStored /\ OnlyTouches(v) /\ LobbiesOf(v)' = LobbiesOf(v)
      BY <1>1, <1>3, <2>1, RowChanged DEF DeleteByIri
    <2>3. "revoke" \in State \ {"idle"} /\ "revoke" \notin Before \cup Giving
      BY DEF State, Before, Giving
    <2>4. /\ InboxTypes' /\ OneHolder' /\ wjob' = wjob /\ wpc'[w] = "revoke"
          /\ \A x \in Worker : x # w => wpc'[x] = wpc[x]
      BY <1>1, <1>3, <2>3, StepKeeps DEF IInv
    <2>5. TableTypes'
      BY <1>1, <1>3, <2>2 DEF IInv, TableTypes
    <2>6. OwnLobby'
      BY <1>1, <1>3, <2>4, LobbiesKept
    <2>7. AllSound'
      <3>1. OnlyMoves(w)
        BY <1>3, <2>4 DEF OnlyMoves
      <3>2. Stage(w, v)'
        BY <2>2, <2>3, <2>4 DEF Stage
      <3>3. ASSUME v \notin disturbed'
            PROVE  \A i, j \in LobbiesOf(v)' : i = j
        BY <1>1, <1>3, <2>2, <3>3, OnlyWorker DEF Sound
      <3> QED BY <1>1, <1>3, <2>2, <2>3, <3>1, <3>2, <3>3, SteppedSound
    <2> QED BY <2>4, <2>5, <2>6, <2>7 DEF IInv
  <1> QED BY <1>2, <1>3 DEF DeleteVideo

\* Every row of the stream is deleted.
LEMMA DeleteStreamAccessStep ==
  ASSUME IInv, NEW w \in Worker, DeleteStreamAccess(w)
  PROVE  IInv'
  <1>1. wpc[w] = "revoke" /\ wpc[w] # "idle" /\ UNCHANGED <<videos, instances, accounts, space, lobbies>>
    BY DEF DeleteStreamAccess, At
  <1>2. CASE Abandon(w) /\ UNCHANGED streams
    BY <1>1, <1>2, AbandonStep
  <1>3. CASE streams' = DeleteByUuid(Of(w)) /\ Done(w)
    <2> SUFFICES ASSUME NEW v, v = Of(w) PROVE IInv'
      OBVIOUS
    <2>1. /\ InboxTypes' /\ OneHolder' /\ wpc'[w] = "idle" /\ FreeWorker(w) /\ disturbed' = disturbed
          /\ \A x \in Worker : x # w => wjob'[x] = wjob[x] /\ wpc'[x] = wpc[x]
      BY <1>3, FreeKeeps DEF IInv, Done
    <2>2. local' \in [Worker -> Local] /\ \A x \in Worker : x # w => local'[x] = local[x]
      BY <1>3, NoLocalType, LocalReset DEF Done
    <2>3. TableTypes'
      BY <1>1, <2>1, <2>2, TablesKept DEF IInv, TableTypes
    <2>4. /\ streams' \subseteq streams /\ Rows(v)' = {}
          /\ \A u : u # v => Rows(u)' = Rows(u)
      BY <1>3 DEF DeleteByUuid, Rows
    <2>5. OwnLobby'
      BY <1>1, <2>1, <2>2, <2>4, LobbiesKept
    <2>6. AllSound'
      <3>1. \A u : LobbiesOf(u)' = LobbiesOf(u)
        BY <1>1 DEF LobbiesOf
      <3>2. OnlyTouches(v) /\ OnlyMoves(w)
        BY <1>1, <2>1, <2>2, <2>4, <3>1 DEF OnlyTouches, OnlyMoves
      <3>3. ASSUME v \notin disturbed'
            PROVE  Settled(v)' /\ \A i, j \in LobbiesOf(v) : i = j
        <4>1. Stage(w, v) /\ \A i, j \in LobbiesOf(v) : i = j
          BY <1>1, <2>1, <3>3, OnlyWorker DEF Sound
        <4> QED BY <1>1, <2>4, <4>1 DEF Stage, Settled
      <3> QED BY <1>1, <2>1, <3>1, <3>2, <3>3, FreedSound
    <2> QED BY <2>1, <2>3, <2>5, <2>6 DEF IInv
  <1> QED BY <1>2, <1>3 DEF DeleteStreamAccess

-----------------------------------------------------------------------------
(* The invariant and the theorems. *)

LEMMA InitInv == Init => IInv
  <1> SUFFICES ASSUME Init PROVE IInv
    OBVIOUS
  <1>1. /\ waiting = {} /\ streams = {} /\ lobbies = <<>>
        /\ \A w \in Worker : wjob[w] = NoJob /\ wpc[w] = "idle"
        /\ \A v \in Video : videos[v] = NotStored
    BY DEF Init, InitInbox
  <1>2. InboxTypes
    <2>1. up \in BOOLEAN /\ kills \in 0..MaxKills /\ posted \in 0..MaxPosts
      BY DEF Init, InitInbox
    <2> QED BY <2>1 DEF Init, InitInbox, InboxTypes, State
  <1>3. OneHolder
    BY <1>1 DEF OneHolder
  <1>4. TableTypes
    <2>1. local \in [Worker -> Local] /\ space \in BOOLEAN
      BY NoLocalType DEF Init
    <2>2. lobbies \in Seq(Video)
      BY <1>1, EmptySeq
    <2> QED BY <2>1, <2>2 DEF Init, TableTypes
  <1>5. OwnLobby
    BY <1>1 DEF OwnLobby
  <1>6. AllSound
    BY <1>1 DEF AllSound, Sound, Settled, Busy, Rows, LobbiesOf
  <1> QED BY <1>2, <1>3, <1>4, <1>5, <1>6 DEF IInv

LEMMA NextInv == IInv /\ [Next]_vars => IInv'
  <1> SUFFICES ASSUME IInv, [Next]_vars PROVE IInv'
    OBVIOUS
  <1>1. CASE UNCHANGED vars
    <2>1. InboxTypes' /\ OneHolder'
      BY <1>1, InboxKept DEF vars, IInv
    <2>2. TableTypes' /\ OwnLobby' /\ AllSound'
      BY <1>1, TablesKept, LobbiesKept, AllSoundKept DEF vars, IInv, TableTypes
    <2> QED BY <2>1, <2>2 DEF IInv
  <1>2. CASE Kill \/ Restart
    BY <1>2, KillStep, RestartStep
  <1>3. ASSUME NEW v \in Video,
               \/ \E type \in {"Announce", "Update"} :
                    Post(type, v, TRUE, Guest) \/ Post(type, v, FALSE, {})
               \/ Post("Delete", v, FALSE, {})
        PROVE  IInv'
    <2>1. TRUE \in BOOLEAN /\ FALSE \in BOOLEAN /\ Guest \in SUBSET Guest /\ {} \in SUBSET Guest
      OBVIOUS
    <2>2. \A type \in {"Announce", "Update", "Delete"} :
            Post(type, v, TRUE, Guest) \/ Post(type, v, FALSE, {}) => IInv'
      BY <2>1, PostStep, Zenon
    <2> QED BY <1>3, <2>2
  <1>4. ASSUME NEW w \in Worker,
               \/ Take(w) \/ Check(w) \/ BuildVideo(w) \/ BuildVideoFails(w) \/ AddInstancePanics(w)
               \/ SaveVideo(w) \/ UpdateStreamAccess(w) \/ CreateStreamAccess(w)
        PROVE  IInv'
    BY <1>4, TakeStep, CheckStep, BuildVideoStep, BuildVideoFailsStep, PanicsStep, SaveVideoStep,
      UpdateStreamAccessStep, CreateStreamAccessStep
  <1>5. ASSUME NEW w \in Worker,
               \/ CreateStreamAccessPanics(w) \/ FindAccount(w) \/ FindSpace(w) \/ FindLobby(w)
               \/ CreateStream(w) \/ DeleteVideo(w) \/ DeleteStreamAccess(w)
        PROVE  IInv'
    BY <1>5, PanicsStep, FindAccountStep, FindLobbyStep, CreateStreamStep, DeleteVideoStep,
      DeleteStreamAccessStep
  <1> QED BY <1>1, <1>2, <1>3, <1>4, <1>5 DEF Next

LEMMA Inductive == Spec => []IInv
  BY InitInv, NextInv, PTL DEF Spec

\* However many activities are handled at once, however often the process is killed and
\* whatever statements fail: streams, lobbies and accounts are well formed, and unless the
\* handling of a video was disturbed its streams share one lobby (UpsertLiveStream looks
\* for it first) and the guests stored with it have accounts (BuildGuestAccounts).
THEOREM StreamsCorrect == Spec => []StreamsOK
  <1>1. IInv => StreamsOK
    <2> SUFFICES ASSUME IInv PROVE StreamsOK
      OBVIOUS
    <2>1. InboxTypeOK
      <3>1. \A w \in Worker : wjob[w].id \in 0..posted \ {p.id : p \in waiting}
        <4> SUFFICES ASSUME NEW w \in Worker PROVE wjob[w].id \in 0..posted \ {p.id : p \in waiting}
          OBVIOUS
        <4>1. CASE wjob[w] = NoJob
          BY <4>1 DEF IInv, InboxTypes, OneHolder, NoJob
        <4>2. CASE wjob[w] # NoJob
          BY <4>2 DEF IInv, InboxTypes, OneHolder
        <4> QED BY <4>1, <4>2
      <3>2. \A v, w \in Worker : wjob[v].id = wjob[w].id /\ wjob[v] # NoJob => v = w
        <4>1. NoJob.id = 0
          BY DEF NoJob
        <4>2. \A v \in Worker : wjob[v] # NoJob => wjob[v].id # 0
          BY DEF IInv, InboxTypes, OneHolder
        <4> QED BY <4>1, <4>2 DEF IInv, OneHolder
      <3> QED BY <3>1, <3>2 DEF IInv, InboxTypes, OneHolder, InboxTypeOK
    <2>2. TypeOK
      BY <2>1 DEF IInv, TableTypes, OwnLobby, LobbiesOf, TypeOK
    <2>3. OneLobbyPerStream
      <3> SUFFICES ASSUME NEW s \in streams, NEW t \in streams, s.video = t.video, s.video \notin disturbed
                   PROVE  s.lobby = t.lobby
        BY DEF OneLobbyPerStream
      <3>1. s.video \in Video /\ s.lobby \in LobbiesOf(s.video) /\ t.lobby \in LobbiesOf(s.video)
        BY DEF IInv, OwnLobby
      <3> QED BY <3>1 DEF IInv, AllSound, Sound
    <2>4. GuestsHaveAccounts
      BY DEF IInv, AllSound, Sound, Settled, GuestsHaveAccounts
    <2> QED BY <2>2, <2>3, <2>4 DEF StreamsOK
  <1> QED BY <1>1, Inductive, PTL

\* Once nobody works on a video, and unless its handling was disturbed, there is a live
\* stream for it exactly when it is stored (AddVideo, UpsertVideo and DeleteVideo, each of
\* which changes the video first and the stream several steps later).
THEOREM AccessCorrect == Spec => []AccessIffVideo
  <1>1. IInv => AccessIffVideo
    BY DEF IInv, AllSound, Sound, Settled, AccessIffVideo
  <1> QED BY <1>1, Inductive, PTL

\* The lobby of a video is its lobby for good: its row stays, and a stream of the video that
\* is there after a step has the lobby the video had before it, also when the video was
\* deleted meanwhile and announced again (UpsertLiveStream finds the row that
\* DeleteStreamAccessByVideo left).
SameLobby ==
  [][/\ \A v \in Video : LobbiesOf(v) \subseteq LobbiesOf(v)'
     /\ \A s \in streams' : s.video \notin disturbed' =>
          \A i \in LobbiesOf(s.video) : s.lobby = i]_vars

\* Only CreateStream changes the lobby table, and only at its end.
LEMMA LobbiesGrow ==
  ASSUME IInv, [Next]_vars
  PROVE  \A v \in Video : LobbiesOf(v) \subseteq LobbiesOf(v)'
  <1>1. CASE lobbies' = lobbies
    BY <1>1 DEF LobbiesOf
  <1>2. ASSUME NEW w \in Worker, CreateStream(w)
        PROVE  \A v \in Video : LobbiesOf(v) \subseteq LobbiesOf(v)'
    <2>1. Of(w) \in Video
      BY <1>2, JobOf DEF CreateStream, At, IInv
    <2>2. lobbies' = lobbies \/ lobbies' = Append(lobbies, Of(w))
      BY <1>2 DEF CreateStream
    <2>3. CASE lobbies' = Append(lobbies, Of(w))
      <3> SUFFICES ASSUME NEW u \in Video, lobbies' = Append(lobbies, u)
                   PROVE  \A v \in Video : LobbiesOf(v) \subseteq LobbiesOf(v)'
        BY <2>1, <2>3
      <3> QED BY LobbyAdded
    <2> QED BY <1>1, <2>2, <2>3
  <1>3. CASE UNCHANGED vars
    BY <1>1, <1>3 DEF vars
  <1>4. CASE Kill \/ Restart
    BY <1>1, <1>4 DEF Kill, Restart
  <1>5. ASSUME NEW v \in Video,
               \/ \E type \in {"Announce", "Update"} :
                    Post(type, v, TRUE, Guest) \/ Post(type, v, FALSE, {})
               \/ Post("Delete", v, FALSE, {})
        PROVE  lobbies' = lobbies
    BY <1>5 DEF Post
  <1>6. ASSUME NEW w \in Worker,
               \/ Take(w) \/ Check(w) \/ BuildVideo(w) \/ BuildVideoFails(w) \/ AddInstancePanics(w)
               \/ SaveVideo(w) \/ UpdateStreamAccess(w) \/ CreateStreamAccess(w)
               \/ CreateStreamAccessPanics(w) \/ FindAccount(w) \/ FindSpace(w) \/ FindLobby(w)
               \/ DeleteVideo(w) \/ DeleteStreamAccess(w)
        PROVE  lobbies' = lobbies
    BY <1>6 DEF Take, Check, BuildVideo, BuildVideoFails, AddInstancePanics, SaveVideo,
      UpdateStreamAccess, CreateStreamAccess, CreateStreamAccessPanics, FindAccount, FindSpace,
      FindLobby, Lookup, DeleteVideo, DeleteStreamAccess
  <1> QED BY <1>1, <1>2, <1>3, <1>4, <1>5, <1>6 DEF Next

\* People who come back to a video come back to the lobby they knew, whatever activities
\* about it were handled between.
THEOREM SameLobbyCorrect == Spec => SameLobby
  <1>1. IInv /\ IInv' /\ [Next]_vars =>
          [/\ \A v \in Video : LobbiesOf(v) \subseteq LobbiesOf(v)'
           /\ \A s \in streams' : s.video \notin disturbed' =>
                \A i \in LobbiesOf(s.video) : s.lobby = i]_vars
    <2> SUFFICES ASSUME IInv, IInv', [Next]_vars,
                        NEW s \in streams', s.video \notin disturbed', NEW i \in LobbiesOf(s.video)
                 PROVE  s.lobby = i
      BY LobbiesGrow
    <2>1. s.video \in Video /\ \A v \in Video : v = s.video => s.lobby \in LobbiesOf(v)'
      BY DEF IInv, OwnLobby, LobbiesOf
    <2>2. \A v \in Video : v = s.video => i \in LobbiesOf(v)'
      BY LobbiesGrow
    <2>3. \A v \in Video \ disturbed' : \A j, k \in LobbiesOf(v)' : j = k
      BY DEF IInv, AllSound, Sound
    <2> QED BY <2>1, <2>2, <2>3
  <1> QED BY <1>1, Inductive, PTL DEF Spec, SameLobby
=============================================================================
