---------------------------- MODULE FollowProofs ----------------------------
(***************************************************************************)
(* Proofs about the follow handshake, for any servers, requests and         *)
(* workers, and however often the process is killed.                        *)
(*                                                                          *)
(* An Accept changes the first row of the follow table, whichever follow it *)
(* is about.  What can be said of that row all the same rests on the way of *)
(* the Accept: posted, taken by one worker, verified, compared with the row *)
(* and only then applied to it.                                             *)
(*                                                                          *)
(* A first start may fail at every create without noticing.  That the own   *)
(* actor is never behind another one rests on the order of the creates, on  *)
(* the empty table that Migrate asks for, and on Register, which stores     *)
(* nothing while the own actor is missing.                                  *)
(***************************************************************************)
EXTENDS Follow, FiniteSetTheorems, SequenceTheorems, TLAPS

Activity == [id : Nat, from : Server, stated : {"hs2019"}, used : {"rsa-sha512"},
             form : {"iri", "object"}, target : Server \cup {Nobody}]

Row == [iri : Request, target : Server, state : {"pending", "accepted"}]

Actor == Server \cup {Local}

\* The inbox and its workers.
InboxTypes ==
  /\ up \in BOOLEAN
  /\ kills \in 0..MaxKills
  /\ silent \subseteq Fragile
  /\ posted \in 0..MaxPosts
  /\ waiting \subseteq Activity
  /\ wpc \in [Worker -> {"idle", "verify", "handle", "save"}]
  /\ wjob \in [Worker -> Activity \cup {NoJob}]

\* The tables and the requests.
TableTypes ==
  /\ calls \in 0..2
  /\ booting \in Seq(Actor)
  /\ table \in {"actor", "account", "instance"}
  /\ actors \in Seq(Actor)
  /\ accounts \subseteq Range(Trusted)
  /\ follows \in Seq(Row)
  /\ rpc \in [Request -> {"idle", "fetch", "add", "send", "done"}]
  /\ raccount \in [Request -> Server \cup {Nobody}]
  /\ opc \in [Sender -> Request \cup {Free}]
  /\ accepts \subseteq Activity

\* Every activity waits once or is with one worker.
OneHolder ==
  /\ \A p \in waiting : p.id \in 1..posted
  /\ \A p, q \in waiting : p.id = q.id => p = q
  /\ \A w \in Worker : wjob[w] = NoJob <=> wpc[w] = "idle"
  /\ \A w \in Worker : wjob[w] # NoJob =>
       wjob[w].id \in 1..posted /\ \A p \in waiting : p.id # wjob[w].id
  /\ \A v, w \in Worker : wjob[v] # NoJob /\ wjob[w] # NoJob /\ wjob[v].id = wjob[w].id => v = w

\* The own actor is the first one to be created, and nothing else is while the
\* table it is created in may be empty.
Booting ==
  /\ \A i \in DOMAIN booting : i > 1 => booting[i] \in Range(Trusted)
  /\ booting # <<>> /\ booting[1] # Local => booting[1] \in Range(Trusted)
  /\ booting # <<>> /\ booting[1] = Local => actors = <<>> \/ actors[1] = Local
  /\ booting = <<>> => table = "actor"
  /\ booting # <<>> /\ table = "account" => booting[1] # Local
  /\ LocalActorFirst
  /\ AccountsHaveActors

Stored == {follows[i].iri : i \in DOMAIN follows}

\* Every request has one row at most, stored before anything is sent.
OneRowPerRequest ==
  /\ Len(follows) = Cardinality(Stored)
  /\ \A r \in Request : rpc[r] \in {"idle", "fetch", "add"} => r \notin Stored
  /\ \A r \in Request : rpc[r] \in {"fetch", "add"} => raccount[r] \in Server
  /\ \A i \in DOMAIN follows : follows[i].target = raccount[follows[i].iri]
  /\ \A r \in Request : rpc[r] = "send" \/ (\E o \in Sender : opc[o] = r) => r \in Stored

\* No request gets on without the own actor.
Own == \A r \in Request : rpc[r] \in {"fetch", "add", "send"} \/ r \in Stored => Local \in Range(actors)

\* The activity without what tells two deliveries of it apart.
Word(p) == [p EXCEPT !.id = 0]

\* What is in the inbox was posted.
Posted(p) == Verify(p) => Word(p) \in accepts

\* A job has passed every check before the row is changed.
Checked ==
  /\ \A p \in waiting : Posted(p)
  /\ \A w \in Worker :
       /\ wjob[w] # NoJob => Posted(wjob[w])
       /\ wpc[w] \in {"handle", "save"} => Verify(wjob[w])
       /\ wpc[w] = "save" => follows # <<>> /\ SameTarget(wjob[w], GetFollowByIri)

\* The inductive invariant.
IInv ==
  /\ InboxTypes
  /\ TableTypes
  /\ OneHolder
  /\ Booting
  /\ OneRowPerRequest
  /\ Own
  /\ Checked
  /\ AcceptedOnWord
-----------------------------------------------------------------------------
USE InboxAssumption, FollowAssumption DEF poolVars, inboxVars, boot, tables, requests

(* Facts about the operators. *)

\* The signature does not cover the id of a delivery.
LEMMA VerifyWord ==
  ASSUME NEW p \in Activity
  PROVE  /\ Verify(Word(p)) <=> Verify(p)
         /\ Word(p).form = p.form /\ Word(p).target = p.target
  BY DEF Activity, Word, Verify

\* An activity is no empty job.
LEMMA ActivityIsJob ==
  ASSUME NEW p \in Activity, p.id # 0
  PROVE  p # NoJob
  BY DEF NoJob

\* The actor of a fetched account is a server.
LEMMA DocumentId ==
  ASSUME NEW s \in Server
  PROVE  Document[s].id \in Server
  BY DocumentAssumption

\* An actor is stored at most once, at the end.
LEMMA UpsertType ==
  ASSUME actors \in Seq(Actor), NEW a \in Actor
  PROVE  /\ Upsert(a) \in Seq(Actor)
         /\ Upsert(a) # <<>>
         /\ actors # <<>> => Upsert(a)[1] = actors[1]
         /\ actors = <<>> => Upsert(a)[1] = a
         /\ Range(Upsert(a)) = Range(actors) \cup {a}
  <1>1. CASE a \in Range(actors)
    <2>1. actors # <<>>
      BY <1>1 DEF Range
    <2> QED BY <1>1, <2>1 DEF Upsert, GetActorByActorIRI
  <1>2. CASE a \notin Range(actors)
    <2>1. Upsert(a) = Append(actors, a)
      BY <1>2 DEF Upsert, GetActorByActorIRI
    <2>2. /\ Append(actors, a) \in Seq(Actor) /\ Len(Append(actors, a)) = Len(actors) + 1
          /\ \A i \in 1..Len(actors) : Append(actors, a)[i] = actors[i]
          /\ Append(actors, a)[Len(actors) + 1] = a
      BY AppendProperties
    <2>3. /\ DOMAIN actors = 1..Len(actors) /\ Len(actors) \in Nat
          /\ DOMAIN Append(actors, a) = 1..(Len(actors) + 1)
      BY <2>2
    <2>4. Range(Append(actors, a)) = Range(actors) \cup {a}
      BY <2>2, <2>3 DEF Range
    <2> QED BY <2>1, <2>2, <2>3, <2>4
  <1> QED BY <1>1, <1>2

\* A row of the follow table names a request and a server.
LEMMA RowTypes ==
  ASSUME IInv, NEW i \in DOMAIN follows
  PROVE  follows[i].iri \in Request /\ follows[i].target \in Server
  <1>1. follows[i] \in Row
    BY DEF IInv, TableTypes
  <1> QED BY <1>1 DEF Row

-----------------------------------------------------------------------------
(* What a step leaves alone. *)

LEMMA InboxKept ==
  ASSUME IInv, UNCHANGED inboxVars
  PROVE  InboxTypes' /\ OneHolder'
  BY DEF IInv, InboxTypes, OneHolder

LEMMA TablesKept ==
  ASSUME IInv, UNCHANGED <<boot, tables, requests, opc>>
  PROVE  /\ accepts' \subseteq Activity => TableTypes'
         /\ Booting' /\ OneRowPerRequest' /\ Own'
  <1>1. accepts' \subseteq Activity => TableTypes'
    BY DEF IInv, TableTypes
  <1>2. Booting'
    BY DEF IInv, Booting, LocalActorFirst, AccountsHaveActors
  <1>3. OneRowPerRequest' /\ Own'
    BY DEF IInv, OneRowPerRequest, Own, Stored
  <1> QED BY <1>1, <1>2, <1>3

\* An actor is stored while nothing else changes but the start.
LEMMA ActorStored ==
  ASSUME IInv, NEW a \in Actor, actors' = Upsert(a), UNCHANGED <<accounts, follows, requests, opc>>,
         a = Local => actors = <<>> \/ actors[1] = Local
  PROVE  /\ actors' \in Seq(Actor) /\ actors' # <<>>
         /\ LocalActorFirst' /\ AccountsHaveActors' /\ OneRowPerRequest' /\ Own'
         /\ actors = <<>> \/ actors[1] = Local => actors'[1] = a \/ actors'[1] = Local
         /\ actors # <<>> => actors'[1] = actors[1]
  <1>1. actors \in Seq(Actor)
    BY DEF IInv, TableTypes
  <1>2. /\ actors' \in Seq(Actor) /\ actors' # <<>>
        /\ actors # <<>> => actors'[1] = actors[1]
        /\ actors = <<>> => actors'[1] = a
        /\ Range(actors') = Range(actors) \cup {a}
    BY <1>1, UpsertType
  <1>3. LocalActorFirst'
    <2>1. actors = <<>> => Range(actors) = {}
      BY DEF Range
    <2> QED BY <1>2, <2>1 DEF IInv, Booting, LocalActorFirst
  <1>4. AccountsHaveActors'
    BY <1>2 DEF IInv, Booting, AccountsHaveActors
  <1>5. OneRowPerRequest' /\ Own'
    <2>1. Stored' = Stored
      BY DEF Stored
    <2> QED BY <1>2, <2>1 DEF IInv, OneRowPerRequest, Own
  <1> QED BY <1>2, <1>3, <1>4, <1>5

\* The rows keep their targets.
RowsStay ==
  /\ accepts \subseteq accepts'
  /\ \A i \in DOMAIN follows : i \in DOMAIN follows' /\ follows'[i].target = follows[i].target

LEMMA SameTargetKept ==
  ASSUME IInv, RowsStay, NEW p \in Activity, follows # <<>>, SameTarget(p, GetFollowByIri)
  PROVE  follows' # <<>> /\ (p.form = "object" => p.target = follows'[1].target)
  <1>1. 1 \in DOMAIN follows
    BY DEF IInv, TableTypes
  <1>2. 1 \in DOMAIN follows' /\ follows'[1].target = follows[1].target
    BY <1>1 DEF RowsStay
  <1> QED BY <1>2 DEF SameTarget, GetFollowByIri

LEMMA CheckedKept ==
  ASSUME IInv, RowsStay, UNCHANGED <<waiting, wpc, wjob>>
  PROVE  Checked'
  <1>1. \A p \in waiting : Verify(p) => Word(p) \in accepts'
    BY DEF IInv, Checked, Posted, RowsStay
  <1>2. ASSUME NEW w \in Worker
        PROVE  /\ wjob[w] # NoJob => (Verify(wjob[w]) => Word(wjob[w]) \in accepts')
               /\ wpc[w] \in {"handle", "save"} => Verify(wjob[w])
    BY DEF IInv, Checked, Posted, RowsStay
  <1>3. ASSUME NEW w \in Worker, wpc[w] = "save"
        PROVE  follows' # <<>> /\ (wjob[w].form = "object" => wjob[w].target = follows'[1].target)
    <2>1. wjob[w] \in Activity
      BY <1>3 DEF IInv, InboxTypes, OneHolder
    <2> QED BY <1>3, <2>1, SameTargetKept DEF IInv, Checked
  <1> QED BY <1>1, <1>2, <1>3 DEF Checked, Posted, Word, Verify, SameTarget, GetFollowByIri

LEMMA AcceptedKept ==
  ASSUME IInv, RowsStay,
         \A i \in DOMAIN follows' : follows'[i].state = "accepted" =>
           i \in DOMAIN follows /\ follows[i].state = "accepted"
  PROVE  AcceptedOnWord'
  <1> SUFFICES ASSUME NEW i \in DOMAIN follows', follows'[i].state = "accepted"
               PROVE  \E p \in accepts' :
                        /\ Verify(p)
                        /\ p.form = "iri" \/ p.target = follows'[i].target
    BY DEF AcceptedOnWord, Verify
  <1>1. i \in DOMAIN follows /\ follows[i].state = "accepted"
    OBVIOUS
  <1>2. PICK p \in accepts : Verify(p) /\ (p.form = "iri" \/ p.target = follows[i].target)
    BY <1>1 DEF IInv, AcceptedOnWord
  <1>3. p \in accepts' /\ follows'[i].target = follows[i].target
    BY <1>1 DEF RowsStay
  <1> QED BY <1>2, <1>3

LEMMA AllKept ==
  ASSUME IInv, UNCHANGED follows, accepts \subseteq accepts'
  PROVE  RowsStay /\ AcceptedOnWord'
  <1>1. RowsStay
    BY DEF RowsStay
  <1> QED BY <1>1, AcceptedKept

-----------------------------------------------------------------------------
(* One lemma per step. *)

\* The process starts.
LEMMA StartStep ==
  ASSUME IInv, Start
  PROVE  IInv'
  <1>1. InboxTypes' /\ OneHolder'
    BY DEF Start, IInv, InboxTypes, OneHolder
  <1>2. TableTypes'
    BY DEF Start, IInv, TableTypes
  <1>3. Booting' /\ OneRowPerRequest' /\ Own'
    BY DEF Start, IInv, Booting, LocalActorFirst, AccountsHaveActors, OneRowPerRequest, Own, Stored
  <1>4. Checked' /\ AcceptedOnWord'
    BY AllKept, CheckedKept DEF Start
  <1> QED BY <1>1, <1>2, <1>3, <1>4 DEF IInv

\* The process ends, and with it what its workers hold.
LEMMA DieKept ==
  ASSUME IInv, Die, kills' \in 0..MaxKills, UNCHANGED <<follows, accepts>>
  PROVE  InboxTypes' /\ OneHolder' /\ Checked' /\ AcceptedOnWord'
  <1>1. InboxTypes'
    <2>1. wpc' \in [Worker -> {"idle", "verify", "handle", "save"}] /\ wjob' \in [Worker -> Activity \cup {NoJob}]
      BY DEF Die
    <2>2. up' \in BOOLEAN /\ waiting' \subseteq Activity /\ UNCHANGED <<silent, posted>>
      BY DEF Die
    <2> QED BY <2>1, <2>2 DEF IInv, InboxTypes
  <1>2. waiting' = {} /\ \A w \in Worker : wjob'[w] = NoJob /\ wpc'[w] = "idle"
    BY DEF Die
  <1>3. OneHolder' /\ Checked'
    BY <1>2 DEF OneHolder, Checked
  <1> QED BY <1>1, <1>3, AllKept

\* The first start ends with an error: what was created stays.
LEMMA StartFailsStep ==
  ASSUME IInv, StartFails
  PROVE  IInv'
  <1>1. InboxTypes' /\ OneHolder' /\ Checked' /\ AcceptedOnWord'
    <2>1. kills' \in 0..MaxKills
      BY DEF StartFails, IInv, InboxTypes
    <2> QED BY <2>1, DieKept DEF StartFails
  <1>2. TableTypes'
    BY EmptySeq DEF StartFails, IInv, TableTypes
  <1>3. Booting' /\ OneRowPerRequest' /\ Own'
    BY DEF StartFails, IInv, Booting, LocalActorFirst, AccountsHaveActors, OneRowPerRequest, Own, Stored
  <1> QED BY <1>1, <1>2, <1>3 DEF IInv

\* Migrate begins to create the own actor only in an empty table.
LEMMA MigrateOk ==
  ASSUME IInv, Migrate
  PROVE  IInv'
  <1> DEFINE b == <<Local>> \o Trusted
  <1>1. InboxTypes' /\ OneHolder'
    BY InboxKept DEF Migrate
  <1>2. Trusted \in Seq(Actor) /\ <<Local>> \in Seq(Actor)
    BY SeqMonotonic DEF Actor
  <1>3. /\ b \in Seq(Actor) /\ Len(b) = Len(Trusted) + 1 /\ b[1] = Local
        /\ \A i \in 1..Len(b) : i > 1 => b[i] = Trusted[i - 1]
    BY <1>2, ConcatProperties
  <1>4. \A i \in DOMAIN b : i > 1 => b[i] \in Range(Trusted)
    <2>1. DOMAIN Trusted = 1..Len(Trusted) /\ Len(Trusted) \in Nat /\ DOMAIN b = 1..Len(b)
      BY <1>2, <1>3
    <2> QED BY <1>3, <2>1 DEF Range
  <1> HIDE DEF b
  <1>5. (actors = <<>> /\ booting' = b) \/ booting' = booting
    BY DEF Migrate, b
  <1>6. TableTypes'
    <2>1. calls' \in 0..2
      BY DEF Migrate, IInv, TableTypes
    <2> QED BY <1>3, <1>5, <2>1 DEF Migrate, IInv, TableTypes
  <1>7. UNCHANGED <<table, tables, requests, opc, accepts>> /\ booting = <<>>
    BY DEF Migrate
  <1>8. Booting'
    <2>1. table = "actor"
      BY <1>7 DEF IInv, Booting
    <2>2. booting' # booting => booting' # <<>>
      BY <1>3, <1>5
    <2> QED BY <2>1, <2>2, <1>3, <1>4, <1>5, <1>7 DEF IInv, Booting, LocalActorFirst, AccountsHaveActors
  <1>9. OneRowPerRequest' /\ Own'
    BY <1>7 DEF IInv, OneRowPerRequest, Own, Stored
  <1>10. Checked' /\ AcceptedOnWord'
    BY AllKept, CheckedKept DEF Migrate
  <1> QED BY <1>1, <1>6, <1>8, <1>9, <1>10 DEF IInv

\* What the first start creates is an actor, the own one or a trusted one.
LEMMA HeadOfBooting ==
  ASSUME IInv, booting # <<>>
  PROVE  /\ booting[1] = Head(booting) /\ Head(booting) \in Actor
         /\ Head(booting) # Local => Head(booting) \in Range(Trusted)
         /\ Head(booting) = Local => actors = <<>> \/ actors[1] = Local
         /\ Tail(booting) \in Seq(Actor)
         /\ \A i \in DOMAIN Tail(booting) : Tail(booting)[i] \in Range(Trusted)
  <1>1. booting \in Seq(Actor)
    BY DEF IInv, TableTypes
  <1>2. /\ Head(booting) \in Actor /\ Tail(booting) \in Seq(Actor) /\ Len(Tail(booting)) = Len(booting) - 1
        /\ booting[1] = Head(booting) /\ \A i \in 1..Len(Tail(booting)) : Tail(booting)[i] = booting[i + 1]
    BY <1>1, HeadTailProperties
  <1>3. DOMAIN booting = 1..Len(booting) /\ DOMAIN Tail(booting) = 1..Len(Tail(booting)) /\ Len(booting) \in Nat
    BY <1>1, <1>2
  <1>4. \A i \in DOMAIN Tail(booting) : Tail(booting)[i] \in Range(Trusted)
    BY <1>2, <1>3 DEF IInv, Booting
  <1> QED BY <1>2, <1>4 DEF IInv, Booting

\* The own actor, or one of a trusted instance, is created or is not.
LEMMA CreateActorStep ==
  ASSUME IInv, CreateActor
  PROVE  IInv'
  <1>1. CASE StartFails
    BY <1>1, StartFailsStep
  <1>2. CASE /\ actors' \in {actors, Upsert(Head(booting))}
             /\ table' = IF Head(booting) = Local THEN "instance" ELSE "account"
             /\ UNCHANGED <<inboxVars, calls, booting, accounts, follows, requests, opc, accepts>>
    <2>1. booting # <<>>
      BY DEF CreateActor
    <2>2. InboxTypes' /\ OneHolder'
      BY <1>2, InboxKept
    <2>3. /\ actors' \in Seq(Actor) /\ LocalActorFirst' /\ AccountsHaveActors' /\ OneRowPerRequest' /\ Own'
          /\ Head(booting) = Local => actors' = <<>> \/ actors'[1] = Local
      <3>1. CASE actors' = actors
        <4>1. actors' \in Seq(Actor) /\ LocalActorFirst' /\ AccountsHaveActors'
          BY <1>2, <3>1 DEF IInv, TableTypes, Booting, LocalActorFirst, AccountsHaveActors
        <4>2. OneRowPerRequest' /\ Own'
          BY <1>2, <3>1 DEF IInv, OneRowPerRequest, Own, Stored
        <4> QED BY <2>1, <3>1, <4>1, <4>2, HeadOfBooting
      <3>2. CASE actors' = Upsert(Head(booting))
        BY <1>2, <2>1, <3>2, HeadOfBooting, ActorStored
      <3> QED BY <1>2, <3>1, <3>2
    <2>4. TableTypes'
      BY <1>2, <2>3 DEF IInv, TableTypes
    <2>5. Booting'
      BY <1>2, <2>1, <2>3, HeadOfBooting DEF IInv, Booting
    <2>6. Checked' /\ AcceptedOnWord'
      BY <1>2, AllKept, CheckedKept
    <2> QED BY <2>2, <2>3, <2>4, <2>5, <2>6 DEF IInv
  <1> QED BY <1>1, <1>2 DEF CreateActor

\* A trusted instance gets its account: its actor was read back.
LEMMA BuildAccountStep ==
  ASSUME IInv, BuildTrustedInstanceAccount
  PROVE  IInv'
  <1>1. CASE StartFails
    BY <1>1, StartFailsStep
  <1>2. CASE /\ GetActorByActorIRI(Head(booting))
             /\ accounts' \in {accounts, IF accounts = {} THEN {Head(booting)} ELSE accounts}
             /\ table' = "instance"
             /\ UNCHANGED <<inboxVars, calls, booting, actors, follows, requests, opc, accepts>>
    <2>1. booting # <<>> /\ table = "account"
      BY DEF BuildTrustedInstanceAccount
    <2>2. InboxTypes' /\ OneHolder'
      BY <1>2, InboxKept
    <2>3. Head(booting) \in Range(Trusted) /\ Head(booting) \in Range(actors)
      BY <1>2, <2>1, HeadOfBooting DEF GetActorByActorIRI, IInv, Booting
    <2>4. TableTypes'
      BY <1>2, <2>3 DEF IInv, TableTypes
    <2>5. Booting'
      BY <1>2, <2>1, <2>3 DEF IInv, Booting, LocalActorFirst, AccountsHaveActors
    <2>6. OneRowPerRequest' /\ Own'
      BY <1>2 DEF IInv, OneRowPerRequest, Own, Stored
    <2>7. Checked' /\ AcceptedOnWord'
      BY <1>2, AllKept, CheckedKept
    <2> QED BY <2>2, <2>4, <2>5, <2>6, <2>7 DEF IInv
  <1> QED BY <1>1, <1>2 DEF BuildTrustedInstanceAccount

\* The instance is created, its actor with it if that is missing, and the next
\* trusted one is due.
LEMMA CreateInstanceStep ==
  ASSUME IInv, CreateInstance
  PROVE  IInv'
  <1>1. /\ booting # <<>> /\ booting' = Tail(booting) /\ table' = "actor"
        /\ actors' \in {actors, Upsert(Head(booting))}
        /\ UNCHANGED <<inboxVars, calls, accounts, follows, requests, opc, accepts>>
    BY DEF CreateInstance
  <1>2. InboxTypes' /\ OneHolder'
    BY <1>1, InboxKept
  <1>3. actors' \in Seq(Actor) /\ LocalActorFirst' /\ AccountsHaveActors' /\ OneRowPerRequest' /\ Own'
    <2>1. CASE actors' = actors
      <3>1. actors' \in Seq(Actor) /\ LocalActorFirst' /\ AccountsHaveActors'
        BY <1>1, <2>1 DEF IInv, TableTypes, Booting, LocalActorFirst, AccountsHaveActors
      <3>2. OneRowPerRequest' /\ Own'
        BY <1>1, <2>1 DEF IInv, OneRowPerRequest, Own, Stored
      <3> QED BY <3>1, <3>2
    <2>2. CASE actors' = Upsert(Head(booting))
      BY <1>1, <2>2, HeadOfBooting, ActorStored
    <2> QED BY <1>1, <2>1, <2>2
  <1>4. TableTypes'
    BY <1>1, <1>3, HeadOfBooting DEF IInv, TableTypes
  <1>5. Booting'
    <2>1. \A i \in DOMAIN booting' : booting'[i] \in Range(Trusted)
      BY <1>1, HeadOfBooting
    <2>2. booting' # <<>> => 1 \in DOMAIN booting'
      BY <1>4 DEF TableTypes
    <2>3. Local \notin Range(Trusted)
      BY DEF Range
    <2> QED BY <1>1, <1>3, <2>1, <2>2, <2>3 DEF Booting
  <1>6. Checked' /\ AcceptedOnWord'
    BY <1>1, AllKept, CheckedKept
  <1> QED BY <1>2, <1>3, <1>4, <1>5, <1>6 DEF IInv

\* The process is killed: the tables stay, and requests that stored nothing may
\* come again.
LEMMA KillStep ==
  ASSUME IInv, Kill
  PROVE  IInv'
  <1>1. InboxTypes' /\ OneHolder' /\ Checked' /\ AcceptedOnWord'
    <2>1. kills' \in 0..MaxKills
      BY DEF Kill, Killed, IInv, InboxTypes
    <2> QED BY <2>1, DieKept DEF Kill, Killed
  <1>2. TableTypes'
    <2>1. /\ rpc' \in [Request -> {"idle", "fetch", "add", "send", "done"}]
          /\ raccount' \in [Request -> Server \cup {Nobody}]
          /\ opc' \in [Sender -> Request \cup {Free}]
      BY DEF Kill, IInv, TableTypes
    <2> QED BY <2>1, EmptySeq DEF Kill, IInv, TableTypes
  <1>3. Booting'
    BY DEF Kill, IInv, Booting, LocalActorFirst, AccountsHaveActors
  <1>4. OneRowPerRequest' /\ Own'
    <2>1. \A o \in Sender : opc'[o] \notin Request
      BY DEF Kill
    <2>2. \A r \in Request : /\ rpc'[r] \in {"idle", "done"}
                             /\ rpc'[r] = "idle" => rpc[r] \in {"idle", "fetch", "add"}
                             /\ rpc'[r] = "done" => raccount'[r] = raccount[r]
      BY DEF Kill, IInv, TableTypes
    <2>3. Stored' = Stored /\ UNCHANGED <<follows, actors>>
      BY DEF Kill, Stored
    <2>4. \A i \in DOMAIN follows : raccount'[follows[i].iri] = raccount[follows[i].iri]
      <3> SUFFICES ASSUME NEW i \in DOMAIN follows PROVE raccount'[follows[i].iri] = raccount[follows[i].iri]
        OBVIOUS
      <3>1. follows[i].iri \in Request /\ follows[i].iri \in Stored
        BY RowTypes DEF Stored
      <3> QED BY <2>2, <3>1 DEF IInv, OneRowPerRequest
    <2> QED BY <2>1, <2>2, <2>3, <2>4 DEF IInv, OneRowPerRequest, Own
  <1> QED BY <1>1, <1>2, <1>3, <1>4 DEF IInv

\* A worker takes an activity: nobody else has it.
LEMMA TakeJobStep ==
  ASSUME IInv, NEW w \in Worker, TakeJob(w),
         UNCHANGED <<boot, tables, requests, opc, accepts>>
  PROVE  IInv'
  <1>1. PICK p \in waiting : /\ waiting' = waiting \ {p}
                             /\ wjob' = [wjob EXCEPT ![w] = p]
                             /\ wpc' = [wpc EXCEPT ![w] = "verify"]
    BY DEF TakeJob
  <1>2. p \in Activity /\ p # NoJob /\ p.id \in 1..posted
    BY ActivityIsJob DEF IInv, InboxTypes, OneHolder
  <1>3. wpc[w] = "idle" /\ UNCHANGED <<up, kills, silent, posted>>
    BY DEF TakeJob
  <1>4. InboxTypes'
    BY <1>1, <1>2, <1>3 DEF IInv, InboxTypes
  <1>5. OneHolder'
    <2>1. (\A q \in waiting : q.id \in 1..posted)' /\ (\A q, r \in waiting : q.id = r.id => q = r)'
      BY <1>1, <1>3 DEF IInv, OneHolder
    <2>2. (\A v \in Worker : wjob[v] = NoJob <=> wpc[v] = "idle")'
      BY <1>1, <1>2 DEF IInv, InboxTypes, OneHolder
    <2>3. (\A v \in Worker : wjob[v] # NoJob =>
             wjob[v].id \in 1..posted /\ \A q \in waiting : q.id # wjob[v].id)'
      BY <1>1, <1>2, <1>3 DEF IInv, InboxTypes, OneHolder
    <2>4. (\A v, x \in Worker : wjob[v] # NoJob /\ wjob[x] # NoJob /\ wjob[v].id = wjob[x].id => v = x)'
      BY <1>1 DEF IInv, InboxTypes, OneHolder
    <2> QED BY <2>1, <2>2, <2>3, <2>4 DEF OneHolder
  <1>6. TableTypes' /\ Booting' /\ OneRowPerRequest' /\ Own'
    BY <1>3, TablesKept DEF IInv, TableTypes
  <1>7. Checked'
    <2>1. Posted(p)
      BY DEF IInv, Checked
    <2> QED BY <1>1, <2>1 DEF IInv, InboxTypes, Checked, Posted, Word, Verify, SameTarget, GetFollowByIri
  <1>8. AcceptedOnWord'
    BY AllKept
  <1> QED BY <1>4, <1>5, <1>6, <1>7, <1>8 DEF IInv

\* A worker is done with its activity.
LEMMA FreeWorkerKept ==
  ASSUME IInv, NEW w \in Worker, FreeWorker(w)
  PROVE  InboxTypes' /\ OneHolder'
  <1>1. InboxTypes'
    BY DEF FreeWorker, IInv, InboxTypes
  <1>2. \A v \in Worker : (v = w /\ wjob'[v] = NoJob /\ wpc'[v] = "idle")
                          \/ (v # w /\ wjob'[v] = wjob[v] /\ wpc'[v] = wpc[v])
    BY DEF FreeWorker, IInv, InboxTypes
  <1>3. OneHolder'
    BY <1>2 DEF FreeWorker, IInv, OneHolder
  <1> QED BY <1>1, <1>3

\* A worker goes on with it.
LEMMA StepWorkerKept ==
  ASSUME IInv, NEW w \in Worker, wpc[w] # "idle", NEW state \in {"handle", "save"},
         StepWorker(w, state)
  PROVE  InboxTypes' /\ OneHolder'
  <1>1. InboxTypes'
    BY DEF StepWorker, IInv, InboxTypes
  <1>2. \A v \in Worker : wjob'[v] = wjob[v] /\ (wpc'[v] = "idle" <=> wpc[v] = "idle")
    BY DEF StepWorker, IInv, InboxTypes
  <1>3. OneHolder'
    BY <1>2 DEF StepWorker, IInv, OneHolder
  <1> QED BY <1>1, <1>3

\* What is checked of the other workers stays so.
LEMMA WorkerChecked ==
  ASSUME IInv, RowsStay, NEW w \in Worker, UNCHANGED <<waiting, accepts>>,
         \A v \in Worker \ {w} : wpc'[v] = wpc[v] /\ wjob'[v] = wjob[v],
         /\ wjob'[w] # NoJob => Posted(wjob'[w])
         /\ wpc'[w] \in {"handle", "save"} => Verify(wjob'[w])
         /\ wpc'[w] = "save" =>
              /\ follows' # <<>>
              /\ wjob'[w].form = "object" => wjob'[w].target = follows'[1].target
  PROVE  Checked'
  <1>1. \A p \in waiting : Verify(p) => Word(p) \in accepts'
    BY DEF IInv, Checked, Posted
  <1>2. ASSUME NEW v \in Worker
        PROVE  /\ wjob'[v] # NoJob => (Verify(wjob'[v]) => Word(wjob'[v]) \in accepts)
               /\ wpc'[v] \in {"handle", "save"} => Verify(wjob'[v])
    BY DEF IInv, Checked, Posted
  <1>3. ASSUME NEW v \in Worker, wpc'[v] = "save"
        PROVE  follows' # <<>> /\ (wjob'[v].form = "object" => wjob'[v].target = follows'[1].target)
    <2>1. CASE v = w
      BY <1>3, <2>1
    <2>2. CASE v # w
      <3>1. wjob[v] \in Activity /\ wpc[v] = "save"
        BY <1>3, <2>2 DEF IInv, InboxTypes, OneHolder
      <3> QED BY <2>2, <3>1, SameTargetKept DEF IInv, Checked
    <2> QED BY <2>1, <2>2
  <1> QED BY <1>1, <1>2, <1>3 DEF Checked, Posted, Word, Verify, SameTarget, GetFollowByIri

\* The signature is checked.
LEMMA VerifyJobStep ==
  ASSUME IInv, NEW w \in Worker, VerifyJob(w),
         UNCHANGED <<boot, tables, requests, opc, accepts>>
  PROVE  IInv'
  <1>1. wpc[w] = "verify" /\ UNCHANGED <<up, waiting>>
    BY DEF VerifyJob, StepWorker, FreeWorker
  <1>2. InboxTypes' /\ OneHolder'
    BY <1>1, FreeWorkerKept, StepWorkerKept DEF VerifyJob
  <1>3. TableTypes' /\ Booting' /\ OneRowPerRequest' /\ Own'
    BY <1>1, TablesKept DEF IInv, TableTypes
  <1>4. RowsStay /\ AcceptedOnWord'
    BY AllKept
  <1>5. Checked'
    <2>1. wjob[w] # NoJob /\ Posted(wjob[w])
      BY <1>1 DEF IInv, OneHolder, Checked
    <2>2. CASE Verify(wjob[w]) /\ StepWorker(w, "handle")
      <3>1. \A v \in Worker : wjob'[v] = wjob[v] /\ wpc'[v] = IF v = w THEN "handle" ELSE wpc[v]
        BY <2>2 DEF StepWorker, IInv, InboxTypes
      <3> QED BY <1>1, <1>4, <2>1, <2>2, <3>1, WorkerChecked
    <2>3. CASE FreeWorker(w)
      <3>1. /\ wjob'[w] = NoJob /\ wpc'[w] = "idle"
            /\ \A v \in Worker \ {w} : wjob'[v] = wjob[v] /\ wpc'[v] = wpc[v]
        BY <2>3 DEF FreeWorker, IInv, InboxTypes
      <3> QED BY <1>1, <1>4, <3>1, WorkerChecked
    <2> QED BY <2>2, <2>3 DEF VerifyJob
  <1> QED BY <1>2, <1>3, <1>4, <1>5 DEF IInv

\* A server falls silent.
LEMMA FallSilentStep ==
  ASSUME IInv, NEW s \in Server, FallSilent(s),
         UNCHANGED <<boot, tables, requests, opc, accepts>>
  PROVE  IInv'
  <1>1. InboxTypes' /\ OneHolder'
    BY DEF FallSilent, IInv, InboxTypes, OneHolder
  <1>2. TableTypes' /\ Booting' /\ OneRowPerRequest' /\ Own'
    BY TablesKept DEF FallSilent, IInv, TableTypes
  <1>3. Checked' /\ AcceptedOnWord'
    BY AllKept, CheckedKept DEF FallSilent
  <1> QED BY <1>1, <1>2, <1>3 DEF IInv

\* A request without a row may change what it is about.
LEMMA RequestKept ==
  ASSUME IInv, NEW r \in Request, r \notin Stored, UNCHANGED <<follows, opc>>,
         rpc' \in [Request -> {"idle", "fetch", "add", "send", "done"}],
         \A q \in Request \ {r} : rpc'[q] = rpc[q] /\ raccount'[q] = raccount[q],
         rpc'[r] = "idle" \/ (rpc'[r] \in {"fetch", "add"} /\ raccount'[r] \in Server /\ Local \in Range(actors)),
         Range(actors) \subseteq Range(actors')
  PROVE  OneRowPerRequest' /\ Own'
  <1>1. Stored' = Stored
    BY DEF Stored
  <1>2. \A i \in DOMAIN follows : follows[i].iri \in Request \ {r}
    BY RowTypes DEF Stored
  <1>3. OneRowPerRequest'
    BY <1>1, <1>2 DEF IInv, OneRowPerRequest
  <1>4. Own'
    BY <1>1 DEF IInv, Own
  <1> QED BY <1>3, <1>4

\* A register request begins.
LEMMA RegisterStep ==
  ASSUME IInv, NEW r \in Request, NEW s \in Server, Register(r, s)
  PROVE  IInv'
  <1>1. /\ rpc[r] = "idle" /\ Local \in Range(actors)
        /\ raccount' = [raccount EXCEPT ![r] = s] /\ rpc' = [rpc EXCEPT ![r] = "fetch"]
        /\ UNCHANGED <<inboxVars, boot, tables, opc, accepts>>
    BY DEF Register, GetLocalInstanceActor, GetActorByActorIRI
  <1>2. InboxTypes' /\ OneHolder'
    BY <1>1, InboxKept
  <1>3. TableTypes' /\ Booting'
    BY <1>1 DEF IInv, TableTypes, Booting, LocalActorFirst, AccountsHaveActors
  <1>4. r \notin Stored
    BY <1>1 DEF IInv, OneRowPerRequest
  <1>5. /\ \A q \in Request \ {r} : rpc'[q] = rpc[q] /\ raccount'[q] = raccount[q]
        /\ rpc'[r] = "fetch" /\ raccount'[r] = s
    BY <1>1 DEF IInv, TableTypes
  <1>6. OneRowPerRequest' /\ Own'
    BY <1>1, <1>3, <1>4, <1>5, RequestKept DEF TableTypes
  <1>7. Checked' /\ AcceptedOnWord'
    BY <1>1, AllKept, CheckedKept
  <1> QED BY <1>2, <1>3, <1>6, <1>7 DEF IInv

\* The remote account is fetched and its actor stored, behind the instance's own.
LEMMA FetchAccountStep ==
  ASSUME IInv, NEW r \in Request, FetchAccount(r)
  PROVE  IInv'
  <1>1. rpc[r] = "fetch" /\ UNCHANGED <<inboxVars, boot, accounts, follows, opc, accepts>>
    BY DEF FetchAccount
  <1>2. r \notin Stored /\ raccount[r] \in Server /\ Local \in Range(actors)
    BY <1>1 DEF IInv, OneRowPerRequest, Own
  <1>3. actors # <<>> /\ actors[1] = Local /\ actors \in Seq(Actor)
    <2>1. actors = <<>> => Range(actors) = {}
      BY DEF Range
    <2> QED BY <1>2, <2>1 DEF IInv, Booting, LocalActorFirst, TableTypes
  <1>4. \/ actors' = actors /\ raccount' = [raccount EXCEPT ![r] = Nobody] /\ rpc' = [rpc EXCEPT ![r] = "idle"]
        \/ \E a \in Server : /\ actors' = Upsert(a) /\ raccount' = [raccount EXCEPT ![r] = a]
                             /\ rpc' = [rpc EXCEPT ![r] = "add"]
    <2>1. CASE /\ IsAccount(raccount[r])
               /\ actors' = Upsert(Document[raccount[r]].id)
               /\ raccount' = [raccount EXCEPT ![r] = Document[@].id]
               /\ rpc' = [rpc EXCEPT ![r] = "add"]
      BY <1>2, <2>1, DocumentId
    <2> QED BY <2>1 DEF FetchAccount, Refuse
  <1>5. InboxTypes' /\ OneHolder'
    BY <1>1, InboxKept
  <1>6. actors' \in Seq(Actor) /\ actors' # <<>> /\ actors'[1] = Local /\ Range(actors) \subseteq Range(actors')
    BY <1>3, <1>4, UpsertType DEF Actor
  <1>7. TableTypes'
    <2>1. raccount' \in [Request -> Server \cup {Nobody}]
      BY <1>4 DEF IInv, TableTypes
    <2>2. rpc' \in [Request -> {"idle", "fetch", "add", "send", "done"}]
      BY <1>4 DEF IInv, TableTypes
    <2> QED BY <1>1, <1>6, <2>1, <2>2 DEF IInv, TableTypes
  <1>8. Booting'
    BY <1>1, <1>6 DEF IInv, Booting, LocalActorFirst, AccountsHaveActors
  <1>9. /\ \A q \in Request \ {r} : rpc'[q] = rpc[q] /\ raccount'[q] = raccount[q]
        /\ rpc'[r] = "idle" \/ (rpc'[r] = "add" /\ raccount'[r] \in Server)
    BY <1>4 DEF IInv, TableTypes
  <1>10. OneRowPerRequest' /\ Own'
    BY <1>1, <1>2, <1>6, <1>7, <1>9, RequestKept DEF TableTypes
  <1>11. Checked' /\ AcceptedOnWord'
    BY <1>1, AllKept, CheckedKept
  <1> QED BY <1>5, <1>7, <1>8, <1>10, <1>11 DEF IInv

\* The follow is stored, the only one of its request.
LEMMA AddFollowStep ==
  ASSUME IInv, NEW r \in Request, AddFollow(r)
  PROVE  IInv'
  <1>1. /\ rpc[r] = "add"
        /\ UNCHANGED <<inboxVars, boot, actors, accounts, opc, accepts>>
    BY DEF AddFollow
  <1>2. r \notin Stored /\ raccount[r] \in Server /\ Local \in Range(actors)
    BY <1>1 DEF IInv, OneRowPerRequest, Own
  <1>3. InboxTypes' /\ OneHolder' /\ Booting'
    BY <1>1, InboxKept DEF IInv, Booting, LocalActorFirst, AccountsHaveActors
  <1>4. CASE UNCHANGED follows /\ Refuse(r)
    <2>1. TableTypes'
      BY <1>1, <1>4 DEF Refuse, IInv, TableTypes
    <2>2. /\ \A q \in Request \ {r} : rpc'[q] = rpc[q] /\ raccount'[q] = raccount[q]
          /\ rpc'[r] = "idle"
      BY <1>4 DEF Refuse, IInv, TableTypes
    <2>3. OneRowPerRequest' /\ Own'
      BY <1>1, <1>2, <1>4, <2>1, <2>2, RequestKept DEF TableTypes
    <2>4. Checked' /\ AcceptedOnWord'
      BY <1>1, <1>4, AllKept, CheckedKept
    <2> QED BY <1>3, <2>1, <2>3, <2>4 DEF IInv
  <1>5. CASE follows' = Add(NewFollow(r)) /\ CreateSignedRequest(r) /\ UNCHANGED raccount
    <2> DEFINE row == [iri |-> r, target |-> raccount[r], state |-> "pending"]
    <2>1. row \in Row
      BY <1>2 DEF Row
    <2>2. /\ follows \in Seq(Row) /\ follows' = Append(follows, row)
          /\ row.iri = r /\ row.target = raccount[r] /\ row.state = "pending"
      BY <1>5 DEF Add, NewFollow, IInv, TableTypes
    <2> HIDE DEF row
    <2>3. /\ follows' \in Seq(Row) /\ Len(follows') = Len(follows) + 1
          /\ follows'[Len(follows) + 1] = row
          /\ \A i \in DOMAIN follows : follows'[i] = follows[i]
      BY <2>1, <2>2, AppendProperties
    <2>4. /\ DOMAIN follows = 1..Len(follows) /\ DOMAIN follows' = 1..(Len(follows) + 1)
          /\ Len(follows) \in Nat
      BY <2>2, <2>3
    <2>5. TableTypes'
      <3>1. rpc' \in [Request -> {"idle", "fetch", "add", "send", "done"}]
        BY <1>5 DEF CreateSignedRequest, Answer, IInv, TableTypes
      <3> QED BY <1>1, <1>5, <2>3, <3>1 DEF IInv, TableTypes
    <2>6. Stored' = Stored \cup {r}
      BY <2>2, <2>3, <2>4 DEF Stored
    <2>7. Len(follows') = Cardinality(Stored')
      <3>1. Stored \subseteq Request
        BY RowTypes DEF Stored
      <3>2. IsFiniteSet(Stored)
        BY <3>1, FS_Subset
      <3>3. Cardinality(Stored') = Cardinality(Stored) + 1
        BY <1>2, <2>6, <3>2, FS_AddElement
      <3> QED BY <2>3, <3>3 DEF IInv, OneRowPerRequest
    <2>8. rpc'[r] \in {"send", "done"} /\ \A q \in Request \ {r} : rpc'[q] = rpc[q]
      BY <1>5 DEF CreateSignedRequest, Answer, IInv, TableTypes
    <2>9. \A i \in DOMAIN follows' : follows'[i].target = raccount'[follows'[i].iri]
      BY <1>1, <1>5, <2>2, <2>3, <2>4 DEF IInv, OneRowPerRequest
    <2>10. OneRowPerRequest' /\ Own'
      <3>1. OneRowPerRequest'
        BY <1>1, <1>5, <2>6, <2>7, <2>8, <2>9 DEF IInv, OneRowPerRequest
      <3>2. Own'
        BY <1>1, <1>2, <2>6, <2>8 DEF IInv, Own
      <3> QED BY <3>1, <3>2
    <2>11. RowsStay
      BY <1>1, <2>3, <2>4 DEF RowsStay
    <2>12. \A i \in DOMAIN follows' : follows'[i].state = "accepted" =>
             i \in DOMAIN follows /\ follows[i].state = "accepted"
      BY <2>2, <2>3, <2>4
    <2>13. Checked' /\ AcceptedOnWord'
      BY <1>1, <2>11, <2>12, CheckedKept, AcceptedKept
    <2> QED BY <1>3, <2>5, <2>10, <2>13 DEF IInv
  <1> QED BY <1>4, <1>5 DEF AddFollow

\* An outbound worker takes the follow, which is stored by now.
LEMMA SendFollowRequestStep ==
  ASSUME IInv, NEW r \in Request, SendFollowRequest(r)
  PROVE  IInv'
  <1>1. /\ rpc[r] = "send" /\ rpc' = [rpc EXCEPT ![r] = "done"]
        /\ UNCHANGED <<inboxVars, boot, tables, raccount, accepts>>
    BY DEF SendFollowRequest, Answer
  <1>2. PICK o \in Sender : opc' = [opc EXCEPT ![o] = r]
    BY DEF SendFollowRequest
  <1>3. InboxTypes' /\ OneHolder' /\ Booting'
    BY <1>1, InboxKept DEF IInv, Booting, LocalActorFirst, AccountsHaveActors
  <1>4. TableTypes'
    BY <1>1, <1>2 DEF IInv, TableTypes
  <1>5. OneRowPerRequest' /\ Own'
    <2>1. Stored' = Stored /\ r \in Stored
      BY <1>1 DEF Stored, IInv, OneRowPerRequest
    <2>2. \A q \in Request : rpc'[q] = IF q = r THEN "done" ELSE rpc[q]
      BY <1>1 DEF IInv, TableTypes
    <2>3. \A x \in Sender : opc'[x] = r \/ opc'[x] = opc[x]
      BY <1>2 DEF IInv, TableTypes
    <2> QED BY <1>1, <2>1, <2>2, <2>3 DEF IInv, OneRowPerRequest, Own
  <1>6. Checked' /\ AcceptedOnWord'
    BY <1>1, AllKept, CheckedKept
  <1> QED BY <1>3, <1>4, <1>5, <1>6 DEF IInv

\* It reaches its server, or does not.
LEMMA DeliverStep ==
  ASSUME IInv, NEW o \in Sender, Deliver(o)
  PROVE  IInv'
  <1>1. opc' = [opc EXCEPT ![o] = Free] /\ UNCHANGED <<inboxVars, boot, tables, requests, accepts>>
    BY DEF Deliver
  <1>2. InboxTypes' /\ OneHolder' /\ Booting'
    BY <1>1, InboxKept DEF IInv, Booting, LocalActorFirst, AccountsHaveActors
  <1>3. TableTypes'
    BY <1>1 DEF IInv, TableTypes
  <1>4. OneRowPerRequest' /\ Own'
    <2>1. Stored' = Stored
      BY <1>1 DEF Stored
    <2>2. \A x \in Sender : opc'[x] = Free \/ opc'[x] = opc[x]
      BY <1>1 DEF IInv, TableTypes
    <2> QED BY <1>1, <2>1, <2>2 DEF IInv, OneRowPerRequest, Own
  <1>5. Checked' /\ AcceptedOnWord'
    BY <1>1, AllKept, CheckedKept
  <1> QED BY <1>2, <1>3, <1>4, <1>5 DEF IInv

\* A server posts an Accept, whatever it received.
LEMMA PostAcceptStep ==
  ASSUME IInv, NEW c \in Claim, PostAccept(c)
  PROVE  IInv'
  <1> DEFINE p == [id |-> posted + 1, from |-> c.from, stated |-> "hs2019",
                   used |-> "rsa-sha512", form |-> c.form, target |-> c.target]
  <1>1. /\ posted < MaxPosts /\ posted' = posted + 1
        /\ waiting' = waiting \cup {p}
        /\ accepts' = IF Verify(p) THEN accepts \cup {Word(p)} ELSE accepts
        /\ UNCHANGED <<up, kills, silent, wpc, wjob, boot, tables, requests, opc>>
    BY DEF PostAccept, AddToQueue, Word
  <1>2. p \in Activity /\ p.id = posted + 1
    BY DEF Activity, IInv, InboxTypes
  <1> HIDE DEF p
  <1>3. Word(p) \in Activity
    BY <1>2 DEF Activity, Word
  <1>4. InboxTypes'
    BY <1>1, <1>2 DEF IInv, InboxTypes
  <1>5. OneHolder'
    <2>1. posted \in Nat
      BY DEF IInv, InboxTypes
    <2>2. \A q \in waiting : q.id \in 1..posted
      BY DEF IInv, OneHolder
    <2>3. \A w \in Worker : wjob[w] # NoJob => wjob[w].id \in 1..posted
      BY DEF IInv, OneHolder
    <2> QED BY <1>1, <1>2, <2>1, <2>2, <2>3 DEF IInv, OneHolder
  <1>6. TableTypes' /\ Booting' /\ OneRowPerRequest' /\ Own'
    BY <1>1, <1>3, TablesKept DEF IInv, TableTypes
  <1>7. accepts \subseteq accepts' /\ RowsStay /\ AcceptedOnWord'
    BY <1>1, AllKept
  <1>8. Checked'
    <2>1. \A q \in waiting' : Verify(q) => Word(q) \in accepts'
      BY <1>1, <1>7 DEF IInv, Checked, Posted
    <2>2. \A w \in Worker : wjob[w] # NoJob => (Verify(wjob[w]) => Word(wjob[w]) \in accepts')
      BY <1>7 DEF IInv, Checked, Posted
    <2> QED BY <1>1, <2>1, <2>2 DEF IInv, Checked, Posted, Word, Verify, SameTarget, GetFollowByIri
  <1> QED BY <1>4, <1>5, <1>6, <1>7, <1>8 DEF IInv

\* The row is found and compared.
LEMMA LookUpFollowStep ==
  ASSUME IInv, NEW w \in Worker, LookUpFollow(w)
  PROVE  IInv'
  <1>1. /\ wpc[w] = "handle" /\ UNCHANGED <<up, waiting>>
        /\ UNCHANGED <<boot, tables, requests, opc, accepts>>
    BY DEF LookUpFollow, StepWorker, FreeWorker
  <1>2. InboxTypes' /\ OneHolder'
    BY <1>1, FreeWorkerKept, StepWorkerKept DEF LookUpFollow
  <1>3. TableTypes' /\ Booting' /\ OneRowPerRequest' /\ Own'
    BY <1>1, TablesKept DEF IInv, TableTypes
  <1>4. RowsStay /\ AcceptedOnWord'
    BY <1>1, AllKept
  <1>5. Checked'
    <2>1. wjob[w] # NoJob /\ Posted(wjob[w]) /\ Verify(wjob[w])
      BY <1>1 DEF IInv, OneHolder, Checked
    <2>2. CASE follows # <<>> /\ SameTarget(wjob[w], GetFollowByIri) /\ StepWorker(w, "save")
      <3>1. \A v \in Worker : wjob'[v] = wjob[v] /\ wpc'[v] = IF v = w THEN "save" ELSE wpc[v]
        BY <2>2 DEF StepWorker, IInv, InboxTypes
      <3>2. wjob[w] \in Activity
        BY <2>1 DEF IInv, InboxTypes
      <3>3. follows' # <<>> /\ (wjob[w].form = "object" => wjob[w].target = follows'[1].target)
        BY <1>4, <2>2, <3>2, SameTargetKept
      <3> QED BY <1>1, <1>4, <2>1, <3>1, <3>3, WorkerChecked
    <2>3. CASE FreeWorker(w)
      <3>1. /\ wjob'[w] = NoJob /\ wpc'[w] = "idle"
            /\ \A v \in Worker \ {w} : wjob'[v] = wjob[v] /\ wpc'[v] = wpc[v]
        BY <2>3 DEF FreeWorker, IInv, InboxTypes
      <3> QED BY <1>1, <1>4, <3>1, WorkerChecked
    <2> QED BY <2>2, <2>3 DEF LookUpFollow
  <1> QED BY <1>2, <1>3, <1>4, <1>5 DEF IInv

\* The first row is marked as accepted, on the word of the job.
LEMMA SaveFollowAsAcceptedStep ==
  ASSUME IInv, NEW w \in Worker, SaveFollowAsAccepted(w)
  PROVE  IInv'
  <1>1. /\ wpc[w] = "save" /\ FreeWorker(w) /\ UNCHANGED <<up, waiting>>
        /\ UNCHANGED <<boot, actors, accounts, requests, opc, accepts>>
    BY DEF SaveFollowAsAccepted, FreeWorker
  <1>2. InboxTypes' /\ OneHolder'
    BY <1>1, FreeWorkerKept
  <1>3. /\ wjob[w] \in Activity /\ Posted(wjob[w]) /\ Verify(wjob[w])
        /\ follows # <<>> /\ SameTarget(wjob[w], GetFollowByIri)
    BY <1>1 DEF IInv, InboxTypes, OneHolder, Checked
  <1>4. follows \in Seq(Row) /\ 1 \in DOMAIN follows /\ follows[1] \in Row
    BY <1>3 DEF IInv, TableTypes
  <1>5. /\ follows' \in Seq(Row) /\ Len(follows') = Len(follows) /\ DOMAIN follows' = DOMAIN follows
        /\ \A i \in DOMAIN follows : /\ follows'[i].iri = follows[i].iri
                                     /\ follows'[i].target = follows[i].target
                                     /\ i # 1 => follows'[i] = follows[i]
    <2>1. CASE follows' = follows
      BY <1>4, <2>1
    <2>2. CASE follows' = Update(GetFollowByIri, "accepted")
      <3> DEFINE row == [follows[1] EXCEPT !.state = "accepted"]
      <3>1. row \in Row /\ row.iri = follows[1].iri /\ row.target = follows[1].target
        BY <1>4 DEF Row
      <3>2. follows' = [follows EXCEPT ![1] = row]
        BY <2>2 DEF Update, GetFollowByIri
      <3> HIDE DEF row
      <3> QED BY <1>4, <3>1, <3>2, ExceptSeq
    <2> QED BY <2>1, <2>2 DEF SaveFollowAsAccepted
  <1>6. TableTypes'
    BY <1>1, <1>5 DEF IInv, TableTypes
  <1>7. Booting'
    BY <1>1 DEF IInv, Booting, LocalActorFirst, AccountsHaveActors
  <1>8. OneRowPerRequest' /\ Own'
    <2>1. Stored' = Stored
      BY <1>5 DEF Stored
    <2> QED BY <1>1, <1>5, <2>1 DEF IInv, OneRowPerRequest, Own
  <1>9. RowsStay
    BY <1>1, <1>5 DEF RowsStay
  <1>10. Checked'
    <2>1. /\ wjob'[w] = NoJob /\ wpc'[w] = "idle"
          /\ \A v \in Worker \ {w} : wjob'[v] = wjob[v] /\ wpc'[v] = wpc[v]
      BY <1>1 DEF FreeWorker, IInv, InboxTypes
    <2> QED BY <1>1, <1>9, <2>1, WorkerChecked
  <1>11. AcceptedOnWord'
    <2> SUFFICES ASSUME NEW i \in DOMAIN follows', follows'[i].state = "accepted"
                 PROVE  \E p \in accepts' :
                          /\ Verify(p)
                          /\ p.form = "iri" \/ p.target = follows'[i].target
      BY DEF AcceptedOnWord, Verify
    <2>1. CASE i = 1
      <3>1. Word(wjob[w]) \in accepts' /\ Verify(Word(wjob[w]))
        BY <1>1, <1>3, VerifyWord DEF Posted
      <3>2. Word(wjob[w]).form = wjob[w].form /\ Word(wjob[w]).target = wjob[w].target
        BY <1>3, VerifyWord
      <3>3. wjob[w].form \in {"iri", "object"}
        BY <1>3 DEF Activity
      <3>4. wjob[w].form = "iri" \/ wjob[w].target = follows'[1].target
        BY <1>1, <1>3, <1>4, <1>5, <3>3 DEF SameTarget, GetFollowByIri
      <3> QED BY <2>1, <3>1, <3>2, <3>4
    <2>2. CASE i # 1
      BY <1>1, <1>5, <2>2 DEF IInv, AcceptedOnWord
    <2> QED BY <2>1, <2>2
  <1> QED BY <1>2, <1>6, <1>7, <1>8, <1>10, <1>11 DEF IInv

-----------------------------------------------------------------------------
LEMMA InitInv == Init => IInv
  <1> SUFFICES ASSUME Init PROVE IInv
    OBVIOUS
  <1>1. InboxTypes /\ OneHolder
    <2>1. InboxTypes
      <3>1. wpc \in [Worker -> {"idle", "verify", "handle", "save"}]
        BY DEF Init, InitInbox
      <3>2. wjob \in [Worker -> Activity \cup {NoJob}]
        BY DEF Init, InitInbox
      <3>3. kills \in 0..MaxKills /\ posted \in 0..MaxPosts
        BY DEF Init, InitInbox
      <3>4. up \in BOOLEAN /\ silent \subseteq Fragile /\ waiting \subseteq Activity
        BY DEF Init, InitInbox
      <3> QED BY <3>1, <3>2, <3>3, <3>4 DEF InboxTypes
    <2>2. waiting = {} /\ \A w \in Worker : wjob[w] = NoJob /\ wpc[w] = "idle"
      BY DEF Init, InitInbox
    <2> QED BY <2>1, <2>2 DEF OneHolder
  <1>2. TableTypes
    BY EmptySeq DEF Init, TableTypes
  <1>3. Booting
    BY DEF Init, Booting, LocalActorFirst, AccountsHaveActors, Range
  <1>4. OneRowPerRequest /\ Own
    <2>1. Stored = {} /\ Len(follows) = 0 /\ DOMAIN follows = {}
      BY DEF Init, Stored
    <2>2. \A o \in Sender : opc[o] = Free
      BY DEF Init
    <2> QED BY <2>1, <2>2, FS_EmptySet DEF Init, OneRowPerRequest, Own
  <1>5. Checked /\ AcceptedOnWord
    BY DEF Init, InitInbox, Checked, AcceptedOnWord
  <1> QED BY <1>1, <1>2, <1>3, <1>4, <1>5 DEF IInv

LEMMA NextInv == IInv /\ [Next]_vars => IInv'
  <1> SUFFICES ASSUME IInv, [Next]_vars PROVE IInv'
    OBVIOUS
  <1>1. CASE UNCHANGED vars
    BY <1>1, InboxKept, TablesKept, AllKept, CheckedKept DEF vars, IInv, TableTypes
  <1>2. CASE Start \/ MigrateStep \/ Kill
    BY <1>2, StartStep, MigrateOk, CreateActorStep, BuildAccountStep, CreateInstanceStep, KillStep
    DEF MigrateStep
  <1>3. ASSUME NEW r \in Request, HandlerStep(r) \/ \E s \in Server : Register(r, s)
        PROVE  IInv'
    BY <1>3, FetchAccountStep, AddFollowStep, SendFollowRequestStep, RegisterStep DEF HandlerStep
  <1>4. CASE \E o \in Sender : Deliver(o)
    BY <1>4, DeliverStep
  <1>5. ASSUME NEW w \in Worker, WorkerStep(w)
        PROVE  IInv'
    BY <1>5, TakeJobStep, VerifyJobStep, LookUpFollowStep, SaveFollowAsAcceptedStep
    DEF WorkerStep, PoolStep
  <1>6. CASE \E s \in Server : GoSilent(s)
    BY <1>6, FallSilentStep DEF GoSilent
  <1>7. CASE \E c \in Claim : PostAccept(c)
    BY <1>7, PostAcceptStep
  <1> QED BY <1>1, <1>2, <1>3, <1>4, <1>5, <1>6, <1>7 DEF Next

LEMMA Inductive == Spec => []IInv
  BY InitInv, NextInv, PTL DEF Spec

-----------------------------------------------------------------------------
\* The tables are well formed however often the process is killed or a first start ends
\* with an error, and whichever of its creates fail unseen (migrate.go): the instance's
\* own actor is the first or is missing, no account lacks its actor, nothing is followed
\* while the own actor is missing, every request has one row at most, and what the
\* outbound pool sends is stored (register.go: Add comes before SendFollowRequest).
THEOREM TablesCorrect == Spec => []TablesOK
  <1>1. IInv => TablesOK
    <2> SUFFICES ASSUME IInv PROVE TablesOK
      OBVIOUS
    <2>1. InboxTypeOK
      <3>1. \A w \in Worker : wjob[w].id \in 0..posted \ {p.id : p \in waiting}
        <4> SUFFICES ASSUME NEW w \in Worker PROVE wjob[w].id \in 0..posted \ {p.id : p \in waiting}
          OBVIOUS
        <4>1. CASE wjob[w] = NoJob
          BY <4>1 DEF IInv, InboxTypes, OneHolder, NoJob
        <4>2. CASE wjob[w] # NoJob
          BY <4>2 DEF IInv, InboxTypes, OneHolder
        <4> QED BY <4>1, <4>2
      <3>2. \A v, w \in Worker : wjob[v].id = wjob[w].id /\ wjob[v] # NoJob => v = w
        <4>1. NoJob.id = 0
          BY DEF NoJob
        <4>2. \A v \in Worker : wjob[v] # NoJob => wjob[v].id # 0
          BY DEF IInv, InboxTypes, OneHolder
        <4> QED BY <4>1, <4>2 DEF IInv, OneHolder
      <3> QED BY <3>1, <3>2 DEF IInv, InboxTypes, OneHolder, InboxTypeOK
    <2>2. Range(booting) \subseteq Server \cup {Local} /\ Range(actors) \subseteq Server \cup {Local}
      BY DEF IInv, TableTypes, Range, Actor
    <2>3. Len(follows) <= Cardinality(Request)
      <3>1. Stored \subseteq Request
        BY RowTypes DEF Stored
      <3> QED BY <3>1, FS_Subset DEF IInv, OneRowPerRequest
    <2>4. TypeOK
      BY <2>1, <2>2, <2>3 DEF IInv, TableTypes, TypeOK
    <2>5. StoredBeforeSent
      BY DEF IInv, OneRowPerRequest, Stored, StoredBeforeSent
    <2>6. FollowsAreOwn
      BY DEF IInv, Own, Stored, FollowsAreOwn
    <2> QED BY <2>4, <2>5, <2>6 DEF IInv, Booting, TablesOK
  <1> QED BY <1>1, Inductive, PTL

\* A follow is marked as accepted only after a server posted an Accept that passes
\* Verify and names a follow by its IRI or encloses one of the same target, although
\* GetFollowByIri returns the first row whatever it is asked for.
THEOREM AcceptedOnWordCorrect == Spec => []AcceptedOnWord
  <1>1. IInv => AcceptedOnWord
    BY DEF IInv
  <1> QED BY <1>1, Inductive, PTL
=============================================================================
