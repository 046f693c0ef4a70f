------------------------------- MODULE Follow -------------------------------
(***************************************************************************)
(* How an instance comes to follow another server: the first start, which   *)
(* creates the instance's own actor and those of trusted instances; the     *)
(* register handler, which fetches the remote account, stores a pending     *)
(* Follow and hands it to the outbound worker pool; the pool, which posts   *)
(* it once; and the inbox, which marks a follow as accepted when the remote *)
(* server posts an Accept.                                                  *)
(***************************************************************************)
EXTENDS Inbox, Functions

CONSTANTS
  Local,     \* the actor of this instance
  Trusted,   \* FederationConfig.TrustedInstances, in order
  Request,   \* calls of the register handler that store a follow (bound), by its IRI
  Sender,    \* the goroutines of InitOutboundWorkerPool
  Claim      \* the Accepts that servers post, whether they received a follow or not:
             \* each names a follow by IRI, or encloses one and states its target

Free == "free" \* what an outbound worker sends that has nothing to send

ASSUME FollowAssumption ==
  /\ Local \notin Server
  /\ Trusted \in Seq(Server)
  /\ Request \cap Server = {}
  /\ IsFiniteSet(Request)
  /\ Free \notin Request
  /\ Claim \subseteq [from : Server, form : {"iri", "object"}, target : Server \cup {Nobody}]

VARIABLES
  calls,      \* calls of Migrate to come before the server listens
  booting,    \* the actors the current call has still to create
  table,      \* the table it writes next for the first of them
  actors,     \* the rows of the actor table, in order of their id
  accounts,   \* the actors of the rows of the account table (trusted instances)
  follows,    \* the rows of the follow table, in order of their id
  rpc,        \* where each register request stands
  raccount,   \* the account it names, then the actor stored for it
  opc,        \* the follow each outbound worker sends
  accepts     \* history: every Accept that was posted and is signed as Verify wants it

boot     == <<calls, booting, table>>
tables   == <<actors, accounts, follows>>
requests == <<rpc, raccount>>
vars == <<inboxVars, boot, tables, requests, opc, accepts>>

-----------------------------------------------------------------------------
(* ActorRepository, FollowRepository. *)

GetActorByActorIRI(a) == a \in Range(actors)

\* The name is no condition: any row will do.
GetActorForUserName == actors # <<>>

Add(follow)      == Append(follows, follow)
Update(i, state) == [follows EXCEPT ![i].state = state]

-----------------------------------------------------------------------------
(* Migrate: on an empty actor table the instance's own actor is created,    *)
(* then an actor, an account and an instance for each trusted instance.     *)
(* The errors of db.Create are dropped.                                     *)

Upsert(a) == IF GetActorByActorIRI(a) THEN actors ELSE Append(actors, a)

\* Server and federation API both call Migrate before anything is served.
Start ==
  /\ ~up
  /\ up' = TRUE
  /\ calls' = 2
  /\ UNCHANGED <<kills, silent, posted, poolVars, booting, table, tables, requests, opc, accepts>>

\* The process ends with the error that Migrate returns.
StartFails ==
  /\ Die
  /\ calls' = 0
  /\ booting' = <<>>
  /\ table' = "actor"
  /\ UNCHANGED <<kills, tables, requests, opc, accepts>>

\* Only "record not found" makes Migrate create anything: another error of the
\* lookup is taken for a table in use.
Migrate ==
  /\ up
  /\ calls > 0
  /\ booting = <<>>
  /\ calls' = calls - 1
  /\ \/ actors = <<>> /\ booting' = <<Local>> \o Trusted
     \/ UNCHANGED booting
  /\ UNCHANGED <<inboxVars, table, tables, requests, opc, accepts>>

\* The actor is built, which may fail, and created, whose failure nobody sees.
CreateActor ==
  /\ up
  /\ booting # <<>>
  /\ table = "actor"
  /\ \/ /\ actors' \in {actors, Upsert(Head(booting))}
        /\ table' = IF Head(booting) = Local THEN "instance" ELSE "account"
        /\ UNCHANGED <<inboxVars, calls, booting, accounts, follows, requests, opc, accepts>>
     \/ StartFails

\* The actor of a trusted instance is read back and gets its account.
\* CreateShigInstanceId gives every account the same UUID, which is unique in
\* the table: only the first one is stored.
BuildTrustedInstanceAccount ==
  /\ up
  /\ booting # <<>>
  /\ table = "account"
  /\ \/ /\ GetActorByActorIRI(Head(booting))
        /\ accounts' \in {accounts, IF accounts = {} THEN {Head(booting)} ELSE accounts}
        /\ table' = "instance"
        /\ UNCHANGED <<inboxVars, calls, booting, actors, follows, requests, opc, accepts>>
     \/ StartFails

\* The instance row, which nothing reads.  Gorm stores the actor it refers to
\* with it, if that is not stored yet.
CreateInstance ==
  /\ up
  /\ booting # <<>>
  /\ table = "instance"
  /\ actors' \in {actors, Upsert(Head(booting))}
  /\ booting' = Tail(booting)
  /\ table' = "actor"
  /\ UNCHANGED <<inboxVars, calls, accounts, follows, requests, opc, accepts>>

MigrateStep == Migrate \/ CreateActor \/ BuildTrustedInstanceAccount \/ CreateInstance

Listening == up /\ booting = <<>> /\ calls = 0

-----------------------------------------------------------------------------
(* GetRegisterHandler. *)

GetLocalInstanceActor == GetActorByActorIRI(Local)

NewFollow(r) == [iri |-> r, target |-> raccount[r], state |-> "pending"]

\* The handler returns, with whatever status.
Answer(r) == rpc' = [rpc EXCEPT ![r] = "done"]

\* It returns with an error before a follow is stored: nothing is left of the
\* request, and another one may come.
Refuse(r) ==
  /\ rpc' = [rpc EXCEPT ![r] = "idle"]
  /\ raccount' = [raccount EXCEPT ![r] = Nobody]

\* Up to the request for the remote account.  A wrong register token has 403
\* written, and the handler goes on as with the right one.  A request that is
\* refused here changes nothing.
Register(r, s) ==
  /\ Listening
  /\ rpc[r] = "idle"
  /\ GetLocalInstanceActor
  /\ raccount' = [raccount EXCEPT ![r] = s]
  /\ rpc' = [rpc EXCEPT ![r] = "fetch"]
  /\ UNCHANGED <<inboxVars, boot, tables, opc, accepts>>

\* CreateActorFromRemoteAccount: the actor is stored under the id that the
\* document states.
FetchAccount(r) ==
  /\ Listening
  /\ rpc[r] = "fetch"
  /\ raccount[r] \notin silent
  /\ \/ /\ IsAccount(raccount[r])
        /\ actors' = Upsert(Document[raccount[r]].id)
        /\ raccount' = [raccount EXCEPT ![r] = Document[@].id]
        /\ rpc' = [rpc EXCEPT ![r] = "add"]
     \/ Refuse(r) /\ UNCHANGED actors
  /\ UNCHANGED <<inboxVars, boot, accounts, follows, opc, accepts>>

\* Faulty variant: the follow is sent without having been stored first.
AddFollowLater(r) ==
  /\ Listening
  /\ rpc[r] = "add"
  /\ rpc' = [rpc EXCEPT ![r] = "send"]
  /\ UNCHANGED <<inboxVars, boot, tables, raccount, opc, accepts>>

\* The signing of the request may fail when the row is already there.
CreateSignedRequest(r) == rpc' = [rpc EXCEPT ![r] = "send"] \/ Answer(r)

AddFollow(r) ==
  /\ Listening
  /\ rpc[r] = "add"
  /\ \/ /\ follows' = Add(NewFollow(r))
        /\ CreateSignedRequest(r)
        /\ UNCHANGED raccount
     \/ Refuse(r) /\ UNCHANGED follows
  /\ UNCHANGED <<inboxVars, boot, actors, accounts, opc, accepts>>

\* SendToUser: the handler is blocked in AddToOutboundQueue until an outbound
\* worker takes the request.
SendFollowRequest(r) ==
  /\ Listening
  /\ rpc[r] = "send"
  /\ \E o \in Sender :
       /\ opc[o] = Free
       /\ opc' = [opc EXCEPT ![o] = r]
  /\ Answer(r)
  /\ UNCHANGED <<inboxVars, boot, tables, raccount, accepts>>

\* Faulty variant: a failed delivery ends the outbound worker.
DeliverOrQuit(o) ==
  /\ Listening
  /\ opc[o] \in Request
  /\ raccount[opc[o]] \notin silent
  /\ opc' \in {[opc EXCEPT ![o] = Free], [opc EXCEPT ![o] = "gone"]}
  /\ UNCHANGED <<inboxVars, boot, tables, requests, accepts>>

\* sendActivityPubMessageToInbox: whether it succeeds or fails, which is only
\* logged, the worker goes on and nothing tries again.
Deliver(o) ==
  /\ Listening
  /\ opc[o] \in Request
  /\ raccount[opc[o]] \notin silent
  /\ opc' = [opc EXCEPT ![o] = Free]
  /\ UNCHANGED <<inboxVars, boot, tables, requests, accepts>>

-----------------------------------------------------------------------------
(* handleAcceptRequest. *)

\* A server posts an Accept, once or more.
PostAccept(c) ==
  /\ Listening
  /\ GetActorForUserName
  /\ LET p == [id |-> posted + 1, from |-> c.from, stated |-> "hs2019",
               used |-> "rsa-sha512", form |-> c.form, target |-> c.target]
     IN  /\ AddToQueue(p)
         /\ accepts' = IF Verify(p) THEN accepts \cup {[p EXCEPT !.id = 0]} ELSE accepts
  /\ UNCHANGED <<boot, tables, requests, opc>>

\* GetFollowByIri asks for the first row: the IRI it is given is no condition.
GetFollowByIri == 1

\* Faulty variant: the target is not compared.
SameTargetUnchecked(p, i) == TRUE

\* The target of the enclosed follow is compared with that of the row found.
SameTarget(p, i) == p.form = "object" => p.target = follows[i].target

LookUpFollow(w) ==
  /\ Listening
  /\ wpc[w] = "handle"
  /\ \/ /\ follows # <<>>
        /\ SameTarget(wjob[w], GetFollowByIri)
        /\ StepWorker(w, "save")
     \/ FreeWorker(w)
  /\ UNCHANGED <<boot, tables, requests, opc, accepts>>

SaveFollowAsAccepted(w) ==
  /\ Listening
  /\ wpc[w] = "save"
  /\ FreeWorker(w)
  /\ \/ follows' = Update(GetFollowByIri, "accepted")
     \/ UNCHANGED follows
  /\ UNCHANGED <<boot, actors, accounts, requests, opc, accepts>>

-----------------------------------------------------------------------------
Kill ==
  /\ Killed
  /\ calls' = 0
  /\ booting' = <<>>
  /\ table' = "actor"
  /\ rpc' = [r \in Request |-> IF rpc[r] \in {"send", "done"} THEN "done" ELSE "idle"]
  /\ raccount' = [r \in Request |-> IF rpc[r] \in {"send", "done"} THEN raccount[r] ELSE Nobody]
  /\ opc' = [o \in Sender |-> Free]
  /\ UNCHANGED <<tables, accepts>>

\* The goroutines: a register handler, an outbound worker, a worker of the inbox.
HandlerStep(r) == FetchAccount(r) \/ AddFollow(r) \/ SendFollowRequest(r)

PoolStep(w) ==
  /\ TakeJob(w) \/ VerifyJob(w)
  /\ UNCHANGED <<boot, tables, requests, opc, accepts>>

WorkerStep(w) == PoolStep(w) \/ LookUpFollow(w) \/ SaveFollowAsAccepted(w)

GoSilent(s) ==
  /\ FallSilent(s)
  /\ UNCHANGED <<boot, tables, requests, opc, accepts>>

Init ==
  /\ InitInbox
  /\ up = FALSE
  /\ calls = 0
  /\ booting = <<>>
  /\ table = "actor"
  /\ actors = <<>>
  /\ accounts = {}
  /\ follows = <<>>
  /\ rpc = [r \in Request |-> "idle"]
  /\ raccount = [r \in Request |-> Nobody]
  /\ opc = [o \in Sender |-> Free]
  /\ accepts = {}

Next ==
  \/ Start \/ MigrateStep \/ Kill
  \/ \E r \in Request : HandlerStep(r) \/ \E s \in Server : Register(r, s)
  \/ \E o \in Sender : Deliver(o)
  \/ \E w \in Worker : WorkerStep(w)
  \/ \E s \in Server : GoSilent(s)
  \/ \E c \in Claim : PostAccept(c)

\* Goroutines that can run do run; a supervisor starts the process again.
Fairness ==
  /\ WF_vars(Start \/ MigrateStep)
  /\ \A r \in Request : WF_vars(HandlerStep(r))
  /\ \A o \in Sender : WF_vars(Deliver(o))
  /\ \A w \in Worker : WF_vars(WorkerStep(w))

Spec == Init /\ [][Next]_vars /\ Fairness

-----------------------------------------------------------------------------
\* Type invariant.
TypeOK ==
  /\ InboxTypeOK
  /\ calls \in 0..2
  /\ Range(booting) \subseteq Server \cup {Local}
  /\ table \in {"actor", "account", "instance"}
  /\ Range(actors) \subseteq Server \cup {Local}
  /\ accounts \subseteq Range(Trusted)
  /\ Len(follows) <= Cardinality(Request)
  /\ \A r \in Request :
       /\ rpc[r] \in {"idle", "fetch", "add", "send", "done"}
       /\ raccount[r] \in Server \cup {Nobody}
  /\ \A o \in Sender : opc[o] \in Request \cup {Free, "gone"}

\* A follow is marked as accepted only on the word of a server: some Accept
\* that passes Verify was posted, and it named a follow by IRI or enclosed a
\* follow of the same target (accept.go, both branches, with the lookup that
\* ignores the IRI).
AcceptedOnWord ==
  \A i \in DOMAIN follows :
    follows[i].state = "accepted" =>
      \E p \in accepts :
        /\ Verify(p)
        /\ p.form = "iri" \/ p.target = follows[i].target

\* What is handed to the outbound pool is in the follow table, for the server it
\* is sent to: an answer can never arrive for a follow nobody stored (register.go:
\* Add comes before SendFollowRequest), whatever fails or is killed between.
StoredBeforeSent ==
  \A r \in Request :
    (\E o \in Sender : opc[o] = r) =>
      \E i \in DOMAIN follows : follows[i].iri = r /\ follows[i].target = raccount[r]

\* The instance's own actor is the oldest one, or is never stored: a later actor
\* cannot come before it, whatever create failed unseen and wherever the first
\* start was killed or ended.  GetActorForUserName returns the first row whatever
\* the name, so this is what makes it the right one wherever there is a right one.
LocalActorFirst == Local \in Range(actors) => actors[1] = Local

\* No follow goes out in the name of an actor that is not there (Register asks
\* for the instance's own actor, which a first start may have left out).
FollowsAreOwn ==
  \A r \in Request :
    rpc[r] \in {"fetch", "add", "send"} \/ (\E i \in DOMAIN follows : follows[i].iri = r) =>
      Local \in Range(actors)

\* No account is stored without its actor, although nobody looks at the errors of
\* the creates (the actor is read back in between).
AccountsHaveActors == accounts \subseteq Range(actors)

\* The tables are well formed, whatever was killed or failed: types, the instance's own actor first
\* or nowhere, no account without its actor, and nothing on its way that is not stored.
TablesOK ==
  /\ TypeOK
  /\ LocalActorFirst
  /\ FollowsAreOwn
  /\ AccountsHaveActors
  /\ StoredBeforeSent

\* A register request is answered, unless the server it asks is silent or
\* silent servers hold every outbound worker.
RegisterAnswered ==
  \A r \in Request :
    rpc[r] \in {"fetch", "add", "send"} ~>
      \/ rpc[r] \in {"idle", "done"}
      \/ rpc[r] = "fetch" /\ raccount[r] \in silent
      \/ \A o \in Sender : opc[o] \in Request /\ raccount[opc[o]] \in silent

Waits(i) == \E p \in waiting : p.id = i

\* An activity that waits in AddToQueue is taken by a worker (or lost with the
\* process), unless silent servers hold every worker.
InboxServed ==
  \A i \in 1..MaxPosts :
    Waits(i) ~> (~Waits(i) \/ \A w \in Worker : Stuck(w))
=============================================================================
