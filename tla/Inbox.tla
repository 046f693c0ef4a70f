------------------------------- MODULE Inbox -------------------------------
(***************************************************************************)
(* The ActivityPub inbox of an instance: HTTP handlers blocked in           *)
(* AddToQueue on an unbuffered channel, a fixed pool of workers that take   *)
(* one activity each, and the HTTP signature check that begins every job.   *)
(* The http clients have no timeout, so a remote server that falls silent   *)
(* keeps the goroutine that asked it.  A worker has no recover: a panic     *)
(* ends the process and with it everything that was not yet stored.         *)
(***************************************************************************)
EXTENDS Naturals, Sequences, FiniteSets

CONSTANTS
  Worker,    \* the goroutines of InitInboxWorkerPool (GOMAXPROCS of them)
  Server,    \* remote servers, each also naming its actor and its key pair
  Document,  \* Document[s]: what the actor (and key) IRI of s serves
  Fragile,   \* the servers that may fall silent
  Nobody,    \* no server
  MaxPosts,  \* bound: activities posted to the inbox
  MaxKills   \* bound: how often the process is ended from outside

ASSUME InboxAssumption ==
  /\ Nobody \notin Server
  /\ Fragile \subseteq Server
  /\ MaxPosts \in Nat
  /\ MaxKills \in Nat

VARIABLES
  up,       \* the process runs
  kills,    \* how often it was ended from outside
  silent,   \* the servers that no longer answer
  posted,   \* how many activities were posted so far
  waiting,  \* the activities whose HTTP handler is blocked in AddToQueue
  wpc,      \* where each worker stands
  wjob      \* the activity it holds

NoJob == [id |-> 0] \* a worker without an activity

poolVars  == <<waiting, wpc, wjob>>
inboxVars == <<up, kills, silent, posted, poolVars>>

-----------------------------------------------------------------------------
(* The documents remote servers serve.  A document lists public keys;       *)
(* "pem" is what the PEM text of an entry holds (every entry has one:       *)
(* Verify reads it unchecked, and a nil property there is not modelled).    *)

DocType == {"Person", "Service", "Application", "Group", "PublicKey", "Note"}
Pem     == {"pkix", "pkcs1", "ecdsa", "garbled"}
Key     == [embedded : BOOLEAN, owner : Server \cup {Nobody}, pem : Pem, pair : Server]
NoKey   == [embedded |-> FALSE, owner |-> Nobody, pem |-> "garbled", pair |-> Nobody]

\* What is served parses: it has a type and an id, and its keys are in order.
ASSUME DocumentAssumption ==
  Document \in [Server -> [type : DocType, named : BOOLEAN, id : Server, keys : Seq(Key)]]

\* The loops over the keys of a document end with the first one that will do.
FirstKey(keys) == IF keys = <<>> THEN NoKey ELSE Head(keys)

\* ResolveIRI: a signed GET without a timeout.  A silent server keeps the
\* goroutine waiting for ever.
ResolveIRI(s) == s \notin silent

\* Resolve: the callback for the type of a document runs; a type nobody asked
\* for is no error and leaves nothing behind.
Resolve(d, types) == d.type \in types

\* The callbacks of GetResolvedPublicKeyFromIRI: the first embedded key of a
\* person, a service or an application, or the document itself.
GetResolvedPublicKeyFromIRI(s) ==
  LET d == Document[s]
      Embedded(k) == k.embedded
  IN  CASE Resolve(d, {"Person", "Service", "Application"}) -> FirstKey(SelectSeq(d.keys, Embedded))
        [] Resolve(d, {"PublicKey"}) -> d.keys[1]
        [] OTHER -> NoKey

\* extractPublicKey: entries that lack a part, or are no RSA key, are passed
\* over; one whose block does not parse ends the search.
ExtractPublicKey(s) ==
  LET Usable(k) == k.embedded /\ k.owner # Nobody /\ k.pem \in {"pkix", "pkcs1", "garbled"}
      first == FirstKey(SelectSeq(Document[s].keys, Usable))
  IN  IF first.pem = "garbled" THEN NoKey ELSE first

\* FetchAccountAsActor yields an actor: an account with a name whose key says
\* that it belongs to the account.
IsAccount(s) ==
  LET d == Document[s]
  IN  /\ d.type \in {"Person", "Service", "Application", "Group"}
      /\ d.named
      /\ ExtractPublicKey(s) # NoKey
      /\ ExtractPublicKey(s).owner = d.id

-----------------------------------------------------------------------------
(* The worker pool. *)

\* Verify: the header names an algorithm, the key document yields a key with
\* an owner and a PKIX block, and the signature fits under the named algorithm
\* or one of the two usual ones.
Verify(p) ==
  LET k == GetResolvedPublicKeyFromIRI(p.from)
  IN  /\ p.stated # "none"
      /\ k # NoKey
      /\ k.owner # Nobody
      /\ k.pem = "pkix"
      /\ k.pair = p.from
      /\ p.used \in {p.stated, "rsa-sha256", "rsa-sha512"}

\* acceptInboxRequest and acceptSharedInboxRequest up to AddToQueue.  An
\* activity is a record; its id tells two deliveries of it apart.
AddToQueue(p) ==
  /\ up
  /\ posted < MaxPosts
  /\ posted' = posted + 1
  /\ waiting' = waiting \cup {p}
  /\ UNCHANGED <<up, kills, silent, wpc, wjob>>

\* The channel hands an activity to a worker that ranges over the queue.
TakeJob(w) ==
  /\ up
  /\ wpc[w] = "idle"
  /\ \E p \in waiting :
       /\ waiting' = waiting \ {p}
       /\ wjob' = [wjob EXCEPT ![w] = p]
       /\ wpc' = [wpc EXCEPT ![w] = "verify"]
  /\ UNCHANGED <<up, kills, silent, posted>>

\* A job ends, well or with an error that is only logged.
FreeWorker(w) ==
  /\ wpc' = [wpc EXCEPT ![w] = "idle"]
  /\ wjob' = [wjob EXCEPT ![w] = NoJob]
  /\ UNCHANGED <<up, kills, silent, posted, waiting>>

StepWorker(w, state) ==
  /\ wpc' = [wpc EXCEPT ![w] = state]
  /\ UNCHANGED <<up, kills, silent, posted, waiting, wjob>>

\* Faulty variant: the worker ends instead of going on with the next job.
VerifyJobQuits(w) ==
  /\ up
  /\ wpc[w] = "verify"
  /\ ResolveIRI(wjob[w].from)
  /\ \/ Verify(wjob[w]) /\ StepWorker(w, "handle")
     \/ StepWorker(w, "gone")

\* handle: the key is fetched (which may fail) and the signature checked.
VerifyJob(w) ==
  /\ up
  /\ wpc[w] = "verify"
  /\ ResolveIRI(wjob[w].from)
  /\ \/ Verify(wjob[w]) /\ StepWorker(w, "handle")
     \/ FreeWorker(w)

-----------------------------------------------------------------------------
(* The environment. *)

FallSilent(s) ==
  /\ s \in Fragile \ silent
  /\ silent' = silent \cup {s}
  /\ UNCHANGED <<up, kills, posted, poolVars>>

\* The process ends: the activities waiting or in work are gone.
Die ==
  /\ up' = FALSE
  /\ waiting' = {}
  /\ wpc' = [w \in Worker |-> "idle"]
  /\ wjob' = [w \in Worker |-> NoJob]
  /\ UNCHANGED <<silent, posted>>

Killed ==
  /\ up
  /\ kills < MaxKills
  /\ kills' = kills + 1
  /\ Die

InitInbox ==
  /\ kills = 0
  /\ silent = {}
  /\ posted = 0
  /\ waiting = {}
  /\ wpc = [w \in Worker |-> "idle"]
  /\ wjob = [w \in Worker |-> NoJob]

InboxTypeOK ==
  /\ up \in BOOLEAN
  /\ kills \in 0..MaxKills
  /\ silent \subseteq Fragile
  /\ posted \in 0..MaxPosts
  /\ \A p \in waiting : p.id \in 1..posted
  /\ \A w \in Worker : wjob[w] = NoJob <=> wpc[w] = "idle"
  /\ \A w \in Worker : wjob[w].id \in 0..posted \ {p.id : p \in waiting}
  /\ \A v, w \in Worker : wjob[v].id = wjob[w].id /\ wjob[v] # NoJob => v = w

\* Worker w waits for a server that will not answer.
Stuck(w) == wpc[w] = "verify" /\ ~ResolveIRI(wjob[w].from)
============================================================================
