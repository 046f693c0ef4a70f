-------------------------------- MODULE Hub --------------------------------
(***************************************************************************)
(* The hub of one lobby: it forwards the tracks of every session to the     *)
(* egress endpoints of the other sessions.  Modelled with it: the           *)
(* goroutines that dispatch to it (receiver.onTrack, the writer of a media  *)
(* stream), the goroutine of an egress endpoint that fetches the current    *)
(* tracks, Endpoint.AddTrack/RemoveTrack, and the session mutex, which a    *)
(* command holds while it establishes the endpoint and gathers candidates.  *)
(*                                                                          *)
(* The hub's request channel is unbuffered; as in module Lobby a rendezvous *)
(* needs the hub in its select and its context open.                        *)
(***************************************************************************)
EXTENDS Naturals

CONSTANTS
  Session,    \* sessions of the lobby
  Track,      \* local tracks the receivers create, each with a fresh id
  Owner,      \* TrackInfo.SessionId of each track
  Main,       \* the tracks with PurposeMain
  HasSender,  \* the hub was given a liveStreamSender
  NoTrack,    \* no track
  NoSession   \* no session

ASSUME HubAssumption ==
  /\ Owner \in [Track -> Session]
  /\ Main \subseteq Track
  /\ HasSender \in BOOLEAN
  /\ NoTrack \notin Track
  /\ NoSession \notin Session

VARIABLES
  open,       \* Hub.ctx, the context of the lobby
  registered, \* SessionRepository.sessions
  stopped,    \* sessions whose own context was cancelled
  phase,      \* egress endpoint and mutex of each session
  senders,    \* number of RTP senders per session and track
  tracks,     \* Hub.tracks
  forwarded,  \* tracks handed to the liveStreamSender
  hub,        \* where Hub.run stands
  kind,       \* kind of the event it handles
  track,      \* track of that event
  to,         \* the session it delivers or replies to
  todo,       \* sessions Iter has still to visit
  adding,     \* receiver.onTrack of each track
  removing,   \* writer goroutine of each track
  fetch,      \* goroutine that fetches the current tracks for a session
  list,       \* its track list, what is left of it
  pick,       \* the track it is about to add
  panicked,   \* the hub goroutine panicked
  missed      \* auxiliary: tracks a session may be out of step with, and only these

hubVars   == <<tracks, forwarded, hub, kind, track, to, todo>>
sessVars  == <<registered, stopped, phase>>
pubVars   == <<adding, removing>>
fetchVars == <<fetch, list, pick>>
vars == <<open, sessVars, senders, hubVars, pubVars, fetchVars, panicked, missed>>

HubState   == {"idle", "iter", "deliver", "push", "reply", "returned"}
PhaseState == {"none", "locked", "open", "ready", "busy"}
PubState   == {"idle", "writing", "sending", "done"}
FetchState == {"none", "wait", "request", "receive", "add", "push", "done", "failed"}

\* The process is up and stays up.
Running == ~panicked /\ UNCHANGED panicked

\* The context of a session is a child of the lobby's.
Done(s) == ~open \/ s \in stopped

Foreign(s) == {t \in Track : Owner[t] # s} \* filterForSession

\* SessionRepository.Iter holds the registry lock.
Iterating == hub \in {"iter", "deliver", "push"}

\* The lobby sequencer runs one command or item at a time.
SequencerFree == \A s \in Session : phase[s] \notin {"locked", "open", "busy"}

-----------------------------------------------------------------------------
(* Publishing: receiver.onTrack and mediaStream.write{Audio,Video}Rtp.      *)
(* The writer goroutine is started before the track is dispatched.          *)

OnTrack(t) ==
  /\ adding[t] = "idle"
  /\ Owner[t] \in registered /\ ~Done(Owner[t])
  /\ adding' = [adding EXCEPT ![t] = "sending"]
  /\ removing' = [removing EXCEPT ![t] = "writing"]
  /\ UNCHANGED <<open, sessVars, senders, hubVars, fetchVars, missed>>
  /\ Running

\* writeRtp returns: end of the remote track, an error, or the session is done.
WriterEnds(t) ==
  /\ removing[t] = "writing"
  /\ removing' = [removing EXCEPT ![t] = "sending"]
  /\ UNCHANGED <<open, sessVars, senders, hubVars, adding, fetchVars, missed>>
  /\ Running

\* The closed context or the dispatch timeout ends a dispatch: the event is dropped.
DropAdd(t) ==
  /\ adding[t] = "sending"
  /\ adding' = [adding EXCEPT ![t] = "done"]
  /\ UNCHANGED <<open, sessVars, senders, hubVars, removing, fetchVars, missed>>
  /\ Running

DropRemove(t) ==
  /\ removing[t] = "sending"
  /\ removing' = [removing EXCEPT ![t] = "done"]
  /\ UNCHANGED <<open, sessVars, senders, hubVars, adding, fetchVars, missed>>
  /\ Running

-----------------------------------------------------------------------------
(* The hub goroutine. *)

Receptive == hub = "idle" /\ open

\* Back to the select of Hub.run.
Idle ==
  /\ hub' = "idle"
  /\ kind' = "none"
  /\ track' = NoTrack
  /\ to' = NoSession
  /\ todo' = {}

StartIter(k, t) ==
  /\ hub' = "iter"
  /\ kind' = k
  /\ track' = t
  /\ todo' = registered
  /\ UNCHANGED to

\* DispatchAddTrack and onAddTrack up to Iter.  A main track is handed to the
\* sender first, which is nil in a hub built without one.
TakeAdd(t) ==
  /\ adding[t] = "sending" /\ Receptive
  /\ adding' = [adding EXCEPT ![t] = "done"]
  /\ IF t \in Main /\ ~HasSender
     THEN panicked' = TRUE /\ UNCHANGED hubVars
     ELSE /\ forwarded' = forwarded \cup ({t} \cap Main)
          /\ tracks' = tracks \cup {t}
          /\ StartIter("add", t)
          /\ UNCHANGED panicked
  /\ ~panicked
  /\ UNCHANGED <<open, sessVars, senders, removing, fetchVars, missed>>

\* Faulty variant: the track stays in the hub's own table.
TakeRemoveKeeps(t) ==
  /\ removing[t] = "sending" /\ Receptive
  /\ removing' = [removing EXCEPT ![t] = "done"]
  /\ forwarded' = forwarded \ {t}
  /\ StartIter("remove", t)
  /\ UNCHANGED <<open, sessVars, senders, tracks, adding, fetchVars, missed>>
  /\ Running

TakeRemove(t) ==
  /\ removing[t] = "sending" /\ Receptive
  /\ removing' = [removing EXCEPT ![t] = "done"]
  /\ IF t \in Main /\ ~HasSender
     THEN panicked' = TRUE /\ UNCHANGED hubVars
     ELSE /\ forwarded' = forwarded \ {t}
          /\ tracks' = tracks \ {t}
          /\ StartIter("remove", t)
          /\ UNCHANGED panicked
  /\ ~panicked
  /\ UNCHANGED <<open, sessVars, senders, adding, fetchVars, missed>>

\* Faulty variant: initComplete without the attempt to lock.
InitCompleteUnlocked(s) == phase[s] \in {"open", "ready", "busy"}

\* Session.initComplete: TryRLock fails while a command holds the mutex.
InitComplete(s) == phase[s] = "ready"

\* A skipped event is lost for a session that has its snapshot already, and a skipped
\* removal for a session that may have got the track from an earlier event.
LostBySkip(s) ==
  IF /\ track \in Foreign(s)
     /\ \/ phase[s] \in {"open", "busy"} /\ fetch[s] \in {"add", "push", "done"}
        \/ phase[s] = "busy" /\ kind = "remove"
  THEN {track} ELSE {}

Visit(s) ==
  /\ hub = "iter"
  /\ s \in todo
  /\ todo' = todo \ {s}
  /\ \/ /\ InitComplete(s) /\ track \in Foreign(s)
        /\ hub' = "deliver" /\ to' = s
        /\ UNCHANGED missed
     \/ /\ ~InitComplete(s) \/ track \notin Foreign(s) \/ Done(s)
        /\ missed' = [missed EXCEPT ![s] = @ \cup LostBySkip(s)]
        /\ UNCHANGED <<hub, to>>
  /\ UNCHANGED <<open, sessVars, senders, tracks, forwarded, kind, track, pubVars, fetchVars>>
  /\ Running

\* Back in Iter, which goes on with the next session.
Delivered == hub' = "iter" /\ to' = NoSession

\* Session.addTrack up to hasTrack, under the read lock.
AddTrack ==
  /\ hub = "deliver" /\ kind = "add"
  /\ phase[to] = "ready"
  /\ \/ senders[to][track] > 0 /\ Delivered
     \/ senders[to][track] = 0 /\ hub' = "push" /\ UNCHANGED to
  /\ UNCHANGED <<open, sessVars, senders, tracks, forwarded, kind, track, todo, pubVars, fetchVars, missed>>
  /\ Running

\* peerConnection.AddTrack fails on a closed connection.
Pushed(s, t) == IF Done(s) THEN senders ELSE [senders EXCEPT ![s][t] = @ + 1]

PushTrack ==
  /\ hub = "push"
  /\ senders' = Pushed(to, track)
  /\ Delivered
  /\ UNCHANGED <<open, sessVars, tracks, forwarded, kind, track, todo, pubVars, fetchVars, missed>>
  /\ Running

\* Session.removeTrack.  The fetching goroutine may still hold the track in its list.
RemoveTrack ==
  /\ hub = "deliver" /\ kind = "remove"
  /\ phase[to] = "ready"
  /\ senders' = IF senders[to][track] > 0 THEN [senders EXCEPT ![to][track] = @ - 1] ELSE senders
  /\ missed' = [missed EXCEPT ![to] = @ \cup ({track} \cap list[to])]
  /\ Delivered
  /\ UNCHANGED <<open, sessVars, tracks, forwarded, kind, track, todo, pubVars, fetchVars>>
  /\ Running

IterDone ==
  /\ hub = "iter" /\ todo = {}
  /\ Idle
  /\ UNCHANGED <<open, sessVars, senders, tracks, forwarded, pubVars, fetchVars, missed>>
  /\ Running

\* onGetTrackList and the receiving select of getTrackList.
Reply ==
  /\ hub = "reply" /\ open
  /\ fetch[to] = "receive"
  /\ list' = [list EXCEPT ![to] = tracks \cap Foreign(to)]
  /\ fetch' = [fetch EXCEPT ![to] = "add"]
  /\ Idle
  /\ UNCHANGED <<open, sessVars, senders, tracks, forwarded, pubVars, pick, missed>>
  /\ Running

\* Faulty variant: onGetTrackList without timeout and context.
DropReplyNever ==
  /\ hub = "unreachable"
  /\ Idle
  /\ UNCHANGED <<open, sessVars, senders, tracks, forwarded, pubVars, fetchVars, missed>>
  /\ Running

\* The closed context or the timeout ends the reply: nobody received it.
DropReply ==
  /\ hub = "reply"
  /\ Idle
  /\ UNCHANGED <<open, sessVars, senders, tracks, forwarded, pubVars, fetchVars, missed>>
  /\ Running

HubReturn ==
  /\ hub = "idle" /\ ~open
  /\ hub' = "returned"
  /\ UNCHANGED <<open, sessVars, senders, tracks, forwarded, kind, track, to, todo, pubVars, fetchVars, missed>>
  /\ Running

-----------------------------------------------------------------------------
(* Commands on a session, run by the lobby sequencer. *)

\* CreateEgressEndpoint takes the mutex; setupOnNegotiationNeeded starts the fetch.
BeginEgress(s) ==
  /\ SequencerFree /\ s \in registered /\ ~Done(s)
  /\ phase[s] = "none"
  /\ phase' = [phase EXCEPT ![s] = "locked"]
  /\ fetch' = [fetch EXCEPT ![s] = "wait"]
  /\ UNCHANGED <<open, registered, stopped, senders, hubVars, pubVars, list, pick, missed>>
  /\ Running

\* EstablishEndpoint returns an error; the fetch waits for a channel never closed.
EstablishFails(s) ==
  /\ phase[s] = "locked"
  /\ phase' = [phase EXCEPT ![s] = "none"]
  /\ fetch' = [fetch EXCEPT ![s] = "none"]
  /\ UNCHANGED <<open, registered, stopped, senders, hubVars, pubVars, list, pick, missed>>
  /\ Running

\* SetInitComplete, at the end of EstablishEndpoint.
SetInitComplete(s) ==
  /\ phase[s] = "locked" /\ ~Done(s)
  /\ phase' = [phase EXCEPT ![s] = "open"]
  /\ UNCHANGED <<open, registered, stopped, senders, hubVars, pubVars, fetchVars, missed>>
  /\ Running

\* GetLocalDescription returns after seconds, only then is the mutex free.
EgressReturns(s) ==
  /\ phase[s] = "open"
  /\ phase' = [phase EXCEPT ![s] = "ready"]
  /\ UNCHANGED <<open, registered, stopped, senders, hubVars, pubVars, fetchVars, missed>>
  /\ Running

\* A further command takes the mutex and returns ErrIngress/EgressAlreadyExists.
\* It waits for the read lock of addTrack.
RefusedCommand(s) ==
  /\ SequencerFree /\ phase[s] = "ready"
  /\ ~(hub = "push" /\ to = s)
  /\ phase' = [phase EXCEPT ![s] = "busy"]
  /\ UNCHANGED <<open, registered, stopped, senders, hubVars, pubVars, fetchVars, missed>>
  /\ Running

RefusedReturns(s) ==
  /\ phase[s] = "busy"
  /\ phase' = [phase EXCEPT ![s] = "ready"]
  /\ UNCHANGED <<open, registered, stopped, senders, hubVars, pubVars, fetchVars, missed>>
  /\ Running

\* SessionRepository.New and DeleteByUser wait for the registry lock.
Register(s) ==
  /\ SequencerFree /\ ~Iterating /\ open
  /\ s \notin registered /\ s \notin stopped /\ phase[s] = "none"
  /\ registered' = registered \cup {s}
  /\ UNCHANGED <<open, stopped, phase, senders, hubVars, pubVars, fetchVars, missed>>
  /\ Running

\* DeleteByUser, then Session.stop by the goroutine of onLostConnection.
Leave(s) ==
  /\ SequencerFree /\ ~Iterating
  /\ s \in registered
  /\ registered' = registered \ {s}
  /\ stopped' = stopped \cup {s}
  /\ UNCHANGED <<open, phase, senders, hubVars, pubVars, fetchVars, missed>>
  /\ Running

CloseLobby ==
  /\ open /\ SequencerFree
  /\ open' = FALSE
  /\ UNCHANGED <<sessVars, senders, hubVars, pubVars, fetchVars, missed>>
  /\ Running

-----------------------------------------------------------------------------
(* The goroutine of setupOnNegotiationNeeded: getTrackList, then AddTrack.  *)

FetchStart(s) ==
  /\ fetch[s] = "wait"
  /\ \/ phase[s] \in {"open", "ready", "busy"} /\ fetch' = [fetch EXCEPT ![s] = "request"]
     \/ Done(s) /\ fetch' = [fetch EXCEPT ![s] = "failed"]
  /\ UNCHANGED <<open, sessVars, senders, hubVars, pubVars, list, pick, missed>>
  /\ Running

FetchRequest(s) ==
  /\ fetch[s] = "request" /\ Receptive
  /\ fetch' = [fetch EXCEPT ![s] = "receive"]
  /\ hub' = "reply"
  /\ to' = s
  /\ UNCHANGED <<open, sessVars, senders, tracks, forwarded, kind, track, todo, pubVars, list, pick, missed>>
  /\ Running

\* Faulty variant: the receiving select has neither.
FetchFailsOnce(s) ==
  /\ fetch[s] = "request"
  /\ fetch' = [fetch EXCEPT ![s] = "failed"]
  /\ UNCHANGED <<open, sessVars, senders, hubVars, pubVars, list, pick, missed>>
  /\ Running

\* Either select of getTrackList may end by the closed context or the timeout.
FetchFails(s) ==
  /\ fetch[s] \in {"request", "receive"}
  /\ fetch' = [fetch EXCEPT ![s] = "failed"]
  /\ UNCHANGED <<open, sessVars, senders, hubVars, pubVars, list, pick, missed>>
  /\ Running

\* Faulty variant: no hasTrack.
FetchUnchecked(s, t) ==
  /\ fetch[s] = "add" /\ t \in list[s]
  /\ fetch' = [fetch EXCEPT ![s] = "push"]
  /\ pick' = [pick EXCEPT ![s] = t]
  /\ UNCHANGED <<open, sessVars, senders, hubVars, pubVars, list, missed>>
  /\ Running

\* Endpoint.AddTrack, without the session mutex.
FetchCheck(s, t) ==
  /\ fetch[s] = "add" /\ t \in list[s]
  /\ IF senders[s][t] > 0
     THEN list' = [list EXCEPT ![s] = @ \ {t}] /\ UNCHANGED <<fetch, pick>>
     ELSE /\ fetch' = [fetch EXCEPT ![s] = "push"]
          /\ pick' = [pick EXCEPT ![s] = t]
          /\ UNCHANGED list
  /\ UNCHANGED <<open, sessVars, senders, hubVars, pubVars, missed>>
  /\ Running

FetchPush(s) ==
  /\ fetch[s] = "push"
  /\ senders' = Pushed(s, pick[s])
  /\ list' = [list EXCEPT ![s] = @ \ {pick[s]}]
  /\ fetch' = [fetch EXCEPT ![s] = "add"]
  /\ pick' = [pick EXCEPT ![s] = NoTrack]
  /\ UNCHANGED <<open, sessVars, hubVars, pubVars, missed>>
  /\ Running

FetchDone(s) ==
  /\ fetch[s] = "add" /\ list[s] = {}
  /\ fetch' = [fetch EXCEPT ![s] = "done"]
  /\ UNCHANGED <<open, sessVars, senders, hubVars, pubVars, list, pick, missed>>
  /\ Running

-----------------------------------------------------------------------------
Init ==
  /\ open = TRUE
  /\ registered = {}
  /\ stopped = {}
  /\ phase = [s \in Session |-> "none"]
  /\ senders = [s \in Session |-> [t \in Track |-> 0]]
  /\ tracks = {}
  /\ forwarded = {}
  /\ hub = "idle"
  /\ kind = "none"
  /\ track = NoTrack
  /\ to = NoSession
  /\ todo = {}
  /\ adding = [t \in Track |-> "idle"]
  /\ removing = [t \in Track |-> "idle"]
  /\ fetch = [s \in Session |-> "none"]
  /\ list = [s \in Session |-> {}]
  /\ pick = [s \in Session |-> NoTrack]
  /\ panicked = FALSE
  /\ missed = [s \in Session |-> {}]

PublisherStep(t) ==
  \/ OnTrack(t) \/ WriterEnds(t) \/ DropAdd(t) \/ DropRemove(t)
  \/ TakeAdd(t) \/ TakeRemove(t)

HubStep ==
  \/ \E s \in Session : Visit(s)
  \/ AddTrack \/ PushTrack \/ RemoveTrack \/ IterDone
  \/ Reply \/ DropReply \/ HubReturn

CommandStep(s) == EstablishFails(s) \/ SetInitComplete(s) \/ EgressReturns(s) \/ RefusedReturns(s)

SequencerStep(s) == BeginEgress(s) \/ RefusedCommand(s) \/ Register(s) \/ Leave(s)

FetchStep(s) ==
  \/ FetchStart(s) \/ FetchRequest(s) \/ FetchFails(s)
  \/ \E t \in Track : FetchCheck(s, t)
  \/ FetchPush(s) \/ FetchDone(s)

Next ==
  \/ \E t \in Track : PublisherStep(t)
  \/ HubStep
  \/ \E s \in Session : CommandStep(s) \/ SequencerStep(s) \/ FetchStep(s)
  \/ CloseLobby

Spec == Init /\ [][Next]_vars

\* Fairness: the hub, running commands and fetching goroutines make progress; a reader
\* waiting for the session mutex is let in when the writer leaves (hence SF).  Clients,
\* writers and further commands are the environment's.
FairSpec ==
  /\ Spec
  /\ SF_vars(HubStep)
  /\ \A s \in Session :
       WF_vars(CommandStep(s)) /\ WF_vars(FetchStep(s))

-----------------------------------------------------------------------------
(* Properties. *)

\* Every variable has its type.
TypeOK ==
  /\ {open, panicked} \subseteq BOOLEAN
  /\ registered \subseteq Session /\ stopped \subseteq Session
  /\ phase \in [Session -> PhaseState]
  /\ senders \in [Session -> [Track -> Nat]]
  /\ tracks \subseteq Track /\ forwarded \subseteq Track
  /\ hub \in HubState
  /\ kind \in {"none", "add", "remove"}
  /\ track \in Track \cup {NoTrack}
  /\ to \in Session \cup {NoSession}
  /\ todo \subseteq Session
  /\ adding \in [Track -> PubState] /\ removing \in [Track -> PubState]
  /\ fetch \in [Session -> FetchState]
  /\ list \in [Session -> SUBSET Track]
  /\ pick \in [Session -> Track \cup {NoTrack}]
  /\ missed \in [Session -> SUBSET Track]

\* hub.go: "That's why we don't block the call": the hub never waits for the mutex of a
\* session that establishes an endpoint or gathers candidates (Session.initComplete is
\* checked before, and not under the same lock as, Session.addTrack).
NeverWaitsForGathering == hub \in {"deliver", "push"} => phase[to] \in {"ready", "busy"}

\* A track has at most one sender per egress connection, although hub and fetching
\* goroutine both run Endpoint.AddTrack, which checks hasTrack and then adds.
OneSenderPerTrack == \A s \in Session, t \in Track : senders[s][t] <= 1

\* No session receives its own tracks back (filterForSession, on both paths).
NoEcho == \A s \in Session, t \in Track : senders[s][t] > 0 => Owner[t] # s

\* What egress connections send is well formed: types, every track once, none to its owner.
SendersOK == TypeOK /\ OneSenderPerTrack /\ NoEcho

\* The hub at rest and an egress endpoint that has fetched its tracks agree on every
\* track of other sessions but those missed: skipped because a command held the mutex
\* after the snapshot (or before a removal), or removed while still in the fetched list.
InStepButMissed ==
  hub = "idle" =>
    \A s \in registered :
      phase[s] \in {"ready", "busy"} /\ fetch[s] = "done" /\ ~Done(s) =>
        \A t \in Foreign(s) \ missed[s] : senders[s][t] > 0 <=> t \in tracks

\* The hub always comes back to its select: neither a fetching goroutine that gave up
\* nor a session mutex keeps it (onGetTrackList, Session.addTrack).
HubReturns == hub \notin {"idle", "returned"} ~> hub \in {"idle", "returned"}

\* The goroutine that fetches the current tracks ends (getTrackList).
FetchEnds == \A s \in Session : fetch[s] = "request" ~> fetch[s] \in {"done", "failed"}
=============================================================================
