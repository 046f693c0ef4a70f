# Verification of the Shig SFU

TLA+ models of Shig, a federated WebRTC SFU (`src/`), with TLC configurations and TLAPS
proofs. A *lobby* is the live group behind one live stream. Users (and, in a federated
stream, remote instances) have a *session* in it; a session has an *ingress* endpoint that
receives media and an *egress* endpoint that sends the media of the others. The *hub* of a
lobby forwards tracks between sessions. Streams come to an instance over ActivityPub: the
instance follows a server, is told of videos, and gives the people named there access to a
lobby. Clients reach the lobby over an HTTP API guarded by one-time tokens.

## Inventory

Paths are relative to `src/internal/` unless they start with `src/`.

| Component | State | Operations | Interacts with |
|---|---|---|---|
| LobbyManager `lobby/lobby_manager.go` | the repository, the garbage channel | NewIngressResource, NewEgressResource, garbage loop | called by the HTTP handlers; calls repository and lobby |
| lobbyRepository `lobby/lobby_repository.go` | id → lobby under a lock, the stored `LobbyEntity` | getOrCreateLobby, delete | database |
| lobby `lobby/lobby.go` | context, session registry, three unbuffered channels | newSession, runCommand, the sequencer and the connector goroutine | every session; the garbage loop |
| SessionRepository `lobby/sessions/session_repository.go` | id → session under a lock | New, FindByUserId, DeleteByUser, Len, LenUserSession, Iter | sequencer (writes), hub (iterates) |
| Session `lobby/sessions/session.go` | context, mutex, ingress, egress | Create/Offer endpoint commands, onLostConnection, add/remove/muteTrack | sequencer, hub, ICE callbacks |
| signal `lobby/sessions/signal.go` | messenger, receivedMessenger, offerer, offerNumber | data channel callbacks, OnNegotiationNeeded, OnAnswer, OnMute | endpoint, client |
| Hub `lobby/sessions/hub.go` | the current tracks, the nodes of the graph, one goroutine | dispatch add/remove/mute, getTrackList | receivers, sessions, live stream sender |
| Endpoint `rtp/endpoint.go`, `rtp/establish_*.go` | peer connection, initComplete, track infos | EstablishEndpoint, AddTrack, RemoveTrack, doRenegotiation, Destruct | pion (external), hub |
| receiver, mediaStream, mediaWriter `rtp/` | local tracks, writer goroutines | onTrack, writeRtp | hub |
| statistics registry `rtp/stats/` | one worker per source, a lock | StartWorker, StopWorker, StopAllWorker | endpoint, receiver |
| node graph `metric/node_graph.go` | gauge series | node and edge updates | hub, endpoint |
| messengers `lobby/clients/messenger.go`, `src/pkg/media/messenger.go` | one sending goroutine, observers | SendOffer, SendAnswer, SendMute, onMessages | signal, data channel, client |
| SDP and track info `rtp/sdp.go`, `rtp/track_*.go` | purpose, mute flag, name, mid of a track | parse, build, copy, mute | endpoint, hub |
| federation connector `lobby/federation/` | the remote host | BuildIngress, BuildEgress | lobby, remote HTTP API |
| HTTP handlers `media/` | none | log-in, whip, whep, leave, live start/stop/status | auth, stream services, manager |
| auth, storage `auth/`, `storage/` | JWT, cookies, request tokens in a store with a collector | log-in, session, token check and rotation | handlers |
| stream services `stream/` | streams, spaces, lobbies in the database | stream access: create, update, delete | database, video service |
| ActivityPub inbox `activitypub/inbox/` | an unbuffered queue, workers | verify, Accept, Announce, Update, Delete | remote servers |
| follow handshake `activitypub/handler/register.go`, `workerpool/` | actors, follows | register, send, accept | remote servers |
| video service `activitypub/services/video.go` | videos, people, instances | add, upsert, delete | stream services, remote servers |
| migration `migration/migrate.go` | the first rows | first start | database |
| command line sender `cmd/send.go`, `runner/`, `sample/`, `src/pkg/client/` | the client's session, a track that plays a file | log in, publish, start the live stream | HTTP API |
| live stream sender, RTMP, server wiring, telemetry, logging | | | not modelled, see below |

What is hard in this code:

* *Rendezvous.* Lobby, hub, messenger and worker pool channels are unbuffered, and answers
  go back over unbuffered `Done` channels from inside the one goroutine that serves everyone.
  A party that leaves at the wrong moment blocks the others. Go's `select` chooses at random
  among ready cases, so a closed context does not prevent a send.
* *Life cycle.* A lobby is emptied, deleted, stopped and recreated while requests hold the
  old object and while ICE events of old sessions arrive late or twice. An endpoint is
  destructed while it is still being built.
* *Check, then act.* `delete` reads the registry's length before saving the entity;
  `AddTrack` checks for a sender before adding one; request tokens are compared and replaced
  later; `UpsertLiveStream` looks up and creates without a lock; a write worker reads the
  cancel function of its predecessor without a lock.
* *Snapshot against events.* A new egress endpoint fetches a snapshot of the tracks while
  the hub keeps distributing changes and skips sessions whose mutex is held.
* *Unreliable partners.* The data channel is unordered and retransmits nothing; remote
  servers may never answer and the HTTP clients that ask them have no timeout; the process
  may be killed between two statements.

A correct lobby has one live object per id and one live session per user, never strands
anybody on a channel, answers every request, and is removed when empty and only then. A
correct session closes its gate once and has a messenger before anything uses it. A correct
hub sends every track of the others exactly once to every egress endpoint, never echoes, and
never blocks for good. Signalling is correct when both sides agree on the last offer. A video
is correct when it and the access to it exist together. A client is let in with the token it
received last.

## Modules

**`Lobby`** models the manager, the repository entry of one lobby id, the successive lobby
objects of that id (`Lobby`), their sequencers (`seq`, `serving`), the registries
(`registry`, `slobby`, `suser`), and the goroutines: requests and connectors (`Caller`,
`pc`; a connector is named by its lobby) and onLostConnection goroutines (`Watcher`, `wpc`).
A rendezvous is one action of sender and receiver (`HandOver`, `WatchSend`); it needs the
sequencer in its select with an open context (`Receptive`). A parked goroutine is woken by
the closed context, and a goroutine with a ready case never parks, so two goroutines whose
contexts are both done do not meet; a sender whose own session is done can still meet a
sequencer whose lobby is open. `delete` is two actions (`DeleteCheck`, `DeleteCommit`) with
the lock held between (`deleting`): the database is called in between. Other ids are
independent but for the lock and the garbage loop, which the model leaves free to be slow. A
panic in a goroutine ends the process (`panicked`).

**`Rooms`** is the abstract specification: rooms that open and close one after the other, and
people that join and leave. `Lobby` implements it (`LobbiesAreRooms`) under the mapping *open
room* = the lobby in the repository while its context is open, *members* = registered
sessions that are not done. Everything else of `Lobby` (channels, callers, the lock, the
stored flag) is invisible in it.

**`Session`** models one session and its mutex: the command in progress (`call`), which takes
the mutex for writing before it looks at anything (`Lock`), its endpoints, the data channel
callbacks and the gate `receivedMessenger`; and the readers of the mutex: the hub, which asks
with TryRLock and then takes it again (`InitComplete`, `HubTrack`), and the goroutines of
muteTrack, which hold it while SendMute waits (`muting`). The wait for the mutex is the only
one of a command without a timeout. The kinds of signal channel the commands come with are constants, because
the commands take them as parameters. The manager passes *silent* for ingress; with it no
messenger ever exists and no egress endpoint is established, so the run uses the kinds of the
design in `signal_builder.go`.

**`Hub`** models the hub goroutine, the dispatching goroutines of every track, the fetching
goroutine of every egress endpoint, and the session mutex (`phase`: *locked* while
EstablishEndpoint runs, *open* after SetInitComplete while candidates are gathered, *ready*
when free, *busy* under a refused command). `senders` counts RTP senders, so that a double
addition is visible. As in `Session`, the model takes the egress command past the signal
channel wait. `Leave` merges DeleteByUser with the stop that follows it; in `Lobby` they are
two steps.

**`Messenger`** models both ends of a data channel: the messenger of a session with the
goroutines that send through it, the channel, and messenger and observer of a Go client.
**`Signalling`** extends it by one track on its way from the title in the publisher's offer
through the ingress endpoint, the hub and the subscriber's egress endpoint into the offers the
subscriber gets, and by the mute changes that follow the same way in goroutines of their own.
The number of an offer belongs to the session's signal: setOfferer stores the endpoint and
then sets the number back to zero (`SetOfferer`, two steps), while the endpoint it stores may
already make offers. `OnAnswer` has the four ways of signal.OnAnswer: no offerer, another
number, an answer that cannot be set, and a settled offer; `DoRenegotiation` has the offer
that cannot be created.
The client stands for one with the observer code of `src/cmd/media_streamer`; that command's
own whep request posts an empty body today.

**`Telemetry`** models how a lobby reports about itself and how endpoints are taken down: the
statistics registry of an endpoint with its lock (`locked` when StartWorker returned without
unlocking), EstablishEndpoint and Destruct, and the node graph the hub counts tracks in. The
hub map without a lock is undefined behaviour; `Race` notes it. Endpoint.AddTrack is one step
here; its check and its addition are apart in `Hub`.

**`Inbox`** models the queue, the workers and the signature check of the ActivityPub inbox,
with remote servers that serve documents (`Document`) and may fall silent, and kills of the
process. **`Follow`** extends it by the first start, the register handler, the outbound pool
and the accept handler. The first start writes row by row, and each `db.Create` may fail
unseen (`CreateActor`, `BuildTrustedInstanceAccount`, `CreateInstance`), while an actor that
cannot be built or read back ends the process. An Accept is posted by any server, whether it
received a follow or not (`Claim`). **`VideoAccess`** extends `Inbox` by announce, update and delete of a video down to
the rows of the stream service. Both keep the order of the statements; a statement that fails
leaves what was done before.

**`Media`** models log-in, session cookie and request token, the in-memory store with its
collector, and the handlers up to the lobby manager. Every request is a goroutine whose steps
interleave with all others. When StartSession fails whip writes a 500 and goes on: no header
set afterwards reaches the client (`written`), so the new token is stored and never sent.

**`LocalTrack`** models the track that plays a file: Bind and Unbind by the WebRTC library,
the callback that hands over the sampler, the write workers, and the three loopers (H.264,
VP8, Opus) with the duration each gives a sample: the Opus looper subtracts unsigned positions
in the file, which would wrap at the rewind if the counter were not reset (`InTime`; 8 bits
wide in the model). NextSample begins in one step (`CallNextSample`) and returns in another.
A worker that was not alone in it (`mixed`) may get any page of the file and a duration that
is `Unknown`, wrapped or not, or call a nil reader, which ends the process (`NilReader`): the
loopers change reader and granule without a lock. **`Sender`** extends it by the `send`
command, the sender's goroutine, and the tokens of two servers as far as the command sees
them: log-in and start go to the server of `--url`, the WHIP request to the default server of
NewClient, because StaticSender builds its WHIP client without the URL.

**`MC…`** modules give the constants; **`…Proofs`** modules hold the proofs about the module
they are named after; `LobbyProofs` those about `Rooms` too, `SenderProofs` those about
`Session`, the other end of the sender's connection, and `VideoProofs` those about `VideoAccess`.
Operators introduced with "Faulty variant" are no part of the specifications: each stands for
a plausible mistake in the action that follows it, and substituting it makes a property fail.

History variables record what happened and no step depends on them. Some name the exceptions
a property makes, because the code really can do the excepted thing: `missed` in `Hub` (tracks
skipped under a held mutex), `disturbed` in `VideoAccess` (videos whose handling failed half
way, was killed, or overlapped), `confused` in `Media` (clients with overlapping requests, or
that missed a token because the response was lost or whip had written its header),
`overlapped` in `Signalling` (a mute change before the last was through), `dropped` and
`early` there (an offer or answer that was lost or could not be applied, an offer made before
setOfferer was through), `raced`, `overtaken` and `doubled` in `Telemetry` (the unlocked map,
a removal before its addition, a source registered twice), `missed` and `raced` in
`LocalTrack` (workers that were just starting), and `Unknown` there (a duration computed by
two workers at once). What is excepted is what the code does wrong or leaves open in that
case: a mute flag that stays old, a track counted wrongly, a worker that plays on, an offer
never settled. The properties say that nothing else is affected, and the hazards in
PROJECT.json name the excepted case where one is.

## Runs

Deadlock checking is off everywhere: requests, commands, tracks and activities are finite in
number, so a run may come to rest. What must not come to rest is stated as liveness.
Properties named *…OK* are conjunctions: the module's type invariant and the invariants of
state shape that belong to it.

| Run | Bounds | Shows |
|---|---|---|
| lobby | 2 lobby objects with connectors, 3 sessions, 2 users, 3 requests, 2 watchers, failing database | LobbyOK, OpenLobbyIsCurrent, OneLiveSessionPerUser, RendezvousMatched, InUseNotDeleted, LobbiesAreRooms |
| lobby_live | 2 lobby objects, 2 sessions, 2 requests, 2 watchers, fair | RequestsAnswered, EmptyLobbyIsRemoved, LostSessionEnds |
| session | 4 commands, 2 mutes, the hub, egress endpoint with and without a signal channel of its own, fair | SessionOK, EgressHasMessenger, ClosedOnce, CommandReturns |
| hub | 2 sessions, 1 main track, with a sender, fair | SendersOK, NeverWaitsForGathering, InStepButMissed, HubReturns, FetchEnds |
| signalling | 1 track, 2 mute changes, 2 offers, 1 title, lossy channel, fair | TitlesOK, LastMuteApplied, Agreement, SendersReturn, OfferSettles |
| telemetry | 2 tracks, the second of which may share the source of the first, 2 endpoints, fair | GraphOK, WorkersMatchSenders, DestructCompletes |
| follow | 2 servers (one odd and possibly silent), 1 of them trusted, 1 inbox worker, 1 outbound worker, 2 register requests, 2 posts of 2 kinds, 1 kill, failing creates, fair | TablesOK, AcceptedOnWord, RegisterAnswered, InboxServed |
| video | 2 workers, 2 videos, 1 guest, 3 posts, 1 kill, 3 lobby rows, failing statements | StreamsOK, AccessIffVideo |
| media | 2 users, 2 requests at a time, 3 altogether, lifetime of a token 1 tick, 2 ticks | TokensOK, LastTokenWorks, OnlyOwnerPublishes |
| sender | 2 binds, 2 frames, each looper, 2 servers, 1 token, main stream or not, fair | WritersOK, StartLetIn, UnbindStops, BoundIsPlayed |
| lobby_stopped_in_use | 1 lobby object, 2 sessions, 2 requests, 1 watcher | InUseNotStopped, which the code violates |
| lobby_late_watcher | 1 lobby object, 3 sessions, 2 users, 3 requests, 2 watchers | RemovedByOwnLoss, which the code violates |

The bounds let every interesting event happen twice. Two lobby objects are needed for an old
and a new one, two watchers for both ICE events of one endpoint, three requests for a user
that returns while another stays. In hub one session publishes and one receives, since
receivers influence each other only through the order of `Iter`; one track lets every event
meet every other about it, and a list of several tracks that is applied in parts is covered by
the proofs, which are for any number. Two mutes make a command wait for more than one reader.
Two mute changes can overtake each other and two offers can be reordered. One
inbox worker makes a silent server hold the whole pool, and two requests let the outbound
pool be held as well; with two workers and two videos, activities of one video overlap and
those of different videos interfere through account, space and lobby rows, and a third post
deletes or updates what the first two made. Three requests, two at a time, are the shortest
way to present a token that another request replaces, and two ticks let a token expire while
the collector is between its passes. Two binds make a worker meet its predecessor. In
lobby_live one user suffices for an emptied lobby; EmptyLobbyIsRemoved is checked without
database errors and on a hosting instance, because with either the code keeps the lobby.

Fairness. `Lobby`: goroutines that can run do, and the one second timer of newSession fires;
users, ICE events, the end of a request's context and the remote login are not assumed.
`Session`: the running command, the hub and the goroutines of muteTrack make progress; every
wait of a command has a timeout but the one for the mutex, which it gets once the readers that
are inside have left, since an RWMutex lets no new one in while a writer waits. That a data
channel opens and that the statistics registry lets the hub go is not assumed, and
CommandReturns names both.
`Hub`: commands and fetching goroutines make progress; the hub has strong fairness because
a Go RWMutex lets waiting readers in when a writer unlocks, so repeated commands cannot
starve it. `Signalling`: sending, reading and negotiating goroutines run, the client's data
channel opens and its observer is registered; the server's channel may never open and
messages may be lost, and the properties say so. `Telemetry`: the hub's and the destructing
goroutines run. `Follow`: the process is started again and its goroutines run; servers may
fall silent for good. `Sender`: command, sender, callbacks and workers run; a write worker is
given strong fairness for stopping, because it comes to the select with its context again and
again and Go's select does not ignore a ready case for ever. `VideoAccess` and `Media` state
safety only.

### What the code does not do

`lobby_stopped_in_use` checks a sentence of a comment and TLC finds the code to differ: the
sequencer stops the lobby although `delete` refused because it is still in use (an instance
session counts for Len, not for LenUserSession). The stopped lobby stays in the repository
and every later request to it fails.

`lobby_late_watcher` shows what the sequencer, which is there "to avoid races conditions in
whole group state" (`lobby.go:74`), does not prevent: a connection that reports *disconnected*
and then *closed* starts two goroutines, each of which asks for the removal of the user, not
of the session. The second may be served after the user has come back, and then the new
session is removed although its connection stands.

The run sender shows when the documented use of the tool does not work. `docs/cli.md:12` sends
a main stream with `--url https://stream.shig.de/...`; the WHIP request goes to
`http://localhost:8080` all the same, and the start, which goes to `--url` with the cookie and
the token of the other server, is refused. StartLetIn states both outcomes.

## Proofs

Every theorem is about `Spec` of its module (`SessionSpec` in `Session`), for every value of
the constants that the named assumptions allow. The assumptions say that null values are no
members of the sets they are null values for, that bounds are natural numbers, and what is
listed below for a module. A module's `IInv` (`SessionInv` for `Session`) is its inductive
invariant; it was model-checked on the bounds of the module's run before it was proved. Each
action has its own lemma, and a last one combines them.

### Lobby and Rooms

`LobbyProofs` proves for every number of lobby objects, sessions, users, requests and
watchers, from `LobbyAssumption` only (the sets and the null values are distinct):
`LobbyCorrect` (with its parts `TypeCorrect`, `WorksOpenCorrect`, `RunningFlagCorrect`),
`OpenLobbyCorrect`, `OneLiveSessionCorrect` and `RendezvousCorrect` as invariants of `Spec`,
`InUseCorrect` as an action property.

The inductive invariant `IInv` joins these with what they need:

* `UnbornIsIdle`: nothing refers to a lobby object before it is created; otherwise creating
  one could meet old sessions or a busy sequencer.
* `CallerHolds`: a caller past the lookup holds a created lobby; with `Served` (whom a
  sequencer serves is a caller of that lobby in the matching state) it makes a rendezvous
  one-to-one.
* `SessionsBorn`, `UserUnique`: registered sessions belong to created lobbies, and within
  one registry a user occurs once. With OpenLobbyIsCurrent only one registry is live, which
  gives OneLiveSessionPerUser.
* `DeletingIsQuiet`: while the garbage loop holds the lock for a lobby, that lobby's
  sequencer waits for it, the lobby is the one found, and its registry is empty. This is why
  the check in `delete` cannot become stale: only the sequencer adds sessions, and it is the
  one that waits.

The last section proves `LobbiesImplementRooms`: `Spec` implies the specification `Rooms` under
the refinement mapping. It uses `IInv` and one more invariant, `FreshRuns`: a session object
that was not created yet was not stopped either, so that a session that joins is a member at
once. `newLobby` opens a room, `CreateInsert` lets somebody join or is invisible, the two
steps of a lost connection let at most one session leave (by `UserUnique`), and `DeleteCommit`
and `StopLobby` close the room; every other action leaves the six variables the mapping reads
unchanged (`OthersKeepSeen`).

### Session

The last section of `SenderProofs` is about `Session` (its specification is `SessionSpec`).
`SessionCorrect`, `MessengerCorrect` (EgressHasMessenger) and `ClosedOnceCorrect` hold for any
number of commands and mutes and any choice of signal channel kinds. `SessionCorrect` says
that no reader is inside while a command changes the endpoints. The command and the
callback of the data channel share no lock. What orders them is `ReadyBeforeEgress`: who is
past waitForSignalChannel found receivedMessenger closed, and the messenger is set before it
is closed. `EgressClosesNothing` follows: the channel of the egress endpoint opens after that
endpoint was answered, so its callback finds receivedMessenger closed. `IngressOnce` and
`EgressOnce` relate the fields of the session to the endpoints established; the egress field
is set one step later, which the state "assign" covers; a mute finds the egress field set,
hence (`SendsThrough`) a messenger.

### Hub

`SendersCorrect`, `NeverWaitsCorrect` and `InStepCorrect`, for any number of sessions and
tracks. Hub and fetching goroutine both check for a sender and then add one. `AddedOnce` keeps
them apart: while the hub adds a track no snapshot holds it, and a track that the hub has not
taken is nowhere; hence `PushIsFirst`, nobody adds the track between check and add.
`SendsOnlyCurrent` and `SendsAllCurrent` are the two halves of InStepButMissed for a hub that
is not at rest: the exceptions are the event the hub works on (`Pending`) and the fetched list
that is being applied. `Phases` says that nothing is sent before the endpoint was open and the
snapshot was taken.

### Media

`TokensCorrect`, `LastTokenCorrect` and `OwnerPublishesCorrect`, for any number of users and
of requests at one time. A token is compared in one step and replaced in a later one.
`TokensApart` says where a token can be (store, client, requests), that it was issued and
belongs to one user, and that a spent token is not stored. `StoreKeeps` is LastTokenWorks for
a client whose request is under way: the store already has the token the request will answer
with, or, when whip's header has left, would have answered with. `OneTokenPerRequest` bounds the tokens issued by the requests sent, counting those that
have yet to replace theirs. `Stages` keeps with each request what its earlier checks
established, among it that only the owner's request reaches the lobby with start or stop.

### Follow

`TablesCorrect` and `AcceptedOnWordCorrect`, for any servers, workers and finite set of
requests, and however often the process is killed. `FollowAssumption` asks for a finite set of
requests, since the rows of the table are counted, and `DocumentAssumption` (in `Inbox`) for
documents of the form the resolver reads. `OneHolder` (an activity waits once or is with one worker) and
`Checked` (who handles has verified, who saves has compared the target with the row, and the
row is still that one) carry AcceptedOnWord from the check to the statement. `Booting` says
the own actor is the first to be created, and that nothing else is stored while its turn
lasts: when its create fails unseen, the table is either still empty or never has it, which
is LocalActorFirst. `AccountsHaveActors` rests on the actor being read back, and `Own` on
the register handler asking for the own actor first. `OneRowPerRequest` says a row
exists before anything is sent, and that its target is the account the request was for.

### Signalling

`TitlesCorrect`, `LastMuteCorrect` and `AgreementCorrect`, for any number of mute changes,
offers and titles. `OneInFlight`: an offer or the answer to it is in one of six places at a
time, and (`CurrentInFlight`) in none while the connection is stable, so that neither loss nor
reordering can make a late answer settle another offer; this is by the place of the offer and
not by its number, which setOfferer may set back so that two offers have the same one. `Copies` and `OfferedTitles` follow
the title through parsing, the copies and writing it again; `LastChange` says that without
overlap only the last mute change is under way and which copies have it. `TitlesAssumption`
says what a publisher can send as a title: sequences of words, and in a title of three words
the first two, purpose and mute flag, are "1" or "2" as
buildSdpInformation writes them (parseSdpInformation takes any other word for a default, so
such a title would come back changed). (TLAPS knows
nothing about single strings; `Word` is where the assumption names the four the code
compares with.)

### Sender

`WritersCorrect` and `StartCorrect`, for any number of bindings, any length of the file and
any number of tokens. writeWorker reads and writes the field for the cancel function without a
lock. `OneToCancel`: a worker that plays, was not cancelled and did not race is the one the
field names, and as long as one is about to set the field, it names nobody of the kind.
`Granules` ties the last granule to the position, or calls it `Unknown`, so that the unsigned
difference does not wrap but where two workers were in NextSample together. `StartedInOrder` numbers workers by the bindings and callbacks that can still start one.
`Meeting` and `HoldsToken`: the command goes on after the answer only, when the goroutine has
written the session, and nobody replaces the token of the default server between; whether
the start is let in then depends on `--url` alone.

### Telemetry

`GraphCorrect` and `WorkersCorrect`, for any number of tracks. `FetchInv` says that a fetching
goroutine that met nobody in the map still has the right number when it writes it back;
`SeriesInv` gives every series the label of its node, from which OneSeriesPerNode follows;
`CountInv` counts tracks, with `TrackInv` for a track being added once. `WorkerInv` relates
the senders to the sources registered by the hub or by the fetching goroutine.

### VideoAccess

`StreamsCorrect` and `AccessCorrect` (AccessIffVideo) as invariants, and `SameLobbyCorrect` as
an action property, for any number of workers, videos, guests and kills. Only the null values
and the bounds are assumed: sets need not be finite. Nothing locks the tables, a video is
changed several steps before its stream, and UpsertLiveStream looks for the lobby in one
statement and inserts it in another. The invariant rests on who is on a video:

* `OneHolder`: an activity waits once or is with one worker. A worker that takes an activity
  of a video another worker is on disturbs that video; hence the first part of `Sound`: an
  undisturbed video has one worker at most.
* `Settled`: as long as that worker has not changed the video (`Before`), or when there is
  none, the video is stored exactly when it has a stream, and its guests have accounts. This
  gives AccessIffVideo and GuestsHaveAccounts.
* `Stage` follows the worker between: after Upsert the guests not yet accounts are the ones it
  holds (BuildGuestAccounts is next); while it gives access the video is stored; when it found
  no lobby there still is none at the insert; after the delete of the video it is gone.
* `OwnLobby` holds of disturbed videos too: a stream refers to a lobby row made for its own
  video. With at most one row for an undisturbed video (the last part of `Sound`) all its
  streams share it. The lemma `Smallest` says that the first row found is one of the rows, by
  the well-founded order of the numbers.

Two frame lemmas carry the videos nobody works on: `OnlyTouches(v)` and `OnlyMoves(w)` say
that a step is about one video and one worker, and every other video stays `Sound` (accounts
only grow, lobby rows are only appended). `FreedSound` and `SteppedSound` then leave for each
action the one video it is about. SameLobby was model-checked on the bounds of the run
`video`, without symmetry (8.7 million states), before it was proved.

### Only model-checked

* Liveness: RequestsAnswered, EmptyLobbyIsRemoved, LostSessionEnds, CommandReturns,
  HubReturns, FetchEnds, SendersReturn, OfferSettles, DestructCompletes, RegisterAnswered,
  InboxServed, UnbindStops and BoundIsPlayed. Fairness and ENABLED are out of the prover's
  reach.

Every safety property a passing run checks is a theorem.

## Not modelled

* Live stream sender and RTMP: nothing constructs them, newLobby passes a nil sender. `Hub`
  has both cases of a sender; in the hub newLobby builds a main track ends the process.
* Code without a caller: setLobbyLive, removeSession, Messenger.close, Memory.Delete and
  Reset, AccountRepository.Add, CreateStream, UpdateStream and Delete of the stream services,
  the bidirectional signal channel, offer egress, `static/media_file.go`,
  `sample/reader.go`; `host_controller.go` is commented out.
* The egress half of the connector: the ingress half panics before it.
* Handlers that only read (stream list, actors, outbox, webfinger) or answer from stubs.
* In the renegotiation: the error of SetLocalDescription, which the code drops, and the end of
  the session meanwhile. In the sender: what Start makes of the header it gets back, which no
  later request reads.
* Packet contents, ICE and pion, cryptography and JSON-LD, configuration, logging, tracing.

## Plan

An abstract specification of a video's life (announced, stored, open, deleted) that
`VideoAccess` implements while nothing is disturbed; `SameLobbyCorrect` is its first step.
