----------------------------- MODULE VideoAccess -----------------------------
(***************************************************************************)
(* What the inbox does with Announce, Update and Delete of a video: the     *)
(* VideoService fetches the people, the hosting instance and the guests,    *)
(* stores the video, and has the LiveStreamService give access to it: the   *)
(* owner's account, the space of the channel, the lobby and the live        *)
(* stream.  Workers run concurrently and UpsertLiveStream takes no lock.    *)
(***************************************************************************)
EXTENDS Inbox

CONSTANTS
  Video,      \* videos, all of one owner and one channel
  Guest,      \* people invited to a stream
  Owner,      \* the owner of the channel
  MaxLobbies  \* bound: rows of the lobby table

ASSUME VideoAssumption == Owner \notin Guest /\ MaxLobbies \in Nat

VARIABLES
  videos,     \* videos[v]: the guests stored with v, or NotStored
  instances,  \* the hosting instance has its row
  accounts,   \* users with a row in the account table
  space,      \* the row of the channel exists
  lobbies,    \* the lobby table: lobbies[i] is the stream the lobby is for
  streams,    \* the rows of the live stream table
  local,      \* what each worker has put together so far
  disturbed   \* history: videos whose handling failed half way, was killed,
              \* or overlapped another activity of the same video

tables == <<videos, instances, accounts, space, lobbies, streams>>
vars == <<inboxVars, tables, local, disturbed>>

NotStored == {Owner} \* no set of guests
NoLocal == [people |-> FALSE, inst |-> FALSE, guests |-> {}, account |-> FALSE,
            space |-> FALSE, lobby |-> 0]

Of(w) == wjob[w].video
At(w, state) == up /\ wpc[w] = state
Busy(v) == {w \in Worker : wjob[w] # NoJob /\ Of(w) = v}
FreeId == CHOOSE i \in 1..(Cardinality(streams) + 1) : \A s \in streams : s.id # i
Rows(v) == {s \in streams : s.video = v}

\* A statement fails: the error is logged and what was done before it stays.
Abandon(w) ==
  /\ FreeWorker(w)
  /\ local' = [local EXCEPT ![w] = NoLocal]
  /\ disturbed' = disturbed \cup {Of(w)}

Done(w) ==
  /\ FreeWorker(w)
  /\ local' = [local EXCEPT ![w] = NoLocal]
  /\ UNCHANGED disturbed

\* A nil dereference in a worker: nobody recovers.
Panic ==
  /\ Die
  /\ UNCHANGED kills
  /\ local' = [w \in Worker |-> NoLocal]
  /\ disturbed' = disturbed \cup {v \in Video : Busy(v) # {}}

-----------------------------------------------------------------------------
(* AddVideo and UpsertVideo up to the database. *)

Post(type, v, active, guests) ==
  /\ \E s \in Server :
       AddToQueue([id |-> posted + 1, from |-> s, stated |-> "rsa-sha256",
                   used |-> "rsa-sha256", type |-> type, video |-> v,
                   active |-> active, guests |-> guests])
  /\ UNCHANGED <<tables, local, disturbed>>

Take(w) ==
  /\ TakeJob(w)
  /\ LET v == wjob'[w].video
     IN  disturbed' = IF Busy(v) # {} THEN disturbed \cup {v} ELSE disturbed
  /\ UNCHANGED <<tables, local>>

Check(w) == VerifyJob(w) /\ UNCHANGED <<tables, local, disturbed>>

HandleAnnounceRequest(w) == At(w, "handle") /\ Resolve(wjob[w], {"Announce"})
HandleUpdateRequest(w)   == At(w, "handle") /\ Resolve(wjob[w], {"Update"})
HandleDeleteRequest(w)   == At(w, "handle") /\ Resolve(wjob[w], {"Delete"})

\* The errors of createActor are dropped: the owner or the channel stays nil.
AddOwnerAndChannel == BOOLEAN

GetInstanceByActorIri == instances

\* The instance is found, or fetched and stored; it stays nil when saving it
\* fails or no URL is given.
AddInstance == BOOLEAN

\* Whom addGuest cannot fetch is left out.
AddGuest(guests) == SUBSET guests

\* Without the object of the plugin the stream is not active.
ExtractVideoUnknownProperties(p) ==
  [active |-> p.active, guests |-> IF p.active THEN p.guests ELSE {}]

ParseCommonUnknownProps(p) ==
  LET props == ExtractVideoUnknownProperties(p)
  IN  [inst   : IF props.active THEN AddInstance ELSE {FALSE},
       guests : AddGuest(props.guests)]

\* AddVideo and UpsertVideo: people, instance and guests are put together.
BuildVideo(w) ==
  /\ HandleAnnounceRequest(w) \/ HandleUpdateRequest(w)
  /\ \E people \in AddOwnerAndChannel, got \in ParseCommonUnknownProps(wjob[w]) :
       /\ local' = [local EXCEPT ![w] = [NoLocal EXCEPT !.people = people, !.inst = got.inst,
                                                        !.guests = got.guests]]
       /\ instances' = (instances \/ got.inst)
  /\ StepWorker(w, "save")
  /\ UNCHANGED <<videos, accounts, space, lobbies, streams, disturbed>>

\* A document cannot be fetched or lacks a property: nothing is stored.
BuildVideoFails(w) ==
  /\ HandleAnnounceRequest(w) \/ HandleUpdateRequest(w)
  /\ Done(w)
  /\ UNCHANGED tables

\* addInstance uses shigInstance although it was neither found nor fetched.
AddInstancePanics(w) ==
  /\ HandleAnnounceRequest(w) \/ HandleUpdateRequest(w)
  /\ wjob[w].active /\ ~GetInstanceByActorIri
  /\ Panic
  /\ UNCHANGED tables

\* VideoRepository.Upsert: guests are added to the ones stored before.
Upsert(v, guests) ==
  [videos EXCEPT ![v] = guests \cup IF @ = NotStored THEN {} ELSE @]
DeleteByIri(v)  == [videos EXCEPT ![v] = NotStored]
DeleteByUuid(v) == streams \ Rows(v)

SaveVideo(w) ==
  /\ At(w, "save")
  /\ \/ /\ videos' = Upsert(Of(w), local[w].guests)
        /\ StepWorker(w, "access")
        /\ UNCHANGED <<local, disturbed>>
     \/ Abandon(w) /\ UNCHANGED videos
  /\ UNCHANGED <<instances, accounts, space, lobbies, streams>>

-----------------------------------------------------------------------------
(* LiveStreamService and LiveStreamRepository. *)

Contains(v) == Cardinality(Rows(v)) = 1

\* BuildGuestAccounts drops the errors of its inserts.
BuildGuestAccounts(w) ==
  \E missing \in SUBSET local[w].guests :
    /\ accounts' = accounts \cup (local[w].guests \ missing)
    /\ disturbed' = IF missing \subseteq accounts THEN disturbed ELSE disturbed \cup {Of(w)}

\* UpdateStreamAccessByVideo of a video with exactly one stream.
UpdateStreamAccess(w) ==
  /\ At(w, "access")
  /\ wjob[w].type = "Update"
  /\ Contains(Of(w))
  /\ BuildGuestAccounts(w)
  /\ FreeWorker(w)
  /\ local' = [local EXCEPT ![w] = NoLocal]
  /\ UNCHANGED <<videos, instances, space, lobbies, streams>>

\* CreateStreamAccessByVideo up to the database lookups.
CreateStreamAccess(w) ==
  /\ At(w, "access")
  /\ wjob[w].type = "Update" => ~Contains(Of(w))
  /\ local[w].people /\ local[w].inst
  /\ BuildGuestAccounts(w)
  /\ StepWorker(w, "account")
  /\ UNCHANGED <<videos, instances, space, lobbies, streams, local>>

\* Without owner, channel or instance the same code dereferences nil.
CreateStreamAccessPanics(w) ==
  /\ At(w, "access")
  /\ wjob[w].type = "Update" => ~Contains(Of(w))
  /\ ~(local[w].people /\ local[w].inst)
  /\ Panic
  /\ accounts' = IF local[w].people THEN accounts \cup local[w].guests ELSE accounts
  /\ UNCHANGED <<videos, instances, space, lobbies, streams>>

\* UpsertLiveStream: three lookups, one after the other.
Lookup(w, state, next, found) ==
  /\ At(w, state)
  /\ \/ StepWorker(w, next) /\ local' = [local EXCEPT ![w] = found] /\ UNCHANGED disturbed
     \/ Abandon(w)
  /\ UNCHANGED tables

FindAccount(w) == Lookup(w, "account", "space", [local[w] EXCEPT !.account = Owner \in accounts])
FindSpace(w) == Lookup(w, "space", "lobby", [local[w] EXCEPT !.space = space])

\* Faulty variant: the lobby of an earlier row is not looked for.
NoLobbyLookup(w) == Lookup(w, "lobby", "create", local[w])

FindLobby(w) ==
  LET found == {i \in DOMAIN lobbies : lobbies[i] = Of(w)}
      first == IF found = {} THEN 0 ELSE CHOOSE i \in found : \A j \in found : i <= j
  IN  Lookup(w, "lobby", "create", [local[w] EXCEPT !.lobby = first])

\* The row is created with what it refers to: what was not found is inserted,
\* a conflict is ignored and leaves the reference at 0.  The video is
\* inserted again when it was deleted meanwhile.
CreateStream(w) ==
  LET v == Of(w)
      lobby == IF local[w].lobby = 0 THEN Len(lobbies) + 1 ELSE local[w].lobby
      row == [video |-> v, lobby |-> lobby, id |-> FreeId,
              account |-> local[w].account \/ Owner \notin accounts,
              space |-> local[w].space \/ ~space]
  IN  /\ At(w, "create")
      /\ local[w].lobby = 0 => Len(lobbies) < MaxLobbies
      /\ \/ /\ streams' = streams \cup {row}
            /\ lobbies' = IF local[w].lobby = 0 THEN Append(lobbies, v) ELSE lobbies
            /\ accounts' = accounts \cup {Owner}
            /\ space' = TRUE
            /\ videos' = [videos EXCEPT ![v] = IF @ = NotStored THEN local[w].guests ELSE @]
            /\ UNCHANGED instances
            /\ Done(w)
         \/ Abandon(w) /\ UNCHANGED tables

-----------------------------------------------------------------------------
(* DeleteVideo. *)

DeleteVideo(w) ==
  /\ HandleDeleteRequest(w)
  /\ \/ /\ videos' = DeleteByIri(Of(w))
        /\ StepWorker(w, "revoke")
        /\ UNCHANGED <<local, disturbed>>
     \/ Abandon(w) /\ UNCHANGED videos
  /\ UNCHANGED <<instances, accounts, space, lobbies, streams>>

\* Faulty variant: only one row is deleted.
DeleteOneStream(w) ==
  /\ At(w, "revoke")
  /\ \/ /\ \E gone \in {{}} \cup {{s} : s \in Rows(Of(w))} :
             /\ gone = {} => Rows(Of(w)) = {}
             /\ streams' = streams \ gone
        /\ Done(w)
     \/ Abandon(w) /\ UNCHANGED streams
  /\ UNCHANGED <<videos, instances, accounts, space, lobbies>>

\* DeleteStreamAccessByVideo removes every row of the stream; the lobby, the
\* space and the accounts stay.
DeleteStreamAccess(w) ==
  /\ At(w, "revoke")
  /\ \/ streams' = DeleteByUuid(Of(w)) /\ Done(w)
     \/ Abandon(w) /\ UNCHANGED streams
  /\ UNCHANGED <<videos, instances, accounts, space, lobbies>>

-----------------------------------------------------------------------------
Kill ==
  /\ Killed
  /\ local' = [w \in Worker |-> NoLocal]
  /\ disturbed' = disturbed \cup {v \in Video : Busy(v) # {}}
  /\ UNCHANGED tables

Restart ==
  /\ ~up
  /\ up' = TRUE
  /\ UNCHANGED <<kills, silent, posted, poolVars, tables, local, disturbed>>

Init ==
  /\ InitInbox
  /\ up = TRUE
  /\ videos = [v \in Video |-> NotStored]
  /\ instances = FALSE
  /\ accounts = {}
  /\ space = FALSE
  /\ lobbies = <<>>
  /\ streams = {}
  /\ local = [w \in Worker |-> NoLocal]
  /\ disturbed = {}

\* An activity that invites fewer guests is one some of whose guests are left out.
Next ==
  \/ Kill \/ Restart
  \/ \E v \in Video :
       \/ \E type \in {"Announce", "Update"} :
            Post(type, v, TRUE, Guest) \/ Post(type, v, FALSE, {})
       \/ Post("Delete", v, FALSE, {})
  \/ \E w \in Worker :
       \/ Take(w) \/ Check(w) \/ BuildVideo(w) \/ BuildVideoFails(w) \/ AddInstancePanics(w)
       \/ SaveVideo(w) \/ UpdateStreamAccess(w) \/ CreateStreamAccess(w)
       \/ CreateStreamAccessPanics(w) \/ FindAccount(w) \/ FindSpace(w) \/ FindLobby(w)
       \/ CreateStream(w) \/ DeleteVideo(w) \/ DeleteStreamAccess(w)

Spec == Init /\ [][Next]_vars

-----------------------------------------------------------------------------
\* Type invariant.
TypeOK ==
  /\ InboxTypeOK
  /\ \A v \in Video : videos[v] = NotStored \/ videos[v] \subseteq Guest
  /\ accounts \subseteq Guest \cup {Owner}
  /\ lobbies \in Seq(Video)
  /\ \A s \in streams : s.video \in Video /\ s.lobby \in DOMAIN lobbies
  /\ disturbed \subseteq Video

\* A video is stored exactly when there is a live stream to join for it, once
\* nobody works on it and nothing of its handling failed, was killed or
\* overlapped; other videos may be handled at the same time, in any order.
AccessIffVideo ==
  \A v \in Video \ disturbed :
    Busy(v) = {} => (videos[v] # NotStored <=> Rows(v) # {})

\* However often a video is announced or updated, its streams share one lobby
\* (UpsertLiveStream looks for the lobby before it creates one).
OneLobbyPerStream ==
  \A s, t \in streams : s.video = t.video /\ s.video \notin disturbed => s.lobby = t.lobby

\* The guests stored with a video can log in: BuildGuestAccounts ran for them,
\* on an announce and on an update of a stream that exists already.
GuestsHaveAccounts ==
  \A v \in Video \ disturbed :
    Busy(v) = {} /\ videos[v] # NotStored => videos[v] \subseteq accounts

\* Streams, lobbies and accounts are well formed: types, one lobby for a stream, and an
\* account for every guest.
StreamsOK == TypeOK /\ OneLobbyPerStream /\ GuestsHaveAccounts
=============================================================================
