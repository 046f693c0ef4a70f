------------------------------- MODULE Lobby -------------------------------
(***************************************************************************)
(* The lobby life cycle of the SFU: LobbyManager and its garbage loop, the  *)
(* lobbyRepository entry of one lobby id, the lobby objects created for     *)
(* that id with their session sequencers, the session registry, and the     *)
(* goroutines that call into a sequencer (HTTP requests, the connector of a *)
(* federated lobby, and Session.onLostConnection).                          *)
(*                                                                          *)
(* Every channel of lobby.go is unbuffered, so a send is a joint step of    *)
(* sender and sequencer: one side is parked in its select when the other    *)
(* arrives.  A goroutine with a ready case never parks, and closing a       *)
(* context wakes the goroutines parked on it, so two goroutines whose       *)
(* contexts are both done never meet.  A sender whose own context is done   *)
(* may still meet a parked sequencer: its select has two ready cases.       *)
(***************************************************************************)
EXTENDS Naturals, FiniteSets

CONSTANTS
  Lobby,      \* lobby objects that may be created for the one lobby id (bound)
  Session,    \* session objects that may be created (bound)
  User,       \* users of the lobby
  Request,    \* calls of NewIngressResource / NewEgressResource (bound)
  Watcher,    \* goroutines started by onLostConnection (bound)
  Instance,   \* the user id under which this instance joins a remote host
  NoLobby,    \* no lobby object
  NoSession,  \* no session object
  Nobody,     \* nobody is served by a sequencer
  IsHost,     \* IsThisInstanceLiveSteamHost: FALSE starts the connector
  DbMayFail   \* saving or loading a LobbyEntity may return an error

Caller == Request \cup Lobby \* a lobby's connector goroutine is named by its lobby
Member == User \cup {Instance}

ASSUME LobbyAssumption ==
  /\ NoLobby \notin Lobby
  /\ NoSession \notin Session
  /\ Instance \notin User
  /\ Request \cap Lobby = {}
  /\ Watcher \cap Caller = {}
  /\ Nobody \notin Caller \cup Watcher
  /\ IsHost \in BOOLEAN
  /\ DbMayFail \in BOOLEAN

VARIABLES
  lobbies,    \* lobbyRepository.lobbies[id]
  isRunning,  \* LobbyEntity.IsRunning as stored
  ctx,        \* lobby.ctx of each lobby object
  seq,        \* where each session sequencer stands
  serving,    \* the goroutine whose item or command the sequencer holds
  deleting,   \* the lobby whose item the garbage loop deletes, locker held
  registry,   \* the sessions held by the SessionRepository of their lobby
  slobby,     \* the lobby object a session was created in
  suser,      \* Session.user
  stopped,    \* Session.stop was called
  ingress,    \* Session.ingress # nil
  pc,         \* where each caller stands
  held,       \* the lobby object a caller works with
  who,        \* the user a caller acts for
  kind,       \* the command a caller runs
  wpc,        \* where each onLostConnection goroutine stands
  wsess,      \* its session
  panicked    \* a goroutine panicked: the process is gone

lobbyVars   == <<lobbies, isRunning, ctx, deleting>>
seqVars     == <<seq, serving>>
sessionVars == <<registry, slobby, suser, stopped, ingress>>
callVars    == <<pc, held, who, kind>>
watchVars   == <<wpc, wsess>>
vars == <<lobbyVars, seqVars, sessionVars, callVars, watchVars, panicked>>

\* The process is up and stays up.
Running == ~panicked /\ UNCHANGED panicked

SeqState  == {"off", "select", "create", "insert", "reply", "announce",
              "stop", "cmd", "exec", "answer", "returned"}
CallState == {"idle", "join", "joining", "build", "run", "running", "ok", "failed"}
Kind      == {"ingress", "egress", "offer"}

-----------------------------------------------------------------------------
(* The session registry of one lobby object. *)

Registered(l) == {s \in registry : slobby[s] = l}

FindByUserId(l, u) == {s \in Registered(l) : suser[s] = u}

UserSessions(l) == {s \in Registered(l) : suser[s] # Instance}

\* Session.ctx is a child of lobby.ctx.
SessionDone(s) == stopped[s] \/ ctx[slobby[s]] = "done"

-----------------------------------------------------------------------------
(* Callers: getOrCreateLobby, newSession, runCommand. *)

AfterLookup(k) == IF k = "ingress" THEN "join" ELSE "run"

\* newLobby starts the sequencer and, on an instance that does not host the
\* stream, the connector goroutine, which begins with newSession.
NewLobby(c, u, k, l) ==
  /\ ctx[l] = "unborn"
  /\ lobbies' = l
  /\ isRunning' = TRUE
  /\ ctx' = [ctx EXCEPT ![l] = "open"]
  /\ seq' = [seq EXCEPT ![l] = "select"]
  /\ pc' = [pc EXCEPT ![c] = AfterLookup(k), ![l] = IF IsHost THEN "idle" ELSE "join"]
  /\ held' = [held EXCEPT ![c] = l, ![l] = l]
  /\ who' = [who EXCEPT ![c] = u, ![l] = Instance]
  /\ kind' = [kind EXCEPT ![c] = k, ![l] = "offer"]
  /\ UNCHANGED <<serving, deleting, sessionVars, watchVars>>
  /\ Running

GetOrCreateLobby(c, u, k) ==
  /\ pc[c] = "idle"
  /\ deleting = NoLobby \* the repository lock is free
  /\ \/ /\ lobbies # NoLobby
        /\ pc' = [pc EXCEPT ![c] = AfterLookup(k)]
        /\ held' = [held EXCEPT ![c] = lobbies]
        /\ who' = [who EXCEPT ![c] = u]
        /\ kind' = [kind EXCEPT ![c] = k]
        /\ UNCHANGED <<lobbyVars, seqVars, sessionVars, watchVars>>
        /\ Running
     \/ /\ lobbies = NoLobby
        /\ \E l \in Lobby : NewLobby(c, u, k, l)
     \/ /\ lobbies = NoLobby
        /\ DbMayFail
        /\ pc' = [pc EXCEPT ![c] = "failed"]
        /\ UNCHANGED <<lobbyVars, seqVars, sessionVars, held, who, kind, watchVars>>
        /\ Running

\* A caller leaves a select of newSession or runCommand with an error.
GiveUp(c) ==
  /\ pc' = [pc EXCEPT ![c] = "failed"]
  /\ UNCHANGED <<lobbyVars, seqVars, sessionVars, held, who, kind, watchVars>>
  /\ Running

\* Faulty variant: buffered channels take an item although the context is done.
ReceptiveBuffered(l) == seq[l] = "select"

\* A sequencer is at its select and can still meet a sender: the context the
\* senders watch is lobby.ctx or a child of it.
Receptive(l) == seq[l] = "select" /\ ctx[l] = "open"

\* A caller's item or command is taken by the sequencer of its lobby.
HandOver(c, waiting, work) ==
  /\ Receptive(held[c])
  /\ pc' = [pc EXCEPT ![c] = waiting]
  /\ seq' = [seq EXCEPT ![held[c]] = work]
  /\ serving' = [serving EXCEPT ![held[c]] = c]
  /\ UNCHANGED <<lobbyVars, sessionVars, held, who, kind, watchVars>>
  /\ Running

\* Faulty variants: a timeout that also covers <-item.Done; a runCommand without the case
\* of the closed lobby.
JoinTimeoutLate(c) == pc[c] \in {"join", "joining"} /\ GiveUp(c)
RunClosedMissing(c) == pc[c] = "unreachable" /\ GiveUp(c)

JoinSend(c)    == pc[c] = "join" /\ HandOver(c, "joining", "create")
JoinClosed(c)  == pc[c] = "join" /\ ctx[held[c]] = "done" /\ GiveUp(c)
JoinTimeout(c) == pc[c] = "join" /\ GiveUp(c)

\* ApiClient.Login: the host instance has one second to hand out a token.
Login == {"run", "failed"}

\* Connector.BuildIngress: log in to the host instance, then build the command.
BuildIngress(c) ==
  /\ pc[c] = "build"
  /\ \E next \in Login : pc' = [pc EXCEPT ![c] = next]
  /\ UNCHANGED <<lobbyVars, seqVars, sessionVars, held, who, kind, watchVars>>
  /\ Running

RunSend(c)    == pc[c] = "run" /\ HandOver(c, "running", "cmd")
RunClosed(c)  == pc[c] = "run" /\ ctx[held[c]] = "done" /\ GiveUp(c)
\* The request's own context ends while its command is still being run.
RunTimeout(c) == pc[c] = "running" /\ c \in Request /\ GiveUp(c)

-----------------------------------------------------------------------------
(* The sequencer of lobby object l. *)

\* item.Done <- ok on a creator item; the caller waits for nothing else.
AnswerJoin(l, ok) ==
  LET c == serving[l] IN
  /\ pc' = [pc EXCEPT ![c] = IF ~ok THEN "failed"
                             ELSE IF c \in Lobby THEN "build" ELSE "run"]
  /\ seq' = [seq EXCEPT ![l] = "select"]
  /\ serving' = [serving EXCEPT ![l] = Nobody]

CreateCheck(l) ==
  /\ seq[l] = "create"
  /\ IF ctx[l] = "done"
     THEN AnswerJoin(l, FALSE)
     ELSE seq' = [seq EXCEPT ![l] = "insert"] /\ UNCHANGED <<pc, serving>>
  /\ UNCHANGED <<lobbyVars, sessionVars, held, who, kind, watchVars>>
  /\ Running

\* Faulty variant: the session is added without looking for one of the same user.
CreateInsertUnchecked(l) ==
  LET u == who[serving[l]] IN
  /\ seq[l] = "insert"
  /\ \E s \in Session :
       /\ slobby[s] = NoLobby
       /\ slobby' = [slobby EXCEPT ![s] = l]
       /\ suser' = [suser EXCEPT ![s] = u]
       /\ registry' = registry \cup {s}
  /\ AnswerJoin(l, TRUE)
  /\ UNCHANGED <<stopped, ingress, lobbyVars, held, who, kind, watchVars>>
  /\ Running

\* NewSession and SessionRepository.New.
CreateInsert(l) ==
  LET u == who[serving[l]] IN
  /\ seq[l] = "insert"
  /\ \/ /\ FindByUserId(l, u) # {}
        /\ AnswerJoin(l, FALSE)
        /\ UNCHANGED sessionVars
     \/ /\ FindByUserId(l, u) = {}
        /\ \E s \in Session :
             /\ slobby[s] = NoLobby
             /\ slobby' = [slobby EXCEPT ![s] = l]
             /\ suser' = [suser EXCEPT ![s] = u]
             /\ registry' = registry \cup {s}
        /\ AnswerJoin(l, TRUE)
        /\ UNCHANGED <<stopped, ingress>>
  /\ UNCHANGED <<lobbyVars, held, who, kind, watchVars>>
  /\ Running

\* The command's done channel is closed; the caller may have left already.
FinishCmd(l, result) ==
  LET c == serving[l] IN
  /\ pc' = IF pc[c] = "running" THEN [pc EXCEPT ![c] = result] ELSE pc
  /\ seq' = [seq EXCEPT ![l] = "select"]
  /\ serving' = [serving EXCEPT ![l] = Nobody]

CmdCheck(l) ==
  /\ seq[l] = "cmd"
  /\ IF ctx[l] = "done"
     THEN FinishCmd(l, "failed")
     ELSE seq' = [seq EXCEPT ![l] = "exec"] /\ UNCHANGED <<pc, serving>>
  /\ UNCHANGED <<lobbyVars, sessionVars, held, who, kind, watchVars>>
  /\ Running

\* Session.CreateIngressEndpoint up to s.ingress = endpoint.
CreateIngress(l, s) ==
  \/ /\ FinishCmd(l, "failed") \* closed, already there, or the engine failed
     /\ UNCHANGED <<ingress, panicked>>
  \/ /\ ~SessionDone(s)
     /\ ~ingress[s]
     /\ ingress' = [ingress EXCEPT ![s] = TRUE]
     /\ seq' = [seq EXCEPT ![l] = "answer"]
     /\ UNCHANGED <<pc, serving>>
     /\ Running

\* Session.CreateEgressEndpoint of a session whose ingress was created with the
\* silent signal channel: the messenger it waits for is never set up.
CreateEgress(l) == FinishCmd(l, "failed") /\ UNCHANGED <<ingress, panicked>>

\* Session.OfferIngressEndpoint: Engine.OfferEndpoint returns (nil, nil), the
\* nil endpoint is dereferenced in the sequencer goroutine.
OfferIngress(l, s) ==
  \/ /\ SessionDone(s) \/ ingress[s]
     /\ FinishCmd(l, "failed")
     /\ UNCHANGED <<ingress, panicked>>
  \/ /\ ~SessionDone(s)
     /\ ~ingress[s]
     /\ panicked' = TRUE
     /\ UNCHANGED <<pc, seqVars, ingress>>

\* lobby.handle and the command's Execute.
CmdExec(l) ==
  LET c == serving[l]
      found == FindByUserId(l, who[c])
  IN
  /\ seq[l] = "exec"
  /\ ~panicked
  /\ \/ /\ found = {}
        /\ FinishCmd(l, "failed")
        /\ UNCHANGED <<ingress, panicked>>
     \/ \E s \in found :
          \/ kind[c] = "ingress" /\ CreateIngress(l, s)
          \/ kind[c] = "egress" /\ CreateEgress(l)
          \/ kind[c] = "offer" /\ OfferIngress(l, s)
  /\ UNCHANGED <<lobbyVars, registry, slobby, suser, stopped, held, who, kind, watchVars>>

\* GetLocalDescription returns the answer, or is interrupted.
CmdAnswer(l) ==
  /\ seq[l] = "answer"
  /\ \E result \in {"ok", "failed"} : FinishCmd(l, result)
  /\ UNCHANGED <<lobbyVars, sessionVars, held, who, kind, watchVars>>
  /\ Running

\* item.Done <- ok on a garbage item, then the check for the last user.
GarbageReply(l) ==
  /\ seq[l] = "reply"
  /\ wpc[serving[l]] = "wait"
  /\ wpc' = [wpc EXCEPT ![serving[l]] = "done"]
  /\ seq' = [seq EXCEPT ![l] = IF UserSessions(l) = {} THEN "announce" ELSE "select"]
  /\ serving' = [serving EXCEPT ![l] = Nobody]
  /\ UNCHANGED <<lobbyVars, sessionVars, callVars, wsess>>
  /\ Running

\* l.stop() after the garbage loop has answered, whatever it answered.
StopLobby(l) ==
  /\ seq[l] = "stop"
  /\ ctx' = [ctx EXCEPT ![l] = "done"]
  /\ seq' = [seq EXCEPT ![l] = "select"]
  /\ UNCHANGED <<lobbies, isRunning, deleting, serving, sessionVars, callVars, watchVars>>
  /\ Running

SequencerReturn(l) ==
  /\ seq[l] = "select"
  /\ ctx[l] = "done"
  /\ seq' = [seq EXCEPT ![l] = "returned"]
  /\ UNCHANGED <<lobbyVars, serving, sessionVars, callVars, watchVars>>
  /\ Running

-----------------------------------------------------------------------------
(* The garbage loop of the LobbyManager: lobbyRepository.delete.            *)
(* The item carries the lobby id, not the lobby object.                     *)

\* Faulty variant: no check of sessions.Len().
DeleteCheckNoLen(l) ==
  /\ seq[l] = "announce"
  /\ deleting = NoLobby /\ lobbies # NoLobby
  /\ deleting' = l
  /\ UNCHANGED <<lobbies, isRunning, ctx, seqVars, sessionVars, callVars, watchVars>>
  /\ Running

\* Lock, look the id up, and check that the lobby found has no session.
DeleteCheck(l) ==
  /\ seq[l] = "announce"
  /\ deleting = NoLobby
  /\ \/ /\ lobbies = NoLobby \/ Registered(lobbies) # {}
        /\ seq' = [seq EXCEPT ![l] = "stop"]
        /\ UNCHANGED deleting
     \/ /\ lobbies # NoLobby /\ Registered(lobbies) = {}
        /\ deleting' = l
        /\ UNCHANGED seq
  /\ UNCHANGED <<lobbies, isRunning, ctx, serving, sessionVars, callVars, watchVars>>
  /\ Running

\* Faulty variants: the lobby is removed and not stopped; it is stopped and not removed.
DeleteFound(l, saved, found, context) ==
  /\ deleting = l
  /\ isRunning' = saved
  /\ lobbies' = found
  /\ ctx' = [ctx EXCEPT ![lobbies] = context]
  /\ deleting' = NoLobby
  /\ seq' = [seq EXCEPT ![l] = "stop"]
  /\ UNCHANGED <<serving, sessionVars, callVars, watchVars>>
  /\ Running

DeleteCommitRunsOn(l) == DeleteFound(l, FALSE, NoLobby, "open")
DeleteCommitKeeps(l)  == DeleteFound(l, FALSE, lobbies, "done")

\* Save the entity, remove and stop the lobby found, unlock and answer.
DeleteCommit(l) ==
  /\ deleting = l
  /\ \/ /\ isRunning' = FALSE
        /\ lobbies' = NoLobby
        /\ ctx' = [ctx EXCEPT ![lobbies] = "done"]
     \/ /\ DbMayFail
        /\ UNCHANGED <<isRunning, lobbies, ctx>>
  /\ deleting' = NoLobby
  /\ seq' = [seq EXCEPT ![l] = "stop"]
  /\ UNCHANGED <<serving, sessionVars, callVars, watchVars>>
  /\ Running

-----------------------------------------------------------------------------
(* Session.onLostConnection: an endpoint's ICE connection was disconnected  *)
(* or closed.  One endpoint may report both.                                *)

LostConnection(w, s) ==
  /\ wpc[w] = "idle"
  /\ ingress[s]
  /\ wpc' = [wpc EXCEPT ![w] = "check"]
  /\ wsess' = [wsess EXCEPT ![w] = s]
  /\ UNCHANGED <<lobbyVars, seqVars, sessionVars, callVars>>
  /\ Running

WatchCheck(w) ==
  /\ wpc[w] = "check"
  /\ wpc' = [wpc EXCEPT ![w] = IF SessionDone(wsess[w]) THEN "done" ELSE "send"]
  /\ UNCHANGED <<lobbyVars, seqVars, sessionVars, callVars, wsess>>
  /\ Running

\* The sequencer takes the garbage item and runs DeleteByUser.
WatchSend(w) ==
  LET l == slobby[wsess[w]] IN
  /\ wpc[w] = "send"
  /\ Receptive(l)
  /\ seq' = [seq EXCEPT ![l] = "reply"]
  /\ serving' = [serving EXCEPT ![l] = w]
  /\ registry' = registry \ FindByUserId(l, suser[wsess[w]])
  /\ wpc' = [wpc EXCEPT ![w] = "stop"]
  /\ UNCHANGED <<lobbyVars, slobby, suser, stopped, ingress, callVars, wsess>>
  /\ Running

\* Faulty variant: a default case instead of the closed session, which gives up when
\* the sequencer is busy.
WatchClosedDefault(w) ==
  /\ wpc[w] = "send"
  /\ wpc' = [wpc EXCEPT ![w] = "done"]
  /\ UNCHANGED <<lobbyVars, seqVars, sessionVars, callVars, wsess>>
  /\ Running

WatchClosed(w) ==
  /\ wpc[w] = "send"
  /\ SessionDone(wsess[w])
  /\ wpc' = [wpc EXCEPT ![w] = "done"]
  /\ UNCHANGED <<lobbyVars, seqVars, sessionVars, callVars, wsess>>
  /\ Running

\* session.stop(), before <-item.Done.
WatchStop(w) ==
  /\ wpc[w] = "stop"
  /\ stopped' = [stopped EXCEPT ![wsess[w]] = TRUE]
  /\ wpc' = [wpc EXCEPT ![w] = "wait"]
  /\ UNCHANGED <<lobbyVars, seqVars, registry, slobby, suser, ingress, callVars, wsess>>
  /\ Running

-----------------------------------------------------------------------------
Init ==
  /\ lobbies = NoLobby
  /\ isRunning = FALSE
  /\ ctx = [l \in Lobby |-> "unborn"]
  /\ seq = [l \in Lobby |-> "off"]
  /\ serving = [l \in Lobby |-> Nobody]
  /\ deleting = NoLobby
  /\ registry = {}
  /\ slobby = [s \in Session |-> NoLobby]
  /\ suser = [s \in Session |-> Instance]
  /\ stopped = [s \in Session |-> FALSE]
  /\ ingress = [s \in Session |-> FALSE]
  /\ pc = [c \in Caller |-> "idle"]
  /\ held = [c \in Caller |-> NoLobby]
  /\ who = [c \in Caller |-> Instance]
  /\ kind = [c \in Caller |-> "offer"]
  /\ wpc = [w \in Watcher |-> "idle"]
  /\ wsess = [w \in Watcher |-> NoSession]
  /\ panicked = FALSE

Start(c) == \E u \in User, k \in {"ingress", "egress"} : GetOrCreateLobby(c, u, k)

CallerStep(c) ==
  \/ JoinSend(c) \/ JoinClosed(c) \/ JoinTimeout(c)
  \/ BuildIngress(c)
  \/ RunSend(c) \/ RunClosed(c) \/ RunTimeout(c)

SequencerStep(l) ==
  \/ CreateCheck(l) \/ CreateInsert(l)
  \/ CmdCheck(l) \/ CmdExec(l) \/ CmdAnswer(l)
  \/ GarbageReply(l) \/ StopLobby(l) \/ SequencerReturn(l)

DeleteStep(l) == DeleteCheck(l) \/ DeleteCommit(l)

WatcherStep(w) == WatchCheck(w) \/ WatchSend(w) \/ WatchClosed(w) \/ WatchStop(w)

Next ==
  \/ \E c \in Request : Start(c)
  \/ \E c \in Caller : CallerStep(c)
  \/ \E l \in Lobby : SequencerStep(l) \/ DeleteStep(l)
  \/ \E w \in Watcher, s \in Session : LostConnection(w, s)
  \/ \E w \in Watcher : WatcherStep(w)

Spec == Init /\ [][Next]_vars

\* Fairness: goroutines that can run do run and the one second timer of newSession
\* fires.  Users, ICE events, the end of a request's context and the remote login
\* are the environment's and are not assumed fair.
ProgressOf(c) == JoinSend(c) \/ JoinClosed(c) \/ JoinTimeout(c) \/ RunSend(c) \/ RunClosed(c)

Fairness ==
  /\ \A c \in Caller : WF_vars(ProgressOf(c))
  /\ \A l \in Lobby : WF_vars(SequencerStep(l)) /\ WF_vars(DeleteStep(l))
  /\ \A w \in Watcher : WF_vars(WatcherStep(w))

FairSpec == Spec /\ Fairness

-----------------------------------------------------------------------------
(* Properties. *)

\* Every variable has its type (lobby, session and goroutine state).
TypeOK ==
  /\ lobbies \in Lobby \cup {NoLobby}
  /\ isRunning \in BOOLEAN
  /\ ctx \in [Lobby -> {"unborn", "open", "done"}]
  /\ seq \in [Lobby -> SeqState]
  /\ serving \in [Lobby -> Caller \cup Watcher \cup {Nobody}]
  /\ deleting \in Lobby \cup {NoLobby}
  /\ registry \in SUBSET Session
  /\ slobby \in [Session -> Lobby \cup {NoLobby}]
  /\ suser \in [Session -> Member]
  /\ stopped \in [Session -> BOOLEAN]
  /\ ingress \in [Session -> BOOLEAN]
  /\ pc \in [Caller -> CallState]
  /\ held \in [Caller -> Lobby \cup {NoLobby}]
  /\ who \in [Caller -> Member]
  /\ kind \in [Caller -> Kind]
  /\ wpc \in [Watcher -> {"idle", "check", "send", "stop", "wait", "done"}]
  /\ wsess \in [Watcher -> Session \cup {NoSession}]
  /\ panicked \in BOOLEAN

\* A lobby object whose context is open is the one the repository hands out: at no
\* time do two lobby objects of one id accept sessions (lobbyRepository.delete
\* removes and stops under one lock).
OpenLobbyIsCurrent == \A l \in Lobby : ctx[l] = "open" => lobbies = l

\* A user has at most one registered session that is still running, over all the
\* lobby objects the id ever had (SessionRepository.New and lobbyRepository.delete).
OneLiveSessionPerUser ==
  \A s, t \in registry :
    suser[s] = suser[t] /\ ~SessionDone(s) /\ ~SessionDone(t) => s = t

\* Nobody waits on an unbuffered Done channel that nobody will write, and a
\* sequencer never answers a goroutine that does not wait for it.
RendezvousMatched ==
  /\ \A c \in Caller :
       /\ pc[c] = "joining" => serving[held[c]] = c /\ seq[held[c]] \in {"create", "insert"}
       /\ pc[c] = "running" => serving[held[c]] = c /\ seq[held[c]] \in {"cmd", "exec", "answer"}
  /\ \A w \in Watcher :
       wpc[w] \in {"stop", "wait"} =>
         serving[slobby[wsess[w]]] = w /\ seq[slobby[wsess[w]]] = "reply"
  /\ \A l \in Lobby :
       /\ seq[l] \in {"create", "insert"} => pc[serving[l]] = "joining"
       /\ seq[l] = "reply" => wpc[serving[l]] \in {"stop", "wait"}

\* A sequencer works on an item or a command only while its lobby is open: the
\* re-checks "in the meantime the lobby could be closed" of lobby.go never fire, and
\* nothing taken from a channel outlives the lobby.
WorksOnlyWhileOpen ==
  \A l \in Lobby :
    seq[l] \in {"create", "insert", "cmd", "exec", "answer", "reply", "announce"} => ctx[l] = "open"

\* The stored flag LobbyEntity.IsRunning says whether the repository holds a lobby,
\* also after a failed save (getOrCreateLobby, delete).
RunningFlagMatches == isRunning <=> lobbies # NoLobby

\* The state of manager, repository and sequencers is well formed: types, work only on
\* open lobbies, and a stored flag that tells the truth.
LobbyOK == TypeOK /\ WorksOnlyWhileOpen /\ RunningFlagMatches

\* A lobby taken out of the repository holds no session at that moment, although
\* sessions.Len() was read before the entity was saved (lobbyRepository.delete).
InUseNotDeleted ==
  [][\A l \in Lobby : lobbies = l /\ lobbies' # l => Registered(l) = {}]_vars

\* Every request that reached a lobby is answered, while lobbies come and go
\* (newSession, runCommand; needs a sequencer that never blocks for good).
RequestsAnswered ==
  \A c \in Request : pc[c] \in {"join", "joining", "run", "running"} ~> pc[c] \in {"ok", "failed"}

\* A lobby whose last user left is taken out of the repository, so that the next
\* request gets a fresh one (sessionGarbage case, lobbyRepository.delete).
EmptyLobbyIsRemoved == \A l \in Lobby : seq[l] = "announce" ~> lobbies # l

\* The session of a lost connection is eventually stopped (onLostConnection).
LostSessionEnds ==
  \A w \in Watcher, s \in Session :
    wpc[w] = "send" /\ wsess[w] = s ~> slobby[s] # NoLobby /\ SessionDone(s)

-----------------------------------------------------------------------------
(* What the lobbies of one id are for: Rooms, with its state read off here. *)

OpenLobby    == IF lobbies # NoLobby /\ ctx[lobbies] = "open" THEN lobbies ELSE NoLobby
BornLobbies  == {l \in Lobby : ctx[l] # "unborn"}
LiveSessions == {s \in registry : ~SessionDone(s)}
BornSessions == {s \in Session : slobby[s] # NoLobby}

R == INSTANCE Rooms WITH
       Room <- Lobby, NoRoom <- NoLobby, Session <- Session, Person <- Member,
       room <- OpenLobby, opened <- BornLobbies, members <- LiveSessions,
       born <- BornSessions, user <- suser

\* The lobby objects of an id, their sequencers, the repository and the garbage loop
\* together behave like one room after the other: every step of them opens a room,
\* closes it, lets somebody join or leave, or changes nothing anyone can see.
LobbiesAreRooms == R!Spec

-----------------------------------------------------------------------------
(* What comments of the code say and the code does not do. *)

\* lobby_repository.go: "If the lobby still in use then we can not delete": a lobby
\* that the repository keeps because it is in use goes on running.
InUseNotStopped ==
  [][\A l \in Lobby : lobbies = l /\ lobbies' = l /\ Registered(l) # {} => ctx'[l] = ctx[l]]_vars

\* lobby.go: "session handling should be sequentiell to avoid races conditions in whole
\* group state": a session leaves the registry only with a connection of its own.  One
\* connection starts two watchers (disconnected, then closed), the garbage item names
\* the user, and DeleteByUser takes whatever session the user has by then.
RemovedByOwnLoss ==
  [][\A s \in registry \ registry' :
       \E w \in Watcher : wpc[w] = "send" /\ wpc'[w] = "stop" /\ wsess[w] = s]_vars
=============================================================================
