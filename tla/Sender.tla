------------------------------- MODULE Sender -------------------------------
(***************************************************************************)
(* The command line tool that sends a file into a lobby: it logs in, a      *)
(* goroutine runs the sender (tracks, connection, offer, WHIP request,      *)
(* answer), and the command waits for it and, for a main stream, starts the *)
(* live stream as soon as the connection is stable.  The HTTP clients give  *)
(* up after a second.  The context of the command is never cancelled, so a  *)
(* sender that got its answer runs until the process is killed.             *)
(*                                                                          *)
(* The command asks the server of --url to log in and to start the live     *)
(* stream; the WHIP client of the sender is built without that URL and asks *)
(* the default server, http://localhost:8080.                               *)
(***************************************************************************)
EXTENDS LocalTrack

CONSTANT Lobbies \* bound: request tokens the server may issue

ASSUME SenderAssumption == Lobbies \in Nat

VARIABLES
  isMainStream, \* the flag of the command
  mpc,      \* where the command stands
  rpc,      \* where StaticSender.Run stands
  waiting,  \* onEstablished callbacks blocked in their send
  url,      \* the server that --url names
  bearer,   \* the session of the client: the server that issued the JWT,
  cookie,   \* that set the cookie,
  csrf,     \* and the request token with the server it is from
  stored,   \* the request token each server keeps for the user
  started   \* what the server said to the start of the live stream

Server == {"localhost", "other"}
DefaultUrl == "localhost" \* of NewClient

NoToken == [server |-> "none", nth |-> 0]
Token(s, n) == [server |-> s, nth |-> n]

client == <<bearer, cookie, csrf>>
vars == <<trackVars, alive, isMainStream, url, mpc, rpc, waiting, client, stored, started>>

-----------------------------------------------------------------------------
(* The command. *)

\* LobbyApi.Login; without a token the command ends.
Login ==
  /\ alive
  /\ mpc = "login"
  /\ \/ /\ bearer' = url
        /\ mpc' = IF isMainStream THEN "await" ELSE "wait"
        /\ rpc' = "files"
        /\ UNCHANGED alive
     \/ /\ mpc' = "exit"
        /\ alive' = FALSE
        /\ UNCHANGED <<bearer, rpc>>
  /\ UNCHANGED <<trackVars, isMainStream, url, waiting, cookie, csrf, stored, started>>

\* runChn is closed.  In the second select a main stream is to be stopped: Stop
\* passes doRequest a nil body, whose Len panics; the process ends either way.
SenderEnded ==
  /\ alive
  /\ mpc \in {"await", "wait"}
  /\ rpc = "end"
  /\ mpc' = "exit"
  /\ alive' = FALSE
  /\ UNCHANGED <<trackVars, isMainStream, url, rpc, waiting, client, stored, started>>

\* The callback hands over its signal.
Established ==
  /\ alive
  /\ mpc = "await"
  /\ waiting > 0
  /\ waiting' = waiting - 1
  /\ mpc' = "start"
  /\ UNCHANGED <<trackVars, alive, isMainStream, url, rpc, client, stored, started>>

\* Start asks the server of --url: it compares the token with its own and replaces it.
\* No later request reads what doRequest makes of the header that comes back.
StartLiveStream ==
  /\ alive
  /\ mpc = "start"
  /\ mpc' = "wait"
  /\ started' = IF cookie = url /\ csrf = Token(url, stored[url]) THEN "let in" ELSE "refused"
  /\ stored' = IF started' = "let in" THEN [stored EXCEPT ![url] = @ + 1] ELSE stored
  /\ UNCHANGED <<trackVars, alive, isMainStream, url, rpc, waiting, client>>

-----------------------------------------------------------------------------
(* StaticSender.Run. *)

Fail == rpc' = "end" /\ UNCHANGED <<client, stored>>

\* NewLocalFileLooperTrack for both files, of which the model follows one: type
\* by extension and header.
OpenFiles ==
  /\ alive
  /\ rpc = "files"
  /\ \/ /\ rpc' = "establish"
        /\ NewLocalLooperH264Track \/ NewLocalLooperVP8Track \/ NewLocalLooperOpusTrack
        /\ UNCHANGED <<client, stored>>
     \/ Fail /\ UNCHANGED codec
  /\ UNCHANGED <<binding, writing, pos, lastGranule, due, mixed, alive, isMainStream, url, mpc, waiting, started>>

\* EstablishStaticIngressEndpoint and the local description.
EstablishStaticIngressEndpoint ==
  /\ alive
  /\ rpc = "establish"
  /\ \/ rpc' = (IF isMainStream THEN "mark" ELSE "whip") /\ UNCHANGED <<client, stored>>
     \/ Fail
  /\ UNCHANGED <<trackVars, alive, isMainStream, url, mpc, waiting, started>>

\* MarkStreamAsMain writes the purpose into the offer of a main stream, if it
\* can be parsed.
MarkStreamAsMain ==
  /\ alive
  /\ rpc = "mark"
  /\ (rpc' = "whip" /\ UNCHANGED <<client, stored>>) \/ Fail
  /\ UNCHANGED <<trackVars, alive, isMainStream, url, mpc, waiting, started>>

\* The WHIP client has no WithUrl.  Whether the default server takes the JWT of another
\* one is a matter of their secrets: both may happen.
WhipServer == DefaultUrl

\* The server issues a request token.
Issue == stored' = [stored EXCEPT ![WhipServer] = @ + 1]

\* Faulty variant: the request token of the answer is not kept.
GetAnswerNoToken ==
  /\ alive
  /\ rpc = "whip"
  /\ stored[WhipServer] < Lobbies
  /\ Issue
  /\ cookie' = WhipServer
  /\ rpc' = "answer"
  /\ UNCHANGED <<trackVars, alive, isMainStream, url, mpc, waiting, bearer, csrf, started>>

\* Whip.GetAnswer: the server set cookie and token and answers 201.
GetAnswer ==
  /\ alive
  /\ rpc = "whip"
  /\ stored[WhipServer] < Lobbies
  /\ Issue
  /\ cookie' = WhipServer
  /\ csrf' = Token(WhipServer, stored'[WhipServer])
  /\ rpc' = "answer"
  /\ UNCHANGED <<trackVars, alive, isMainStream, url, mpc, waiting, bearer, started>>

\* An error status with the cookie, or no answer in time: the server may
\* have issued its token, and opened the session, nevertheless.
GetAnswerFails ==
  /\ alive
  /\ rpc = "whip"
  /\ stored[WhipServer] < Lobbies
  /\ Issue \/ UNCHANGED stored
  /\ \/ cookie' = WhipServer /\ csrf' \in {NoToken, Token(WhipServer, stored'[WhipServer])}
     \/ UNCHANGED <<cookie, csrf>>
  /\ rpc' = "end"
  /\ UNCHANGED <<trackVars, alive, isMainStream, url, mpc, waiting, bearer, started>>

\* A response without a cookie: Cookies()[0] panics.
GetAnswerPanics ==
  /\ alive
  /\ rpc = "whip"
  /\ alive' = FALSE
  /\ UNCHANGED <<trackVars, isMainStream, url, mpc, rpc, waiting, client, stored, started>>

\* SetAnswer makes the signalling state stable: the callback is started.
SetAnswer ==
  /\ alive
  /\ rpc = "answer"
  /\ \/ rpc' = "running" /\ waiting' = waiting + 1
     \/ rpc' = "end" /\ UNCHANGED waiting
  /\ UNCHANGED <<trackVars, alive, isMainStream, url, mpc, client, stored, started>>

-----------------------------------------------------------------------------
\* The library binds the track once the connection is negotiated, and may
\* unbind it and bind it again.
Library ==
  /\ rpc = "running"
  /\ Bind \/ BindFails \/ Unbind

Play ==
  /\ alive
  /\ \/ (TrackStep \/ Library) /\ UNCHANGED alive
     \/ \E w \in Worker : NilReader(w)
  /\ UNCHANGED <<isMainStream, url, mpc, rpc, waiting, client, stored, started>>

Init ==
  /\ InitTrack
  /\ alive = TRUE
  /\ isMainStream \in BOOLEAN
  /\ mpc = "login"
  /\ rpc = "none"
  /\ waiting = 0
  /\ url \in Server
  /\ bearer = "none" /\ cookie = "none" /\ csrf = NoToken
  /\ stored = [s \in Server |-> 0]
  /\ started = "not"

Next ==
  \/ Login \/ SenderEnded \/ Established \/ StartLiveStream
  \/ OpenFiles \/ EstablishStaticIngressEndpoint \/ MarkStreamAsMain
  \/ GetAnswer \/ GetAnswerFails \/ GetAnswerPanics \/ SetAnswer
  \/ Play

\* A step of the track under the fairness below.
Playing(A) == alive /\ A /\ UNCHANGED <<alive, isMainStream, url, mpc, rpc, waiting, client, stored, started>>

\* Goroutines run; requests end, by their timeout at the latest; and a worker
\* is not always behind: it comes to the select that sees its context.
Spec ==
  /\ Init /\ [][Next]_vars
  /\ WF_vars(Login) /\ WF_vars(SenderEnded) /\ WF_vars(Established) /\ WF_vars(StartLiveStream)
  /\ WF_vars(OpenFiles) /\ WF_vars(EstablishStaticIngressEndpoint) /\ WF_vars(MarkStreamAsMain)
  /\ WF_vars(SetAnswer)
  /\ WF_vars(GetAnswer \/ GetAnswerFails \/ GetAnswerPanics)
  /\ WF_vars(Playing(BindStarts)) /\ WF_vars(Playing(StartWrite)) /\ WF_vars(Playing(UnbindCancels))
  /\ \A w \in Worker :
       /\ WF_vars(Playing(WriteWorker(w) \/ SetCancelWrite(w)))
       /\ WF_vars(Playing(NextTick(w) \/ WriteSample(w) \/ WriteFails(w)))
       /\ SF_vars(Playing(StopWriting(w)))

-----------------------------------------------------------------------------
(* Properties. *)

\* Types; the field for the cancel function names a worker that set it.
TypeOK ==
  /\ TrackTypeOK
  /\ alive \in BOOLEAN /\ isMainStream \in BOOLEAN
  /\ mpc \in {"login", "await", "start", "wait", "exit"}
  /\ rpc \in {"none", "files", "establish", "mark", "whip", "answer", "running", "end"}
  /\ waiting \in 0..1
  /\ url \in Server /\ bearer \in Server \cup {"none"} /\ cookie \in Server \cup {"none"}
  /\ csrf.server \in Server \cup {"none"} /\ csrf.nth \in 0..(Lobbies + 1)
  /\ \A s \in Server : stored[s] \in 0..(Lobbies + 1)

\* The live stream is started with the session the WHIP request opened, although another
\* goroutine wrote it: the server at http://localhost:8080 lets the request in.  Any other
\* server that --url names refuses it, since cookie and token are not its own.
StartLetIn == started # "not" => started = IF url = DefaultUrl THEN "let in" ELSE "refused"

\* A worker that takes and writes samples.
Plays == {"sample", "wait"}

\* However often the track is bound and unbound, at most one worker that has
\* not been told to stop plays the file; workers that started at the same
\* time, before one of them set the field for its cancel function, excepted.
OneWriter ==
  \A v, w \in Worker \ (cancelled \cup raced) :
    wpc[v] \in Plays /\ wpc[w] \in Plays => v = w

\* However often the file begins again, no sample keeps the worker waiting for
\* longer than a frame: the differences of positions in the file, which are
\* unsigned, do not wrap.  Only where a worker that was told to stop is still in
\* NextSample, which has no lock, when its successor calls it, a duration may be wrong,
\* and so may the next one.
InTime == due # Unknown => due <= 1

\* Track and command are well formed: types, one worker that plays, and in time.
WritersOK == TypeOK /\ OneWriter /\ InTime

\* When the track is unbound its workers stop, but those that were just
\* starting.
UnbindStops ==
  ~bound ~> (bound \/ ~alive \/ \A w \in Worker : wpc[w] \in Plays => w \in missed \cup raced)

\* A bound track is played, whichever of Bind and the callback is first.
BoundIsPlayed ==
  (bound /\ Frames > 0)
    ~> (~bound \/ ~alive \/ \E w \in Worker : wpc[w] \in Plays \cup {"failed"})
============================================================================
