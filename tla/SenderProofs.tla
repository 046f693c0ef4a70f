----------------------------- MODULE SenderProofs -----------------------------
(***************************************************************************)
(* Proofs about the command line sender and the track it plays, for any     *)
(* number of bindings, any length of the file and any number of request     *)
(* tokens.                                                                  *)
(*                                                                          *)
(* writeWorker reads and writes the field for the cancel function without   *)
(* a lock.  What holds nevertheless: as long as a worker has cancelled its  *)
(* predecessor but not set the field, the field names nobody who may play.  *)
(***************************************************************************)
EXTENDS Sender, Session, TLAPS

-----------------------------------------------------------------------------
(* The track. *)

TrackTypes ==
  /\ binds \in 0..MaxBinds /\ callbacks \in 0..MaxBinds
  /\ bound \in BOOLEAN /\ provider \in BOOLEAN /\ found \in BOOLEAN
  /\ bpc \in {"idle", "bind", "unbind"}
  /\ taken \in {0} \cup Worker
  /\ wpc \in [Worker -> {"none", "new", "set", "sample", "wait", "failed", "done"}]
  /\ cancelWrite \in {0} \cup {w \in Worker : wpc[w] \notin {"none", "new", "set"}}
  /\ codec \in {"none", "h264", "vp8", "opus"}

Binding == IF bpc = "bind" THEN 1 ELSE 0

\* Every callback belongs to a binding.
CallbackOfBind == callbacks + Binding <= binds

\* Workers are started one after the other: one for each binding that found the
\* sampler, and one by the callback that brings it.
StartedInOrder ==
  \E n \in 0..(MaxBinds + 1) :
    /\ \A w \in Worker : wpc[w] # "none" <=> w <= n
    /\ n + Binding + (IF provider THEN 0 ELSE 1) <= binds + 1

Active(w) == wpc[w] \in Plays

\* A worker that plays, was not told to stop and did not race another one is the one the
\* field names; while a worker is about to set the field, it names nobody of the kind.
OneToCancel ==
  /\ \A w \in Worker \ (cancelled \cup raced) : Active(w) => w = cancelWrite
  /\ \A w \in Worker : wpc[w] = "set" => cancelWrite \in {0} \cup cancelled \cup raced
  /\ \A v, w \in Worker : wpc[v] = "set" /\ wpc[w] = "set" /\ v # w => v \in raced /\ w \in raced

\* The Opus looper has seen the granule of the page it delivered last, unless workers
\* took samples together; a history of that is kept of workers in NextSample only.
Granules ==
  /\ pos \in 0..Frames /\ lastGranule \in {Unknown} \cup 0..Frames
  /\ due \in {Unknown} \cup 0..1
  /\ codec = "opus" => lastGranule \in {Unknown, IF pos = 0 THEN 0 ELSE pos - 1}

MixedInside == \A w \in mixed : w \in Worker /\ wpc[w] = "sample"

\* Nothing is bound or played before the answer was applied.
Untouched ==
  rpc # "running" =>
    /\ bpc = "idle" /\ callbacks = 0 /\ pos = 0 /\ lastGranule = 0 /\ mixed = {}
    /\ \A w \in Worker : wpc[w] = "none"

TrackInv == TrackTypes /\ CallbackOfBind /\ StartedInOrder /\ OneToCancel /\ Granules /\ MixedInside /\ Untouched

-----------------------------------------------------------------------------
(* The command. *)

CommandTypes ==
  /\ alive \in BOOLEAN /\ isMainStream \in BOOLEAN
  /\ mpc \in {"login", "await", "start", "wait", "exit"}
  /\ rpc \in {"none", "files", "establish", "mark", "whip", "answer", "running", "end"}
  /\ waiting \in 0..1
  /\ url \in Server /\ bearer \in Server \cup {"none"} /\ cookie \in Server \cup {"none"}
  /\ csrf.server \in Server \cup {"none"} /\ csrf.nth \in 0..(Lobbies + 1)
  /\ stored \in [Server -> 0..(Lobbies + 1)]

\* The goroutine and the command meet at the callback: the live stream is started after
\* the answer, and the sender has nothing left to do.
Meeting ==
  /\ mpc = "login" => rpc = "none"
  /\ waiting > 0 \/ mpc = "start" \/ started # "not" => rpc = "running"
  /\ mpc \in {"login", "await", "start"} => started = "not"

\* From the answer to the start of the live stream the client has the cookie and the token
\* of the server that WHIP requests go to.
HoldsToken ==
  started = "not" =>
    /\ stored[DefaultUrl] <= Lobbies
    /\ rpc \in {"answer", "running"} =>
         cookie = DefaultUrl /\ csrf = Token(DefaultUrl, stored[DefaultUrl])

CommandInv == CommandTypes /\ Meeting /\ HoldsToken /\ StartLetIn

\* The inductive invariant.
IInv == TrackInv /\ CommandInv

-----------------------------------------------------------------------------
USE LocalTrackAssumption, SenderAssumption DEF binding, history, writing, sampler, trackVars, client

(* What a step leaves alone. *)

LEMMA TrackKept ==
  ASSUME TrackInv, UNCHANGED trackVars, rpc' = "running" \/ rpc # "running"
  PROVE  TrackInv'
  <1>1. TrackTypes' /\ CallbackOfBind' /\ Granules'
    BY DEF TrackInv, TrackTypes, CallbackOfBind, Binding, Granules
  <1>2. StartedInOrder'
    BY DEF TrackInv, StartedInOrder, Binding
  <1>3. OneToCancel' /\ MixedInside' /\ Untouched'
    BY DEF TrackInv, OneToCancel, Active, MixedInside, Untouched
  <1> QED BY <1>1, <1>2, <1>3 DEF TrackInv

LEMMA CommandKept ==
  ASSUME CommandInv, UNCHANGED <<isMainStream, url, mpc, rpc, waiting, client, stored, started>>,
         alive' \in BOOLEAN
  PROVE  CommandInv'
  BY DEF CommandInv, CommandTypes, Meeting, HoldsToken, StartLetIn

-----------------------------------------------------------------------------
(* The command. *)

LEMMA LoginStep ==
  ASSUME IInv, Login
  PROVE  IInv'
  <1>1. mpc = "login" /\ rpc = "none" /\ started = "not" /\ waiting = 0
    BY DEF IInv, CommandInv, CommandTypes, Meeting, Login
  <1>2. TrackInv'
    BY <1>1, TrackKept DEF IInv, Login
  <1>3. CommandTypes'
    <2>1. alive' \in BOOLEAN
      BY DEF IInv, CommandInv, CommandTypes, Login
    <2> QED BY <1>1, <2>1 DEF IInv, CommandInv, CommandTypes, Login
  <1>4. Meeting' /\ HoldsToken' /\ StartLetIn'
    BY <1>1 DEF IInv, CommandInv, Meeting, HoldsToken, StartLetIn, Login
  <1> QED BY <1>2, <1>3, <1>4 DEF IInv, CommandInv

LEMMA SenderEndedStep ==
  ASSUME IInv, SenderEnded
  PROVE  IInv'
  <1>1. TrackInv'
    BY TrackKept DEF IInv, SenderEnded
  <1>2. CommandTypes' /\ Meeting' /\ HoldsToken' /\ StartLetIn'
    BY DEF IInv, CommandInv, CommandTypes, Meeting, HoldsToken, StartLetIn, SenderEnded
  <1> QED BY <1>1, <1>2 DEF IInv, CommandInv

LEMMA EstablishedStep ==
  ASSUME IInv, Established
  PROVE  IInv'
  <1>1. TrackInv'
    BY TrackKept DEF IInv, Established
  <1>2. waiting = 1 /\ waiting' = 0 /\ rpc = "running" /\ started = "not"
    BY DEF IInv, CommandInv, CommandTypes, Meeting, Established
  <1>3. CommandTypes' /\ Meeting' /\ HoldsToken' /\ StartLetIn'
    BY <1>2 DEF IInv, CommandInv, CommandTypes, Meeting, HoldsToken, StartLetIn, Established
  <1> QED BY <1>1, <1>3 DEF IInv, CommandInv

\* Cookie and token are those of the default server: it lets the request in, and only it.
LEMMA StartLiveStreamStep ==
  ASSUME IInv, StartLiveStream
  PROVE  IInv'
  <1>1. TrackInv'
    BY TrackKept DEF IInv, StartLiveStream
  <1>2. /\ mpc = "start" /\ rpc = "running" /\ started = "not" /\ url \in Server
        /\ stored \in [Server -> 0..(Lobbies + 1)] /\ stored[DefaultUrl] <= Lobbies
        /\ cookie = DefaultUrl /\ csrf = Token(DefaultUrl, stored[DefaultUrl])
    <2>1. mpc = "start" /\ rpc = "running" /\ started = "not"
      BY DEF IInv, CommandInv, Meeting, StartLiveStream
    <2> QED BY <2>1 DEF IInv, CommandInv, CommandTypes, HoldsToken
  <1>3. /\ mpc' = "wait" /\ started' = (IF url = DefaultUrl THEN "let in" ELSE "refused")
        /\ UNCHANGED <<alive, isMainStream, url, rpc, waiting, client>>
    <2>1. started' = IF url = DefaultUrl THEN "let in" ELSE "refused"
      BY <1>2 DEF StartLiveStream
    <2> QED BY <2>1 DEF StartLiveStream
  <1>4. stored' \in [Server -> 0..(Lobbies + 1)]
    <2>1. CASE url = DefaultUrl
      <3>1. stored' = [stored EXCEPT ![url] = stored[url] + 1]
        BY <1>3, <2>1 DEF StartLiveStream
      <3>2. stored[url] + 1 \in 0..(Lobbies + 1)
        BY <1>2, <2>1
      <3> QED BY <1>2, <3>1, <3>2
    <2>2. CASE url # DefaultUrl
      BY <1>2, <1>3, <2>2 DEF StartLiveStream
    <2> QED BY <2>1, <2>2
  <1>5. CommandTypes'
    BY <1>3, <1>4 DEF IInv, CommandInv, CommandTypes
  <1>6. Meeting' /\ HoldsToken' /\ StartLetIn'
    BY <1>2, <1>3 DEF Meeting, HoldsToken, StartLetIn
  <1> QED BY <1>1, <1>5, <1>6 DEF IInv, CommandInv

-----------------------------------------------------------------------------
(* StaticSender.Run. *)

LEMMA OpenFilesStep ==
  ASSUME IInv, OpenFiles
  PROVE  IInv'
  <1>1. /\ rpc = "files" /\ rpc' \in {"establish", "end"} /\ codec' \in {codec, "h264", "vp8", "opus"}
        /\ UNCHANGED <<binding, writing, pos, lastGranule, due, mixed, alive, isMainStream, url, mpc,
                       waiting, started, client, stored>>
    BY DEF OpenFiles, Fail, NewLocalLooperH264Track, NewLocalLooperVP8Track, NewLocalLooperOpusTrack
  <1>2. TrackInv'
    <2>1. TrackTypes' /\ CallbackOfBind' /\ StartedInOrder'
      BY <1>1 DEF IInv, TrackInv, TrackTypes, CallbackOfBind, StartedInOrder, Binding
    <2>2. OneToCancel' /\ MixedInside' /\ Untouched'
      BY <1>1 DEF IInv, TrackInv, OneToCancel, Active, MixedInside, Untouched
    <2>3. Granules'
      BY <1>1 DEF IInv, TrackInv, Untouched, Granules
    <2> QED BY <2>1, <2>2, <2>3 DEF TrackInv
  <1>3. CommandTypes' /\ Meeting' /\ HoldsToken' /\ StartLetIn'
    BY <1>1 DEF IInv, CommandInv, CommandTypes, Meeting, HoldsToken, StartLetIn
  <1> QED BY <1>2, <1>3 DEF IInv, CommandInv

LEMMA PrepareStep ==
  ASSUME IInv, EstablishStaticIngressEndpoint \/ MarkStreamAsMain
  PROVE  IInv'
  <1>1. /\ rpc \in {"establish", "mark"} /\ rpc' \in {"mark", "whip", "end"}
        /\ UNCHANGED <<trackVars, alive, isMainStream, url, mpc, waiting, started, client, stored>>
    BY DEF EstablishStaticIngressEndpoint, MarkStreamAsMain, Fail
  <1>2. TrackInv'
    BY <1>1, TrackKept DEF IInv
  <1>3. CommandTypes' /\ Meeting' /\ HoldsToken' /\ StartLetIn'
    BY <1>1 DEF IInv, CommandInv, CommandTypes, Meeting, HoldsToken, StartLetIn
  <1> QED BY <1>2, <1>3 DEF IInv, CommandInv

\* The default server issues a token.
LEMMA IssueStep ==
  ASSUME IInv, Issue, stored[WhipServer] < Lobbies
  PROVE  /\ stored' \in [Server -> 0..(Lobbies + 1)]
         /\ stored'[DefaultUrl] \in 1..Lobbies
  <1>1. stored \in [Server -> 0..(Lobbies + 1)] /\ DefaultUrl \in Server /\ WhipServer = DefaultUrl
    BY DEF IInv, CommandInv, CommandTypes, DefaultUrl, Server, WhipServer
  <1>2. stored[DefaultUrl] + 1 \in 1..Lobbies
    <2>1. PICK n \in 0..(Lobbies + 1) : n = stored[DefaultUrl]
      BY <1>1
    <2> QED BY <1>1, <2>1
  <1>3. stored' = [stored EXCEPT ![DefaultUrl] = stored[DefaultUrl] + 1]
    BY <1>1 DEF Issue
  <1>4. stored'[DefaultUrl] = stored[DefaultUrl] + 1
    BY <1>1, <1>3
  <1>5. stored[DefaultUrl] + 1 \in 0..(Lobbies + 1)
    BY <1>2
  <1> QED BY <1>1, <1>2, <1>3, <1>4, <1>5

\* A WHIP request and what it may end in.
LEMMA GetAnswerStep ==
  ASSUME IInv, GetAnswer \/ GetAnswerFails \/ GetAnswerPanics
  PROVE  IInv'
  <1>1. rpc = "whip" /\ started = "not" /\ waiting = 0 /\ stored[DefaultUrl] <= Lobbies
    <2>1. rpc = "whip"
      BY DEF GetAnswer, GetAnswerFails, GetAnswerPanics
    <2>2. started = "not" /\ ~(waiting > 0)
      BY <2>1 DEF IInv, CommandInv, Meeting
    <2>3. waiting = 0
      BY <2>2 DEF IInv, CommandInv, CommandTypes
    <2> QED BY <2>1, <2>2, <2>3 DEF IInv, CommandInv, HoldsToken
  <1>2. UNCHANGED <<trackVars, isMainStream, url, mpc, waiting, bearer, started>>
    BY DEF GetAnswer, GetAnswerFails, GetAnswerPanics
  <1>3. TrackInv'
    BY <1>1, <1>2, TrackKept DEF IInv
  <1>4. StartLetIn'
    BY <1>1, <1>2 DEF StartLetIn
  <1>5. \A n \in 0..Lobbies : Token(WhipServer, n).server \in Server /\ Token(WhipServer, n).nth \in 0..(Lobbies + 1)
    BY DEF Token, WhipServer, DefaultUrl, Server
  <1>6. CASE GetAnswer
    <2>1. /\ Issue /\ stored[WhipServer] < Lobbies /\ cookie' = DefaultUrl
          /\ csrf' = Token(DefaultUrl, stored'[DefaultUrl]) /\ rpc' = "answer" /\ UNCHANGED alive
      BY <1>6 DEF GetAnswer, WhipServer
    <2>2. stored' \in [Server -> 0..(Lobbies + 1)] /\ stored'[DefaultUrl] \in 1..Lobbies
      BY <2>1, IssueStep
    <2>3. csrf'.server \in Server /\ csrf'.nth \in 0..(Lobbies + 1) /\ cookie' \in Server
      BY <1>5, <2>1, <2>2 DEF WhipServer, DefaultUrl, Server
    <2>4. CommandTypes'
      BY <1>2, <2>1, <2>2, <2>3 DEF IInv, CommandInv, CommandTypes
    <2>5. Meeting' /\ HoldsToken'
      BY <1>1, <1>2, <2>1, <2>2 DEF IInv, CommandInv, Meeting, HoldsToken
    <2> QED BY <1>3, <1>4, <2>4, <2>5 DEF IInv, CommandInv
  <1>7. CASE GetAnswerFails
    <2>1. /\ Issue \/ stored' = stored
          /\ stored[WhipServer] < Lobbies /\ rpc' = "end" /\ UNCHANGED alive
          /\ \/ cookie' = WhipServer /\ csrf' \in {NoToken, Token(WhipServer, stored'[WhipServer])}
             \/ UNCHANGED <<cookie, csrf>>
      BY <1>7 DEF GetAnswerFails
    <2>2. stored' \in [Server -> 0..(Lobbies + 1)] /\ stored'[DefaultUrl] \in 0..Lobbies
      <3>1. CASE Issue
        BY <2>1, <3>1, IssueStep
      <3>2. CASE stored' = stored
        BY <1>1, <3>2 DEF IInv, CommandInv, CommandTypes, DefaultUrl, Server
      <3> QED BY <2>1, <3>1, <3>2
    <2>3. /\ csrf'.server \in Server \cup {"none"} /\ csrf'.nth \in 0..(Lobbies + 1)
          /\ cookie' \in Server \cup {"none"}
      <3>1. CASE UNCHANGED <<cookie, csrf>>
        BY <3>1 DEF IInv, CommandInv, CommandTypes
      <3>2. CASE cookie' = WhipServer /\ csrf' = NoToken
        BY <3>2 DEF NoToken, WhipServer, DefaultUrl, Server
      <3>3. CASE cookie' = WhipServer /\ csrf' = Token(WhipServer, stored'[WhipServer])
        BY <1>5, <2>2, <3>3 DEF WhipServer, DefaultUrl, Server
      <3> QED BY <2>1, <3>1, <3>2, <3>3
    <2>4. CommandTypes'
      BY <1>2, <2>1, <2>2, <2>3 DEF IInv, CommandInv, CommandTypes
    <2>5. Meeting' /\ HoldsToken'
      BY <1>1, <1>2, <2>1, <2>2 DEF IInv, CommandInv, Meeting, HoldsToken
    <2> QED BY <1>3, <1>4, <2>4, <2>5 DEF IInv, CommandInv
  <1>8. CASE GetAnswerPanics
    <2>1. CommandInv'
      BY <1>8, CommandKept DEF GetAnswerPanics, IInv
    <2> QED BY <1>3, <2>1 DEF IInv
  <1> QED BY <1>6, <1>7, <1>8

LEMMA SetAnswerStep ==
  ASSUME IInv, SetAnswer
  PROVE  IInv'
  <1>1. /\ rpc = "answer" /\ waiting = 0 /\ started = "not"
        /\ \/ rpc' = "running" /\ waiting' = 1
           \/ rpc' = "end" /\ waiting' = 0
        /\ UNCHANGED <<trackVars, alive, isMainStream, url, mpc, client, stored, started>>
    <2>1. rpc = "answer"
      BY DEF SetAnswer
    <2>2. started = "not" /\ ~(waiting > 0)
      BY <2>1 DEF IInv, CommandInv, Meeting
    <2>3. waiting = 0
      BY <2>2 DEF IInv, CommandInv, CommandTypes
    <2> QED BY <2>1, <2>2, <2>3 DEF SetAnswer
  <1>2. TrackInv'
    BY <1>1, TrackKept DEF IInv
  <1>3. CommandTypes' /\ Meeting' /\ HoldsToken' /\ StartLetIn'
    BY <1>1 DEF IInv, CommandInv, CommandTypes, Meeting, HoldsToken, StartLetIn
  <1> QED BY <1>2, <1>3 DEF IInv, CommandInv

-----------------------------------------------------------------------------
(* Binding. *)

LEMMA WorkerType == Worker \subseteq Nat \ {0} /\ 1..(MaxBinds + 1) = Worker
  BY DEF Worker

\* Bind, BindFails, Unbind and UnbindCancels leave the workers alone.
LEMMA BindingStep ==
  ASSUME IInv, rpc = "running", UNCHANGED rpc, Bind \/ BindFails \/ Unbind \/ UnbindCancels
  PROVE  TrackInv'
  <1>1. UNCHANGED <<provider, callbacks, cancelWrite, wpc, raced, sampler>>
    BY DEF Bind, BindFails, Unbind, UnbindCancels
  <1>2. cancelled \subseteq cancelled'
    BY DEF Bind, BindFails, Unbind, UnbindCancels
  <1>3. binds \in Nat /\ binds' \in 0..MaxBinds /\ (binds' = binds + 1 \/ (binds' = binds /\ Binding' <= Binding))
    BY DEF Bind, BindFails, Unbind, UnbindCancels, Binding, IInv, TrackInv, TrackTypes
  <1>4. TrackTypes'
    <2>1. bound' \in BOOLEAN /\ found' \in BOOLEAN
      BY DEF Bind, BindFails, Unbind, UnbindCancels, IInv, TrackInv, TrackTypes
    <2>2. bpc' \in {"idle", "bind", "unbind"}
      BY DEF Bind, BindFails, Unbind, UnbindCancels, IInv, TrackInv, TrackTypes
    <2>3. taken' \in {0} \cup Worker
      BY DEF Bind, BindFails, Unbind, UnbindCancels, IInv, TrackInv, TrackTypes
    <2> QED BY <1>1, <1>3, <2>1, <2>2, <2>3 DEF IInv, TrackInv, TrackTypes
  <1>5. Binding \in Nat /\ Binding' \in Nat /\ callbacks \in Nat
    BY DEF Binding, IInv, TrackInv, TrackTypes
  <1>6. CallbackOfBind'
    <2>1. callbacks + Binding <= binds
      BY DEF IInv, TrackInv, CallbackOfBind
    <2>2. callbacks + Binding' <= binds'
      BY <1>3, <1>5, <2>1 DEF Binding
    <2> QED BY <1>1, <2>2 DEF CallbackOfBind
  <1>7. StartedInOrder'
    <2>1. PICK n \in 0..(MaxBinds + 1) :
            /\ \A w \in Worker : wpc[w] # "none" <=> w <= n
            /\ n + Binding + (IF provider THEN 0 ELSE 1) <= binds + 1
      BY DEF IInv, TrackInv, StartedInOrder
    <2>2. n + Binding' + (IF provider' THEN 0 ELSE 1) <= binds' + 1
      <3>1. PICK k \in 0..1 : k = (IF provider THEN 0 ELSE 1) /\ k = (IF provider' THEN 0 ELSE 1)
        BY <1>1
      <3>2. n + Binding + k <= binds + 1
        BY <2>1, <3>1
      <3>3. n + Binding' + k <= binds' + 1
        <4> PICK b \in 0..1 : b = Binding'
          BY DEF Binding
        <4> PICK c \in 0..MaxBinds : c = binds'
          BY <1>3
        <4>1. c = binds + 1 \/ (c = binds /\ b <= Binding)
          BY <1>3
        <4>2. n \in Nat /\ binds \in Nat /\ Binding \in Nat
          BY <1>3, <1>5
        <4>3. n + b + k <= c + 1
          BY ONLY <3>2, <4>1, <4>2, MaxBinds \in Nat, b \in 0..1, c \in 0..MaxBinds, k \in 0..1
        <4> QED BY <4>3
      <3> QED BY <3>1, <3>3
    <2> QED BY <1>1, <2>1, <2>2 DEF StartedInOrder
  <1>8. OneToCancel'
    BY <1>1, <1>2 DEF IInv, TrackInv, OneToCancel, Active
  <1>9. Granules' /\ MixedInside' /\ Untouched'
    BY <1>1 DEF IInv, TrackInv, Granules, MixedInside, Untouched
  <1> QED BY <1>4, <1>6, <1>7, <1>8, <1>9 DEF TrackInv

\* A worker is started: the first one that was not.
LEMMA SpawnStep ==
  ASSUME IInv, NEW n \in 0..MaxBinds, \A w \in Worker : wpc[w] # "none" <=> w <= n
  PROVE  /\ n + 1 \in Worker
         /\ Spawn = [wpc EXCEPT ![n + 1] = "new"]
  <1>1. n + 1 \in Worker /\ wpc[n + 1] = "none"
    BY DEF Worker
  <1>2. \A w \in Worker :
          (wpc[w] = "none" /\ \A v \in 1..(w - 1) : wpc[v] # "none") <=> w = n + 1
    <2>1. TAKE w \in Worker
    <2>2. CASE w = n + 1
      BY <1>1, <2>2 DEF Worker
    <2>3. CASE w <= n
      BY <2>3 DEF Worker
    <2>4. CASE w > n + 1
      <3>1. n + 1 \in 1..(w - 1)
        BY <2>4 DEF Worker
      <3> QED BY <1>1, <2>4, <3>1 DEF Worker
    <2> QED BY <2>2, <2>3, <2>4 DEF Worker
  <1>3. (CHOOSE w \in Worker : wpc[w] = "none" /\ \A v \in 1..(w - 1) : wpc[v] # "none") = n + 1
    BY <1>1, <1>2
  <1> QED BY <1>1, <1>3 DEF Spawn

\* BindStarts and StartWrite may start a worker.
LEMMA StartingStep ==
  ASSUME IInv, rpc = "running", UNCHANGED rpc, BindStarts \/ StartWrite
  PROVE  TrackInv'
  <1>1. UNCHANGED <<binds, bound, taken, cancelWrite, cancelled, history, sampler>>
    BY DEF BindStarts, StartWrite
  <1>2. PICK n \in 0..(MaxBinds + 1) :
          /\ \A w \in Worker : wpc[w] # "none" <=> w <= n
          /\ n + Binding + (IF provider THEN 0 ELSE 1) <= binds + 1
    BY DEF IInv, TrackInv, StartedInOrder
  <1>3. binds \in 0..MaxBinds /\ callbacks \in 0..MaxBinds /\ Binding \in 0..1 /\ Binding' \in 0..1
    BY DEF IInv, TrackInv, TrackTypes, Binding
  <1>4. provider' \in BOOLEAN /\ found' \in BOOLEAN /\ bpc' \in {"idle", "bind", "unbind"}
    BY DEF BindStarts, StartWrite, IInv, TrackInv, TrackTypes
  <1>5. callbacks' \in 0..MaxBinds /\ callbacks' + Binding' <= binds
    <2>1. CASE BindStarts
      BY <1>3, <2>1 DEF BindStarts, Binding, IInv, TrackInv, CallbackOfBind
    <2>2. CASE StartWrite
      BY <1>3, <2>2 DEF StartWrite, OnBind, Binding, IInv, TrackInv, CallbackOfBind
    <2> QED BY <2>1, <2>2
  <1>6. CallbackOfBind'
    BY <1>1, <1>5 DEF CallbackOfBind
  <1>7. PICK k \in {n, n + 1} :
          /\ wpc' = IF k = n THEN wpc ELSE Spawn
          /\ k + Binding' + (IF provider' THEN 0 ELSE 1) <= binds + 1
          /\ k = n + 1 => n <= MaxBinds
    <2>1. CASE BindStarts
      <3>1. Binding = 1 /\ Binding' = 0 /\ provider' = provider /\ wpc' \in {wpc, Spawn}
        BY <2>1 DEF BindStarts, Binding
      <3> QED BY <1>2, <1>3, <3>1
    <2>2. CASE StartWrite
      <3>1. Binding' = Binding /\ provider' = TRUE /\ wpc' = (IF ~provider /\ bound THEN Spawn ELSE wpc)
        BY <2>2 DEF StartWrite, Binding
      <3>2. CASE ~provider /\ bound
        BY <1>2, <1>3, <3>1, <3>2
      <3>3. CASE ~(~provider /\ bound)
        BY <1>2, <1>3, <3>1, <3>3
      <3> QED BY <3>2, <3>3
    <2> QED BY <2>1, <2>2
  <1>8. CASE k = n
    <2>1. wpc' = wpc
      BY <1>7, <1>8
    <2>2. TrackTypes'
      BY <1>1, <1>4, <1>5, <2>1 DEF IInv, TrackInv, TrackTypes
    <2>3. StartedInOrder'
      BY <1>1, <1>2, <1>7, <1>8, <2>1 DEF StartedInOrder
    <2>4. OneToCancel' /\ Granules' /\ MixedInside' /\ Untouched'
      BY <1>1, <2>1 DEF IInv, TrackInv, OneToCancel, Active, Granules, MixedInside, Untouched
    <2> QED BY <1>6, <2>2, <2>3, <2>4 DEF TrackInv
  <1>9. CASE k = n + 1
    <2>1. n \in 0..MaxBinds
      BY <1>7, <1>9
    <2>2. n + 1 \in Worker /\ wpc' = [wpc EXCEPT ![n + 1] = "new"] /\ wpc[n + 1] = "none"
      <3>1. n + 1 \in Worker /\ Spawn = [wpc EXCEPT ![n + 1] = "new"]
        BY <1>2, <2>1, SpawnStep
      <3> QED BY <1>2, <1>7, <1>9, <2>1, <3>1
    <2>3. \A w \in Worker : wpc'[w] = IF w = n + 1 THEN "new" ELSE wpc[w]
      BY <2>2 DEF IInv, TrackInv, TrackTypes
    <2>4. TrackTypes'
      <3>1. wpc' \in [Worker -> {"none", "new", "set", "sample", "wait", "failed", "done"}]
        BY <2>2 DEF IInv, TrackInv, TrackTypes
      <3>2. cancelWrite \in {0} \cup {w \in Worker : wpc'[w] \notin {"none", "new", "set"}}
        BY <2>2, <2>3 DEF IInv, TrackInv, TrackTypes
      <3> QED BY <1>1, <1>4, <1>5, <3>1, <3>2 DEF IInv, TrackInv, TrackTypes
    <2>5. StartedInOrder'
      <3>1. \A w \in Worker : wpc'[w] # "none" <=> w <= n + 1
        BY <1>2, <2>1, <2>3 DEF Worker
      <3>2. n + 1 \in 0..(MaxBinds + 1)
        BY <2>1
      <3> QED BY <1>1, <1>7, <1>9, <3>1, <3>2 DEF StartedInOrder
    <2>6. OneToCancel'
      BY <1>1, <2>3 DEF IInv, TrackInv, OneToCancel, Active, Plays
    <2>7. Granules' /\ MixedInside' /\ Untouched'
      BY <1>1, <2>2, <2>3 DEF IInv, TrackInv, Granules, MixedInside, Untouched
    <2> QED BY <1>6, <2>4, <2>5, <2>6, <2>7 DEF TrackInv
  <1> QED BY <1>2, <1>7, <1>8, <1>9

-----------------------------------------------------------------------------
(* writeWorker. *)

\* A step of the worker w to another state; the field stays or is set by it.
LEMMA WorkerMoves ==
  ASSUME IInv, rpc = "running", UNCHANGED <<rpc, binding, codec>>, NEW w \in Worker, wpc[w] # "none",
         NEW to \in {"set", "sample", "wait", "failed", "done"}, wpc' = [wpc EXCEPT ![w] = to],
         to = "set" => wpc[w] = "new",
         cancelWrite' = cancelWrite \/ (cancelWrite' = w /\ to # "set"),
         OneToCancel', Granules', MixedInside'
  PROVE  TrackInv'
  <1>1. \A v \in Worker : wpc'[v] = IF v = w THEN to ELSE wpc[v]
    BY DEF IInv, TrackInv, TrackTypes
  <1>2. TrackTypes'
    <2>1. wpc' \in [Worker -> {"none", "new", "set", "sample", "wait", "failed", "done"}]
      BY DEF IInv, TrackInv, TrackTypes
    <2>2. cancelWrite' \in {0} \cup {v \in Worker : wpc'[v] \notin {"none", "new", "set"}}
      BY <1>1 DEF IInv, TrackInv, TrackTypes
    <2> QED BY <2>1, <2>2 DEF IInv, TrackInv, TrackTypes
  <1>3. CallbackOfBind' /\ Untouched'
    BY DEF IInv, TrackInv, CallbackOfBind, Binding, Untouched
  <1>4. StartedInOrder'
    <2>1. \A v \in Worker : wpc'[v] # "none" <=> wpc[v] # "none"
      BY <1>1
    <2> QED BY <2>1 DEF IInv, TrackInv, StartedInOrder, Binding
  <1> QED BY <1>2, <1>3, <1>4 DEF TrackInv

\* The predecessor is cancelled; workers that start together have raced.
LEMMA WriteWorkerStep ==
  ASSUME IInv, rpc = "running", UNCHANGED rpc, NEW w \in Worker, WriteWorker(w)
  PROVE  TrackInv'
  <1>1. /\ wpc[w] = "new" /\ wpc' = [wpc EXCEPT ![w] = "set"]
        /\ cancelled' = cancelled \cup ({cancelWrite} \ {0}) /\ raced' = raced \cup Races(w)
        /\ UNCHANGED <<binding, cancelWrite, missed, sampler>>
    BY DEF WriteWorker
  <1>2. \A v \in Worker : wpc'[v] = IF v = w THEN "set" ELSE wpc[v]
    BY <1>1 DEF IInv, TrackInv, TrackTypes
  <1>3. \A v \in Worker : wpc[v] = "set" => v \in raced' /\ w \in raced'
    BY <1>1 DEF Races, Starting
  <1>4. OneToCancel'
    <2>1. \A v \in Worker \ (cancelled' \cup raced') : Active(v)' => v = cancelWrite'
      BY <1>1, <1>2 DEF IInv, TrackInv, OneToCancel, Active, Plays
    <2>2. cancelWrite' \in {0} \cup cancelled' \cup raced'
      BY <1>1
    <2>3. \A u, v \in Worker : wpc'[u] = "set" /\ wpc'[v] = "set" /\ u # v => u \in raced' /\ v \in raced'
      BY <1>1, <1>2, <1>3 DEF IInv, TrackInv, OneToCancel
    <2> QED BY <2>1, <2>2, <2>3 DEF OneToCancel
  <1>5. Granules' /\ MixedInside'
    BY <1>1, <1>2 DEF IInv, TrackInv, Granules, MixedInside
  <1> QED BY <1>1, <1>4, <1>5, WorkerMoves

\* A worker enters NextSample, where others may be.
LEMMA Enters ==
  ASSUME IInv, NEW w \in Worker, CallNextSample(w)
  PROVE  Granules' /\ MixedInside'
  <1>1. \A v \in Worker : wpc'[v] = IF v = w THEN "sample" ELSE wpc[v]
    BY DEF IInv, TrackInv, TrackTypes, CallNextSample
  <1>2. mixed' \subseteq mixed \cup {v \in Worker : wpc[v] = "sample"} \cup {w}
    BY DEF CallNextSample
  <1>3. MixedInside'
    BY <1>1, <1>2 DEF IInv, TrackInv, MixedInside
  <1>4. Granules'
    BY DEF IInv, TrackInv, Granules, CallNextSample
  <1> QED BY <1>3, <1>4

\* The field is set: whoever it named before was cancelled or has raced.
LEMMA SetCancelWriteStep ==
  ASSUME IInv, rpc = "running", UNCHANGED rpc, NEW w \in Worker, SetCancelWrite(w)
  PROVE  TrackInv'
  <1>1. /\ wpc[w] = "set" /\ wpc' = [wpc EXCEPT ![w] = "sample"] /\ cancelWrite' = w
        /\ UNCHANGED <<binding, cancelled, history, codec>>
    BY DEF SetCancelWrite, CallNextSample
  <1>2. \A v \in Worker : wpc'[v] = IF v = w THEN "sample" ELSE wpc[v]
    BY <1>1 DEF IInv, TrackInv, TrackTypes
  <1>3. \A v \in Worker \ (cancelled \cup raced) : ~Active(v)
    BY <1>1, WorkerType DEF IInv, TrackInv, OneToCancel
  <1>4. OneToCancel'
    BY <1>1, <1>2, <1>3 DEF IInv, TrackInv, OneToCancel, Active
  <1>5. Granules' /\ MixedInside'
    BY Enters DEF SetCancelWrite
  <1> QED BY <1>1, <1>4, <1>5, WorkerMoves

\* A worker goes on, or ends.
LEMMA PlayingKept ==
  ASSUME IInv, NEW w \in Worker, Active(w), NEW to \in {"sample", "wait", "failed", "done"},
         wpc' = [wpc EXCEPT ![w] = to], UNCHANGED <<cancelWrite, cancelled, raced>>
  PROVE  OneToCancel'
  <1>1. \A v \in Worker : wpc'[v] = IF v = w THEN to ELSE wpc[v]
    BY DEF IInv, TrackInv, TrackTypes
  <1> QED BY <1>1 DEF IInv, TrackInv, OneToCancel, Active

\* A worker leaves NextSample.
LEMMA Leaves ==
  ASSUME IInv, NEW w \in Worker, NEW to \in {"wait", "failed"}, wpc' = [wpc EXCEPT ![w] = to],
         mixed' = mixed \ {w}
  PROVE  MixedInside'
  <1>1. \A v \in Worker : v # w => wpc'[v] = wpc[v]
    BY DEF IInv, TrackInv, TrackTypes
  <1> QED BY <1>1 DEF IInv, TrackInv, MixedInside

\* The difference of the granules is that of neighbouring pages: it does not wrap.
LEMMA AloneInTime ==
  ASSUME IInv, Frames > 0, Alone, UNCHANGED codec
  PROVE  Granules'
  <1>1. pos \in 0..Frames /\ pos' = NextSample /\ NextSample \in 1..Frames
    BY DEF IInv, TrackInv, Granules, Alone, NextSample
  <1>2. CASE codec = "h264" /\ NextH264
    BY <1>1, <1>2 DEF NextH264, IInv, TrackInv, Granules
  <1>3. CASE codec = "vp8" /\ NextVP8
    BY <1>1, <1>3 DEF NextVP8, IInv, TrackInv, Granules
  <1>4. CASE codec = "opus" /\ NextOpus
    <2>1. PICK from : from = IF NextSample = 1 THEN 0 ELSE lastGranule
      OBVIOUS
    <2>2. due' \in {Unknown} \cup 0..1
      <3>1. due' = Duration(NextSample, from)
        BY <1>4, <2>1 DEF NextOpus
      <3>2. CASE from = Unknown
        BY <3>1, <3>2 DEF Duration
      <3>3. CASE from # Unknown
        <4>1. GranulePosition(NextSample) - from \in {0, 1}
          BY <1>1, <1>4, <2>1, <3>3 DEF IInv, TrackInv, Granules, NextSample, GranulePosition, Unknown
        <4>2. (GranulePosition(NextSample) - from) % 2^GranuleWidth \in {0, 1}
          BY <4>1 DEF GranuleWidth
        <4> QED BY <3>1, <3>3, <4>2 DEF Duration
      <3> QED BY <3>2, <3>3
    <2>3. PICK p \in 1..Frames : p = pos' /\ p = NextSample
      BY <1>1
    <2>4. lastGranule' = p - 1 /\ p - 1 \in 0..Frames
      BY <1>4, <2>3 DEF NextOpus, GranulePosition
    <2> QED BY <1>1, <2>2, <2>3, <2>4 DEF Granules
  <1> QED BY <1>2, <1>3, <1>4 DEF Alone

\* Workers who are in NextSample together leave a granule that is not known.
LEMMA TogetherGranules ==
  ASSUME IInv, Together, UNCHANGED codec
  PROVE  Granules'
  <1>1. CASE codec = "h264" /\ NextH264
    BY <1>1 DEF Together, NextH264, IInv, TrackInv, Granules
  <1>2. CASE codec = "vp8" /\ NextVP8
    BY <1>2 DEF Together, NextVP8, IInv, TrackInv, Granules
  <1>3. CASE codec = "opus" /\ due' = Unknown /\ lastGranule' = Unknown
    BY <1>3 DEF Together, Granules
  <1> QED BY <1>1, <1>2, <1>3 DEF Together

LEMMA WriteSampleStep ==
  ASSUME IInv, rpc = "running", UNCHANGED rpc, NEW w \in Worker, WriteSample(w)
  PROVE  TrackInv'
  <1>1. PICK to \in {"wait", "failed"} :
          /\ wpc[w] = "sample" /\ Frames > 0 /\ wpc' = [wpc EXCEPT ![w] = to] /\ mixed' = mixed \ {w}
          /\ UNCHANGED <<binding, cancelWrite, cancelled, history, codec>>
    BY DEF WriteSample
  <1>2. OneToCancel'
    BY <1>1, PlayingKept DEF Active, Plays
  <1>3. Granules'
    BY <1>1, AloneInTime, TogetherGranules DEF WriteSample
  <1>4. MixedInside'
    BY <1>1, Leaves
  <1> QED BY <1>1, <1>2, <1>3, <1>4, WorkerMoves

LEMMA GoesOnStep ==
  ASSUME IInv, rpc = "running", UNCHANGED rpc, NEW w \in Worker,
         WriteFails(w) \/ NextTick(w) \/ StopWriting(w)
  PROVE  TrackInv'
  <1>1. PICK to \in {"sample", "failed", "done"} :
          /\ wpc[w] \in Plays /\ wpc' = [wpc EXCEPT ![w] = to]
          /\ UNCHANGED <<binding, cancelWrite, cancelled, history, codec>>
    BY DEF WriteFails, NextTick, CallNextSample, StopWriting, Plays
  <1>2. OneToCancel'
    BY <1>1, PlayingKept DEF Active
  <1>3. Granules' /\ MixedInside'
    <2>1. CASE NextTick(w)
      BY <2>1, Enters DEF NextTick
    <2>2. CASE WriteFails(w)
      <3>1. MixedInside'
        BY <2>2, Leaves DEF WriteFails
      <3> QED BY <2>2, <3>1 DEF WriteFails, IInv, TrackInv, Granules
    <2>3. CASE StopWriting(w)
      <3>1. \A v \in Worker : v # w => wpc'[v] = wpc[v]
        BY <2>3 DEF StopWriting, IInv, TrackInv, TrackTypes
      <3> QED BY <2>3, <3>1 DEF StopWriting, IInv, TrackInv, Granules, MixedInside
    <2> QED BY <2>1, <2>2, <2>3
  <1>4. wpc[w] # "none"
    BY <1>1 DEF Plays
  <1> QED BY <1>1, <1>2, <1>3, <1>4, WorkerMoves

\* The process ends.
LEMMA NilReaderStep ==
  ASSUME IInv, rpc = "running", UNCHANGED rpc, NEW w \in Worker, NilReader(w)
  PROVE  TrackInv'
  <1>1. /\ wpc' = [v \in Worker |-> IF wpc[v] = "none" THEN "none" ELSE "done"] /\ mixed' = {}
        /\ UNCHANGED <<binding, cancelWrite, cancelled, history, codec, pos, lastGranule, due>>
    BY DEF NilReader
  <1>2. \A v \in Worker : wpc'[v] = IF wpc[v] = "none" THEN "none" ELSE "done"
    BY <1>1
  <1>3. TrackTypes'
    <2>1. wpc' \in [Worker -> {"none", "new", "set", "sample", "wait", "failed", "done"}]
      BY <1>1
    <2>2. cancelWrite' \in {0} \cup {v \in Worker : wpc'[v] \notin {"none", "new", "set"}}
      BY <1>1, <1>2 DEF IInv, TrackInv, TrackTypes
    <2> QED BY <1>1, <2>1, <2>2 DEF IInv, TrackInv, TrackTypes
  <1>4. CallbackOfBind' /\ Granules' /\ MixedInside' /\ Untouched'
    BY <1>1 DEF IInv, TrackInv, CallbackOfBind, Binding, Granules, MixedInside, Untouched
  <1>5. StartedInOrder'
    <2>1. \A v \in Worker : wpc'[v] # "none" <=> wpc[v] # "none"
      BY <1>2
    <2> QED BY <1>1, <2>1 DEF IInv, TrackInv, StartedInOrder, Binding
  <1>6. OneToCancel'
    BY <1>2 DEF OneToCancel, Active, Plays
  <1> QED BY <1>3, <1>4, <1>5, <1>6 DEF TrackInv

\* The track moves only after the answer.
LEMMA PlayStep ==
  ASSUME IInv, Play
  PROVE  IInv'
  <1>1. UNCHANGED <<isMainStream, url, mpc, rpc, waiting, client, stored, started>>
    BY DEF Play
  <1>2. CommandInv'
    <2>1. alive' \in BOOLEAN
      BY DEF Play, NilReader, IInv, CommandInv, CommandTypes
    <2> QED BY <1>1, <2>1, CommandKept DEF IInv
  <1>3. rpc = "running"
    <2>1. CASE Library
      BY <2>1 DEF Library
    <2>2. CASE BindStarts \/ StartWrite \/ UnbindCancels
      BY <2>2 DEF BindStarts, StartWrite, OnBind, UnbindCancels, IInv, TrackInv, Untouched
    <2>3. ASSUME NEW w \in Worker, wpc[w] # "none"
          PROVE  rpc = "running"
      BY <2>3 DEF IInv, TrackInv, Untouched
    <2>4. ASSUME NEW w \in Worker,
                 WriteWorker(w) \/ SetCancelWrite(w) \/ WriteSample(w) \/ WriteFails(w)
                   \/ NextTick(w) \/ StopWriting(w) \/ NilReader(w)
          PROVE  rpc = "running"
      <3>1. wpc[w] # "none"
        BY <2>4 DEF WriteWorker, SetCancelWrite, WriteSample, WriteFails, NextTick, StopWriting, NilReader
      <3> QED BY <2>3, <3>1
    <2> QED BY <2>1, <2>2, <2>4 DEF Play, TrackStep
  <1>4. TrackInv'
    <2>1. CASE BindStarts \/ StartWrite
      BY <1>1, <1>3, <2>1, StartingStep
    <2>2. CASE Bind \/ BindFails \/ Unbind \/ UnbindCancels
      BY <1>1, <1>3, <2>2, BindingStep
    <2>3. ASSUME NEW w \in Worker,
                 WriteWorker(w) \/ SetCancelWrite(w) \/ WriteSample(w) \/ WriteFails(w)
                   \/ NextTick(w) \/ StopWriting(w) \/ NilReader(w)
          PROVE  TrackInv'
      BY <1>1, <1>3, <2>3, WriteWorkerStep, SetCancelWriteStep, WriteSampleStep, GoesOnStep, NilReaderStep
    <2> QED BY <2>1, <2>2, <2>3 DEF Play, TrackStep, Library
  <1> QED BY <1>2, <1>4 DEF IInv

-----------------------------------------------------------------------------
(* The invariant and the theorems. *)

LEMMA InitInv == Init => IInv
  <1> SUFFICES ASSUME Init PROVE IInv
    OBVIOUS
  <1>1. TrackTypes
    <2>1. bound \in BOOLEAN /\ provider \in BOOLEAN /\ found \in BOOLEAN
      BY DEF Init, InitTrack
    <2> QED BY <2>1 DEF Init, InitTrack, TrackTypes
  <1>2. CallbackOfBind /\ OneToCancel /\ Granules /\ MixedInside /\ Untouched
    BY DEF Init, InitTrack, CallbackOfBind, Binding, OneToCancel, Active, Plays, Granules, MixedInside, Untouched
  <1>3. StartedInOrder
    <2>1. 0 \in 0..(MaxBinds + 1) /\ \A w \in Worker : wpc[w] # "none" <=> w <= 0
      BY DEF Init, InitTrack, Worker
    <2>2. 0 + Binding + (IF provider THEN 0 ELSE 1) <= binds + 1
      BY DEF Init, InitTrack, Binding
    <2> QED BY <2>1, <2>2 DEF StartedInOrder
  <1>4. CommandInv
    <2>1. alive \in BOOLEAN /\ isMainStream \in BOOLEAN
      BY DEF Init
    <2>2. CommandTypes
      <3>1. csrf.server = "none" /\ csrf.nth = 0
        BY DEF Init, NoToken
      <3>2. stored \in [Server -> 0..(Lobbies + 1)]
        BY DEF Init
      <3> QED BY <2>1, <3>1, <3>2 DEF Init, CommandTypes
    <2>3. Meeting /\ HoldsToken /\ StartLetIn
      BY DEF Init, Meeting, HoldsToken, StartLetIn, DefaultUrl, Server
    <2> QED BY <2>2, <2>3 DEF CommandInv
  <1> QED BY <1>1, <1>2, <1>3, <1>4 DEF IInv, TrackInv

LEMMA NextInv == IInv /\ [Next]_vars => IInv'
  <1> SUFFICES ASSUME IInv, [Next]_vars PROVE IInv'
    OBVIOUS
  <1>1. CASE Login \/ SenderEnded \/ Established \/ StartLiveStream
    BY <1>1, LoginStep, SenderEndedStep, EstablishedStep, StartLiveStreamStep
  <1>2. CASE OpenFiles \/ EstablishStaticIngressEndpoint \/ MarkStreamAsMain
    BY <1>2, OpenFilesStep, PrepareStep
  <1>3. CASE GetAnswer \/ GetAnswerFails \/ GetAnswerPanics \/ SetAnswer
    BY <1>3, GetAnswerStep, SetAnswerStep
  <1>4. CASE Play
    BY <1>4, PlayStep
  <1>5. CASE UNCHANGED vars
    <2>1. alive' \in BOOLEAN
      BY <1>5 DEF vars, IInv, CommandInv, CommandTypes
    <2> QED BY <1>5, <2>1, TrackKept, CommandKept DEF IInv, vars
  <1> QED BY <1>1, <1>2, <1>3, <1>4, <1>5 DEF Next

\* The invariant is inductive.
THEOREM Inductive == Spec => []IInv
  BY InitInv, NextInv, PTL DEF Spec

\* At most one worker that was not told to stop plays the file, workers that started at the
\* same time excepted, although writeWorker uses the cancel field without the lock; and no
\* sample keeps a worker waiting for longer than a frame, whichever codec and however often
\* the file begins again, but where workers were in NextSample of the Opus looper together.
THEOREM WritersCorrect == Spec => []WritersOK
  <1>1. IInv => WritersOK
    <2> SUFFICES ASSUME IInv PROVE WritersOK
      OBVIOUS
    <2>1. due \in {Unknown} \cup 0..1
      BY DEF IInv, TrackInv, Granules
    <2>2. InTime /\ due \in {Unknown} \cup 0..2^GranuleWidth
      BY <2>1 DEF InTime, GranuleWidth
    <2>3. TrackTypeOK
      BY <2>2 DEF IInv, TrackInv, TrackTypes, Granules, MixedInside, TrackTypeOK
    <2>4. TypeOK
      BY <2>3 DEF IInv, CommandInv, CommandTypes, TypeOK
    <2>5. OneWriter
      BY DEF IInv, TrackInv, OneToCancel, Active, OneWriter
    <2> QED BY <2>2, <2>4, <2>5 DEF WritersOK
  <1> QED BY <1>1, Inductive, PTL

\* The goroutine that sent the WHIP request wrote cookie and token before its callback let
\* the command go on, so the server at http://localhost:8080 lets the request in that starts
\* the live stream; where --url names another server, that one refuses it.
THEOREM StartCorrect == Spec => []StartLetIn
  <1>1. IInv => StartLetIn
    BY DEF IInv, CommandInv
  <1> QED BY <1>1, Inductive, PTL

-----------------------------------------------------------------------------
(***************************************************************************)
(* The other end of the connection the sender opens: one session, for any   *)
(* number of commands and mutes and any choice of signal channel kinds.     *)
(* The messenger of the signal is there before an egress endpoint is,       *)
(* although the command that creates the endpoint and the callback of the   *)
(* data channel never share a lock.                                         *)
(***************************************************************************)

\* Session.ingress is set with the endpoint, and looked at before.
IngressOnce ==
  /\ established.ingress = IF ingress THEN 1 ELSE 0
  /\ call = "ingress" => ~ingress
  /\ call = "ingressGather" => ingress

\* Session.egress is set one step after the endpoint was established.
EgressOnce ==
  /\ established.egress = IF egress \/ call = "assign" THEN 1 ELSE 0
  /\ call \in {"wait", "pass", "egress", "assign"} => ~egress
  /\ call = "egressGather" => egress

\* Who comes after waitForSignalChannel found receivedMessenger closed, and the
\* messenger is set before receivedMessenger is closed.
ReadyBeforeEgress ==
  /\ ready => messenger # "nil"
  /\ \A e \in Endpoint : channel[e] \in {"messenger", "closing"} => messenger # "nil"
  /\ egress => ready
  /\ call \in {"egress", "assign", "egressGather"} => ready

\* The data channel of the egress endpoint opens after its answer, hence after
\* receivedMessenger was closed: its callback closes nothing.
EgressClosesNothing ==
  /\ "egress" \in answered => egress
  /\ channel["egress"] # "none" => "egress" \in answered
  /\ channel["egress"] # "closing"

\* A goroutine of muteTrack saw an egress endpoint, under the lock that the command
\* which assigns it holds: the messenger it took was there.
SendsThrough == \A x \in Mutes : muting[x] = "send" => via[x] # "nil"

\* The inductive invariant.
SessionInv ==
  /\ SessionTypeOK
  /\ SendsThrough
  /\ WriterAlone
  /\ IngressOnce
  /\ EgressOnce
  /\ ReadyBeforeEgress
  /\ EgressClosesNothing
  /\ ClosedOnce
-----------------------------------------------------------------------------

USE SessionAssumption DEF callVars, endVars, chanVars, readVars, Endpoint, CallState

LEMMA SessionInitInv == InitSession => SessionInv
  <1> SUFFICES ASSUME InitSession PROVE SessionInv
    OBVIOUS
  <1>1. SessionTypeOK
    <2>1. {open, ingress, egress, ready} \subseteq BOOLEAN
      BY DEF InitSession
    <2>2. established \in [ingress : Nat, egress : Nat]
      BY DEF InitSession
    <2> QED BY <2>1, <2>2 DEF InitSession, SessionTypeOK
  <1>2. IngressOnce /\ EgressOnce
    BY DEF InitSession, IngressOnce, EgressOnce
  <1>3. ReadyBeforeEgress /\ EgressClosesNothing /\ ClosedOnce
    BY DEF InitSession, ReadyBeforeEgress, EgressClosesNothing, ClosedOnce
  <1>4. SendsThrough /\ WriterAlone
    BY DEF InitSession, SendsThrough, WriterAlone
  <1> QED BY <1>1, <1>2, <1>3, <1>4 DEF SessionInv

\* A command that leaves the readers alone, and the messenger: they stay as they are.
LEMMA ReadersKept ==
  ASSUME SessionInv, UNCHANGED readVars,
         call' \notin {"idle", "lockIngress", "lockEgress"} =>
           call \notin {"idle", "lockIngress", "lockEgress"} \/ Lock
  PROVE  SendsThrough' /\ WriterAlone'
  <1>1. SendsThrough'
    BY DEF SessionInv, SendsThrough
  <1>2. Lock => Lock'
    BY DEF Lock, Reading
  <1>3. WriterAlone'
    BY <1>2 DEF SessionInv, WriterAlone
  <1> QED BY <1>1, <1>3

\* What the parts of the session that no command runs may change.
LEMMA EndsKept ==
  ASSUME SessionInv, UNCHANGED <<callVars, ingress, egress, established>>
  PROVE  IngressOnce' /\ EgressOnce'
  BY DEF SessionInv, IngressOnce, EgressOnce

\* A command begins to wait for the lock.
LEMMA BeginStep ==
  ASSUME SessionInv, BeginIngress \/ BeginEgress
  PROVE  SessionInv'
  <1>1. /\ call = "idle" /\ call' \in {"lockIngress", "lockEgress"}
        /\ commands' \in 0..MaxCommands
        /\ UNCHANGED <<open, endVars, chanVars, readVars>>
    BY DEF BeginIngress, BeginEgress, Begin, SessionInv, SessionTypeOK
  <1>2. SendsThrough' /\ WriterAlone'
    BY <1>1, ReadersKept
  <1>3. SessionTypeOK'
    BY <1>1 DEF SessionInv, SessionTypeOK
  <1>4. (IngressOnce /\ EgressOnce /\ ReadyBeforeEgress /\ EgressClosesNothing /\ ClosedOnce)'
    BY <1>1 DEF SessionInv, IngressOnce, EgressOnce, ReadyBeforeEgress, EgressClosesNothing, ClosedOnce
  <1> QED BY <1>2, <1>3, <1>4 DEF SessionInv

\* It has the lock: the checks of its first lines.
LEMMA EnterStep ==
  ASSUME SessionInv, CreateIngress \/ CreateEgress
  PROVE  SessionInv'
  <1>1. /\ Lock /\ call \in {"lockIngress", "lockEgress"}
        /\ UNCHANGED <<open, commands, endVars, chanVars, readVars>>
        /\ \/ call' = "idle"
           \/ call' = "ingress" /\ ~ingress
           \/ call' \in {"wait", "pass"} /\ ~egress
    BY DEF CreateIngress, CreateEgress, Enter, SessionInv, SessionTypeOK
  <1>2. SendsThrough' /\ WriterAlone'
    BY <1>1, ReadersKept
  <1>3. SessionTypeOK'
    BY <1>1 DEF SessionInv, SessionTypeOK
  <1>4. (IngressOnce /\ EgressOnce /\ ReadyBeforeEgress /\ EgressClosesNothing /\ ClosedOnce)'
    BY <1>1 DEF SessionInv, IngressOnce, EgressOnce, ReadyBeforeEgress, EgressClosesNothing, ClosedOnce
  <1> QED BY <1>2, <1>3, <1>4 DEF SessionInv

\* It goes on.
LEMMA CommandStep ==
  ASSUME SessionInv,
         \/ EstablishIngress \/ WaitPassed \/ WaitClosed \/ WaitTimeout
         \/ EstablishEgress \/ AssignEgress \/ GetLocalDescription
  PROVE  SessionInv'
  <1>1. UNCHANGED readVars /\ call \notin {"idle", "lockIngress", "lockEgress"}
    BY DEF EstablishIngress, WaitPassed, WaitClosed, WaitTimeout, EstablishEgress, AssignEgress, GetLocalDescription
  <1>2. SendsThrough' /\ WriterAlone'
    BY <1>1, ReadersKept
  <1> USE DEF SessionInv, SessionTypeOK, IngressOnce, EgressOnce, ReadyBeforeEgress,
    EgressClosesNothing, ClosedOnce
  <1>3. CASE EstablishIngress
    <2>1. SessionTypeOK'
      <3>1. established' \in [ingress : Nat, egress : Nat]
        BY <1>3 DEF EstablishIngress
      <3>2. kind' \in [Endpoint -> IngressKinds \cup EgressKinds \cup {"silent"}]
        BY <1>3 DEF EstablishIngress
      <3>3. {open, ingress, egress, ready}' \subseteq BOOLEAN
        BY <1>3 DEF EstablishIngress
      <3> QED BY <1>3, <3>1, <3>2, <3>3 DEF EstablishIngress
    <2>2. (IngressOnce /\ EgressOnce)'
      BY <1>3 DEF EstablishIngress
    <2>3. (ReadyBeforeEgress /\ EgressClosesNothing /\ ClosedOnce)'
      BY <1>3 DEF EstablishIngress
    <2> QED BY <1>2, <2>1, <2>2, <2>3 DEF SessionInv
  <1>4. CASE WaitPassed \/ WaitClosed \/ WaitTimeout
    <2>1. SessionTypeOK'
      BY <1>4 DEF WaitPassed, WaitClosed, WaitTimeout, Return
    <2>2. (IngressOnce /\ EgressOnce /\ ReadyBeforeEgress /\ EgressClosesNothing /\ ClosedOnce)'
      BY <1>4 DEF WaitPassed, WaitClosed, WaitTimeout, Return
    <2> QED BY <1>2, <2>1, <2>2 DEF SessionInv
  <1>5. CASE EstablishEgress
    <2>1. SessionTypeOK'
      BY <1>5 DEF EstablishEgress
    <2>2. (IngressOnce /\ EgressOnce)'
      BY <1>5 DEF EstablishEgress
    <2>3. (ReadyBeforeEgress /\ EgressClosesNothing /\ ClosedOnce)'
      BY <1>5 DEF EstablishEgress
    <2> QED BY <1>2, <2>1, <2>2, <2>3 DEF SessionInv
  <1>6. CASE AssignEgress
    <2>1. SessionTypeOK'
      BY <1>6 DEF AssignEgress
    <2>2. (IngressOnce /\ EgressOnce /\ ReadyBeforeEgress /\ EgressClosesNothing /\ ClosedOnce)'
      BY <1>6 DEF AssignEgress
    <2> QED BY <1>2, <2>1, <2>2 DEF SessionInv
  <1>7. CASE GetLocalDescription
    <2>1. SessionTypeOK'
      BY <1>7 DEF GetLocalDescription, Return
    <2>2. (IngressOnce /\ EgressOnce /\ ReadyBeforeEgress /\ EgressClosesNothing /\ ClosedOnce)'
      BY <1>7 DEF GetLocalDescription, Return
    <2> QED BY <1>2, <2>1, <2>2 DEF SessionInv
  <1> QED BY <1>3, <1>4, <1>5, <1>6, <1>7

\* The callbacks of a data channel, and the end of the session.
LEMMA ChannelStep ==
  ASSUME SessionInv, NEW e \in Endpoint,
         OnSilentChannel(e) \/ OnSenderChannel(e) \/ StopWaitingForMessenger(e) \/ OnOpen(e) \/ Stop
  PROVE  SessionInv'
  <1>1. UNCHANGED <<callVars, endVars, readVars>>
    BY DEF OnSilentChannel, OnSenderChannel, StopWaitingForMessenger, OnOpen, Stop
  <1>2. SendsThrough' /\ WriterAlone'
    BY <1>1, ReadersKept
  <1>3. IngressOnce' /\ EgressOnce'
    BY <1>1, EndsKept
  <1> USE DEF SessionInv, SessionTypeOK, ReadyBeforeEgress, EgressClosesNothing, ClosedOnce
  <1>4. CASE OnSilentChannel(e)
    <2>1. SessionTypeOK'
      BY <1>4 DEF OnSilentChannel
    <2>2. (ReadyBeforeEgress /\ EgressClosesNothing /\ ClosedOnce)'
      BY <1>4 DEF OnSilentChannel
    <2> QED BY <1>2, <1>3, <2>1, <2>2 DEF SessionInv
  <1>5. CASE OnSenderChannel(e)
    <2>1. SessionTypeOK'
      BY <1>5 DEF OnSenderChannel
    <2>2. (ReadyBeforeEgress /\ EgressClosesNothing /\ ClosedOnce)'
      BY <1>5 DEF OnSenderChannel
    <2> QED BY <1>2, <1>3, <2>1, <2>2 DEF SessionInv
  <1>6. CASE StopWaitingForMessenger(e)
    <2>1. SessionTypeOK'
      <3>1. channel' \in [Endpoint -> {"none", "messenger", "closing", "done"}]
        BY <1>6 DEF StopWaitingForMessenger
      <3>2. {open, ingress, egress, ready}' \subseteq BOOLEAN
        BY <1>6 DEF StopWaitingForMessenger
      <3>3. UNCHANGED <<opened, messenger>>
        BY <1>6 DEF StopWaitingForMessenger
      <3> QED BY <1>1, <3>1, <3>2, <3>3
    <2>2. (ReadyBeforeEgress /\ EgressClosesNothing /\ ClosedOnce)'
      BY <1>6 DEF StopWaitingForMessenger
    <2> QED BY <1>2, <1>3, <2>1, <2>2 DEF SessionInv
  <1>7. CASE OnOpen(e) \/ Stop
    <2>1. SessionTypeOK'
      BY <1>7 DEF OnOpen, Stop
    <2>2. (ReadyBeforeEgress /\ EgressClosesNothing /\ ClosedOnce)'
      BY <1>7 DEF OnOpen, Stop
    <2> QED BY <1>2, <1>3, <2>1, <2>2 DEF SessionInv
  <1> QED BY <1>4, <1>5, <1>6, <1>7

\* The readers, which come in only when no command runs or waits.
LEMMA ReaderStep ==
  ASSUME SessionInv,
         (\E x \in Mutes : BeginMute(x) \/ Mute(x)) \/ InitComplete \/ HubTrack
  PROVE  SessionInv'
  <1>1. UNCHANGED <<open, callVars, endVars, chanVars>>
    BY DEF BeginMute, Mute, MuteTrack, SendMute, InitComplete, HubTrack
  <1>2. (IngressOnce /\ EgressOnce /\ ReadyBeforeEgress /\ EgressClosesNothing /\ ClosedOnce)'
    BY <1>1 DEF SessionInv, IngressOnce, EgressOnce, ReadyBeforeEgress, EgressClosesNothing, ClosedOnce
  <1>3. /\ muting' \in [Mutes -> {"none", "lock", "send", "done"}]
        /\ via' \in [Mutes -> Endpoint \cup {"nil"}]
        /\ hubAt' \in {"idle", "lock", "track", "stuck"}
    <2>1. ASSUME NEW x \in Mutes, BeginMute(x) \/ Mute(x)
          PROVE  /\ muting' \in [Mutes -> {"none", "lock", "send", "done"}]
                 /\ via' \in [Mutes -> Endpoint \cup {"nil"}]
                 /\ hubAt' \in {"idle", "lock", "track", "stuck"}
      BY <2>1 DEF SessionInv, SessionTypeOK, BeginMute, Mute, MuteTrack, SendMute
    <2>2. CASE InitComplete \/ HubTrack
      BY <2>2 DEF SessionInv, SessionTypeOK, InitComplete, HubTrack
    <2> QED BY <2>1, <2>2
  <1>4. SessionTypeOK'
    BY <1>1, <1>3 DEF SessionInv, SessionTypeOK
  <1>5. SendsThrough'
    <2>1. ASSUME NEW x \in Mutes, BeginMute(x) \/ SendMute(x)
          PROVE  SendsThrough'
      BY <2>1 DEF SessionInv, SessionTypeOK, SendsThrough, BeginMute, SendMute
    <2>2. ASSUME NEW x \in Mutes, MuteTrack(x)
          PROVE  SendsThrough'
      <3>1. egress => messenger # "nil"
        BY DEF SessionInv, ReadyBeforeEgress
      <3> QED BY <2>2, <3>1 DEF SessionInv, SessionTypeOK, SendsThrough, MuteTrack
    <2>3. CASE InitComplete \/ HubTrack
      BY <2>3 DEF SessionInv, SendsThrough, InitComplete, HubTrack
    <2> QED BY <2>1, <2>2, <2>3 DEF Mute
  <1>6. WriterAlone'
    <2>1. call = "idle" \/ Lock'
          \/ (Reading' \subseteq Reading /\ (hubAt' \in {"track", "stuck"} => hubAt \in {"track", "stuck"}))
      BY DEF BeginMute, Mute, MuteTrack, SendMute, InitComplete, HubTrack, RLock, Reading,
             SessionInv, SessionTypeOK
    <2> QED BY <1>1, <2>1 DEF SessionInv, WriterAlone, Lock
  <1> QED BY <1>2, <1>4, <1>5, <1>6 DEF SessionInv

LEMMA SessionNextInv == SessionInv /\ [NextSession]_sessionVars => SessionInv'
  <1> SUFFICES ASSUME SessionInv, [NextSession]_sessionVars PROVE SessionInv'
    OBVIOUS
  <1>1. CASE UNCHANGED sessionVars
    <2>1. SendsThrough' /\ WriterAlone'
      BY <1>1, ReadersKept DEF sessionVars
    <2>2. (SessionTypeOK /\ IngressOnce /\ EgressOnce /\ ReadyBeforeEgress /\ EgressClosesNothing /\ ClosedOnce)'
      BY <1>1 DEF sessionVars, SessionInv, SessionTypeOK, IngressOnce, EgressOnce,
        ReadyBeforeEgress, EgressClosesNothing, ClosedOnce
    <2> QED BY <2>1, <2>2 DEF SessionInv
  <1>2. CASE NextSession
    BY <1>2, BeginStep, EnterStep, CommandStep, ChannelStep, ReaderStep DEF NextSession, RunCommand
  <1> QED BY <1>1, <1>2

LEMMA SessionInductive == SessionSpec => []SessionInv
  BY SessionInitInv, SessionNextInv, PTL DEF SessionSpec

-----------------------------------------------------------------------------
\* A session establishes one endpoint of each type at most, whatever commands
\* come, in whatever order, and whichever of them fail (CreateIngressEndpoint,
\* CreateEgressEndpoint); no reader of its mutex is inside while a command is; and
\* every variable has its type.
THEOREM SessionCorrect == SessionSpec => []SessionOK
  <1>1. SessionInv => SessionOK
    BY DEF SessionInv, SessionOK, OneEndpointPerType, IngressOnce, EgressOnce
  <1> QED BY <1>1, SessionInductive, PTL

\* The messenger that OnNegotiationNeeded and muteTrack use without a nil check is
\* there when there is an egress endpoint that may call them, and the one a mute is
\* sent through is there.
THEOREM MessengerCorrect == SessionSpec => []EgressHasMessenger
  <1>1. SessionInv => EgressHasMessenger
    BY DEF SessionInv, EgressHasMessenger, EgressOnce, ReadyBeforeEgress, SendsThrough
  <1> QED BY <1>1, SessionInductive, PTL

\* stopWaitingForMessenger closes receivedMessenger once, although its check and
\* its close are two steps and both endpoints may bring a signal channel.
THEOREM ClosedOnceCorrect == SessionSpec => []ClosedOnce
  <1>1. SessionInv => ClosedOnce
    BY DEF SessionInv
  <1> QED BY <1>1, SessionInductive, PTL
=============================================================================
