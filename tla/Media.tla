------------------------------- MODULE Media -------------------------------
(***************************************************************************)
(* The HTTP API of the media server: log-in, the session cookie that whip   *)
(* starts, the one-time request token that guards the other lobby and live  *)
(* endpoints, the in-memory store behind the tokens with its garbage        *)
(* collector, and the handlers up to their call of the lobby manager.       *)
(* Every request runs in its own goroutine, and no step of a request locks  *)
(* out another: the token is compared in one step and replaced in a later   *)
(* one.                                                                     *)
(***************************************************************************)
EXTENDS Naturals, FiniteSets

CONSTANTS
  User,      \* users of the instance
  Owner,     \* the user whose account the live stream has
  Call,      \* goroutines serving a request (bound: requests at one time)
  MaxCalls,  \* bound: requests altogether
  Lifetime,  \* expiration of a request token, in ticks of the timestamp
  MaxTime    \* bound: the timestamp

ASSUME MediaAssumption ==
  /\ Owner \in User
  /\ Lifetime \in Nat \ {0}
  /\ MaxTime \in Nat
  /\ MaxCalls \in Nat

VARIABLES
  jwt,       \* users that hold a JWT (it names no "exp": it does not expire)
  cookie,    \* users whose client holds a session cookie
  held,      \* the token a client received last
  pc, who, what, \* each request: where it stands, its user, its endpoint
  carry,     \* the token a request brings along, if it brings a session
  fresh,     \* the token set as a header of its response
  written,   \* the requests whose header left before: no later header is sent
  data,      \* Memory.data: the token stored for each user
  clock,     \* the timestamp of the store
  expired,   \* the keys gc found in its first pass
  gcTs,      \* the timestamp it found them with; MaxTime + 1 between passes
  issued,    \* how many tokens there are
  sent,      \* how many requests were sent
  spent,     \* history: tokens a request was let in with, and then replaced
  confused,  \* history: users whose requests overlapped, or who missed a token,
             \* since they were last served alone
  published  \* history: users that made the lobby start or stop the stream

client == <<jwt, cookie, held>>
call   == <<pc, who, what, carry, fresh, written>>
store  == <<data, clock, expired, gcTs>>
vars == <<client, call, store, issued, sent, spent, confused, published>>

NoToken == [n |-> 0, e |-> 0]
Guarded == {"whep", "leave", "start", "stop", "status"} \* behind TokenMiddleware

Active(u) == {c \in Call : who[c] = u /\ pc[c] # "idle"}

-----------------------------------------------------------------------------
(* storage.Memory. *)

\* Get hides an item that expired, collected or not.
GetToken(u) == IF data[u] # NoToken /\ data[u].e > clock THEN data[u] ELSE NoToken

SetToken(u, token) == data' = [data EXCEPT ![u] = token]

Tick ==
  /\ clock < MaxTime
  /\ clock' = clock + 1
  /\ UNCHANGED <<sent, client, call, data, expired, gcTs, issued, spent, confused, published>>

ExpiredAt(t, ts) == t # NoToken /\ t.e <= ts

GcScan ==
  /\ gcTs = MaxTime + 1
  /\ gcTs' = clock
  /\ expired' = {u \in User : ExpiredAt(data[u], clock)}
  /\ UNCHANGED <<sent, client, call, data, clock, issued, spent, confused, published>>

\* Faulty variant: what was found is deleted without a second look.
GcSweepBlind ==
  /\ gcTs # MaxTime + 1
  /\ gcTs' = MaxTime + 1
  /\ expired' = {}
  /\ data' = [u \in User |-> IF u \in expired THEN NoToken ELSE data[u]]
  /\ UNCHANGED <<sent, client, call, clock, issued, spent, confused, published>>

\* Under the write lock the items are looked at again.
GcSweep ==
  /\ gcTs # MaxTime + 1
  /\ gcTs' = MaxTime + 1
  /\ expired' = {}
  /\ data' = [u \in User |-> IF u \in expired /\ ExpiredAt(data[u], gcTs) THEN NoToken ELSE data[u]]
  /\ UNCHANGED <<sent, client, call, clock, issued, spent, confused, published>>

-----------------------------------------------------------------------------
(* The end of a request. *)

Return(c) ==
  /\ pc' = [pc EXCEPT ![c] = "idle"]
  /\ who' = [who EXCEPT ![c] = Owner]
  /\ what' = [what EXCEPT ![c] = "whip"]
  /\ carry' = [carry EXCEPT ![c] = NoToken]
  /\ fresh' = [fresh EXCEPT ![c] = NoToken]
  /\ written' = written \ {c}

\* The response reaches the client, with the headers set before they left: a
\* token set later is in the store, and the client does not learn of it.
Respond(c, cookies) ==
  /\ Return(c)
  /\ cookie' = cookies
  /\ \/ /\ fresh[c] = NoToken
        /\ UNCHANGED <<held, confused>>
     \/ /\ fresh[c] # NoToken /\ c \notin written
        /\ held' = [held EXCEPT ![who[c]] = fresh[c]]
        /\ UNCHANGED confused
     \/ /\ fresh[c] # NoToken /\ c \in written
        /\ confused' = confused \cup {who[c]}
        /\ UNCHANGED held
  /\ UNCHANGED jwt

\* The connection breaks: the work is done, the client learns nothing.
Lost(c) ==
  /\ Return(c)
  /\ confused' = confused \cup {who[c]}
  /\ UNCHANGED client

Finish(c, cookies) == Respond(c, cookies) \/ Lost(c)

\* The session whip started is in the headers of its response.
SessionCookie(c) == IF what[c] = "whip" /\ c \notin written THEN cookie \cup {who[c]} ELSE cookie

DeleteSession(c) == cookie \ {who[c]}

\* The response, an error status or not.
Answer(c) == Finish(c, SessionCookie(c))

Go(c, state) ==
  /\ pc' = [pc EXCEPT ![c] = state]
  /\ UNCHANGED <<client, who, what, carry, fresh, written, confused>>

-----------------------------------------------------------------------------
(* The middlewares. *)

\* For a user with an account and the token of the instance.
GetAuthToken(u) == jwt' = jwt \cup {u}

Authenticate(u) ==
  /\ u \notin jwt
  /\ GetAuthToken(u)
  /\ UNCHANGED <<sent, cookie, held, call, store, issued, spent, confused, published>>

ValidateToken(u) == u \in jwt

\* The session is in the cookie; the server keeps none.
GetPrincipalFromSession(u) == u \in cookie

\* A client sends a request with the token it received last and its cookie.
Send(c, u, w) ==
  /\ pc[c] = "idle"
  /\ sent < MaxCalls
  /\ sent' = sent + 1
  /\ w = "whip" => ValidateToken(u) \* HttpMiddleware
  /\ pc' = [pc EXCEPT ![c] = IF w = "whip" THEN "session" ELSE "check"]
  /\ who' = [who EXCEPT ![c] = u]
  /\ what' = [what EXCEPT ![c] = w]
  /\ carry' = [carry EXCEPT ![c] = IF GetPrincipalFromSession(u) THEN held[u] ELSE NoToken]
  /\ confused' = IF Active(u) # {} THEN confused \cup {u} ELSE confused
  /\ UNCHANGED <<client, fresh, written, store, issued, spent, published>>

\* TokenMiddleware up to the comparison.
CheckToken(c) ==
  /\ pc[c] = "check"
  /\ IF carry[c] # NoToken /\ carry[c] = GetToken(who[c])
       THEN Go(c, "rotate")
       ELSE Answer(c)
  /\ UNCHANGED <<sent, store, issued, spent, published>>

\* Faulty variant: a token that is still good is kept.
KeepRequestToken(c) ==
  LET token == IF carry[c] # NoToken THEN carry[c] ELSE [n |-> issued + 1, e |-> clock + Lifetime]
  IN  /\ issued' = issued + 1
      /\ SetToken(who[c], token)
      /\ fresh' = [fresh EXCEPT ![c] = token]

\* SetNewRequestToken: stored for the user and put into the response.
SetNewRequestToken(c) ==
  LET token == [n |-> issued + 1, e |-> clock + Lifetime]
  IN  /\ issued' = issued + 1
      /\ SetToken(who[c], token)
      /\ fresh' = [fresh EXCEPT ![c] = token]

Rotate(c) ==
  /\ pc[c] = "rotate"
  /\ SetNewRequestToken(c)
  /\ pc' = [pc EXCEPT ![c] = IF what[c] = "whip" THEN "lobby" ELSE "find"]
  /\ spent' = IF what[c] = "whip" THEN spent ELSE spent \cup {carry[c]}
  /\ confused' = IF Active(who[c]) = {c} THEN confused \ {who[c]} ELSE confused
  /\ UNCHANGED <<sent, client, who, what, carry, written, clock, expired, gcTs, published>>

-----------------------------------------------------------------------------
(* The handlers. *)

\* Faulty variant: the user is not compared with the owner.
MayCallForAnyone(c) == TRUE

\* readingRequestData compares the user with the account of the stream.
MayCall(c) == what[c] \in {"start", "stop"} => who[c] = Owner

\* The stream is there or not: the inbox may delete it at any time.
FindByUuid == BOOLEAN

\* It may also be in another space than the one the path names.
FindByUuidAndSpaceIdentifier == {found /\ named : found \in FindByUuid, named \in BOOLEAN}

\* What is not found ends the request with an error status.
GetLiveStream(c, goOn) ==
  /\ pc[c] = "find"
  /\ \E found \in FindByUuidAndSpaceIdentifier : IF found THEN goOn ELSE Answer(c)

\* The body may have the wrong type, be too long or not parse.
GetPayload(c, goOn) == \E parsed \in BOOLEAN : IF parsed THEN goOn ELSE Answer(c)

\* The lobby manager was called; its error and its result are answered alike.
Called(c) == pc[c] = "lobby" /\ Answer(c)

unhandled == <<sent, store, issued, spent>>

\* StartSession of whip.  When it fails, for instance on a cookie that no longer
\* decodes, the header leaves with a 500 and whip goes on.
StartSession(c) ==
  /\ pc[c] = "session"
  /\ pc' = [pc EXCEPT ![c] = "find"]
  /\ written' \in {written, written \cup {c}}
  /\ UNCHANGED <<unhandled, client, who, what, carry, fresh, confused, published>>

Whip(c) ==
  /\ what[c] = "whip"
  /\ GetLiveStream(c, GetPayload(c, Go(c, "rotate"))) \/ Called(c)
  /\ UNCHANGED <<unhandled, published>>

Whep(c) ==
  /\ what[c] = "whep"
  /\ GetLiveStream(c, GetPayload(c, Go(c, "lobby"))) \/ Called(c)
  /\ UNCHANGED <<unhandled, published>>

\* The manager leaves no lobby yet: whipDelete answers with an error and the
\* session stays.
LeaveLobby(c) == FALSE

WhipDelete(c) ==
  /\ what[c] = "leave"
  /\ \/ GetLiveStream(c, Go(c, "lobby"))
     \/ pc[c] = "lobby" /\ Finish(c, IF LeaveLobby(c) THEN DeleteSession(c) ELSE cookie)
  /\ UNCHANGED <<unhandled, published>>

\* The session the request came with; TokenMiddleware has looked at it too.
GetUserFromSession(c, goOn) == IF carry[c] # NoToken THEN goOn ELSE Answer(c)

\* A user who may not start or stop the stream has 403 written, but the error
\* returned is nil: the handler goes on with a nil stream and panics, which
\* net/http turns into a broken connection.
ReadingRequestData(c, goOn) ==
  GetLiveStream(c, GetUserFromSession(c, IF MayCall(c) THEN goOn ELSE Lost(c)))

PublishLiveStream(c) ==
  /\ what[c] = "start"
  /\ \/ ReadingRequestData(c, GetPayload(c, Go(c, "lobby"))) /\ UNCHANGED published
     \/ Called(c) /\ published' = published \cup {who[c]}
  /\ UNCHANGED unhandled

StopLiveStream(c) ==
  /\ what[c] = "stop"
  /\ \/ ReadingRequestData(c, Go(c, "lobby")) /\ UNCHANGED published
     \/ Called(c) /\ published' = published \cup {who[c]}
  /\ UNCHANGED unhandled

GetStatusOfLiveStream(c) ==
  /\ what[c] = "status"
  /\ GetLiveStream(c, GetUserFromSession(c, Answer(c)))
  /\ UNCHANGED <<unhandled, published>>

-----------------------------------------------------------------------------
Init ==
  /\ jwt = {}
  /\ cookie = {}
  /\ held = [u \in User |-> NoToken]
  /\ pc = [c \in Call |-> "idle"]
  /\ who = [c \in Call |-> Owner]
  /\ what = [c \in Call |-> "whip"]
  /\ carry = [c \in Call |-> NoToken]
  /\ fresh = [c \in Call |-> NoToken]
  /\ written = {}
  /\ data = [u \in User |-> NoToken]
  /\ clock = 0
  /\ expired = {}
  /\ gcTs = MaxTime + 1
  /\ issued = 0
  /\ sent = 0
  /\ spent = {}
  /\ confused = {}
  /\ published = {}

Next ==
  \/ Tick \/ GcScan \/ GcSweep
  \/ \E u \in User : Authenticate(u)
  \/ \E c \in Call :
       \/ \E u \in User, w \in Guarded \cup {"whip"} : Send(c, u, w)
       \/ CheckToken(c) \/ Rotate(c)
       \/ StartSession(c) \/ Whip(c) \/ Whep(c) \/ WhipDelete(c)
       \/ PublishLiveStream(c) \/ StopLiveStream(c) \/ GetStatusOfLiveStream(c)

\* The collector's goroutine runs.
Spec == Init /\ [][Next]_vars

-----------------------------------------------------------------------------
\* Type invariant.
TypeOK ==
  /\ cookie \subseteq jwt /\ jwt \subseteq User
  /\ \A c \in Call : pc[c] \in {"idle", "session", "check", "rotate", "find", "lobby"}
  /\ \A u \in User : data[u].n \in 0..issued /\ held[u].n \in 0..issued
  /\ issued <= sent
  /\ expired # {} => gcTs \in 0..MaxTime

\* A client that sends one request at a time and misses no token is let in with
\* the token it received last, until that token expires: whatever path a handler
\* takes after SetNewRequestToken, and whatever the collector does, the store
\* keeps that very token.  One that did overlap requests, or missed a token (the
\* connection broke, or whip had written its header when StartSession failed),
\* is in step again as soon as a request of its own is served alone and answered.
LastTokenWorks ==
  \A u \in User \ confused :
    Active(u) = {} /\ held[u] # NoToken =>
      data[u] = held[u] \/ held[u].e <= clock

\* A token that let a request in and was replaced is never in the store again:
\* only requests that overlap can share a token.
TokenUsedOnce == \A u \in User : data[u] \notin spent

\* The store is well formed: types, and no token comes back.
TokensOK == TypeOK /\ TokenUsedOnce

\* Only the owner of a stream makes the lobby start or stop the live stream,
\* though readingRequestData returns no error for anyone else.
OnlyOwnerPublishes == published \subseteq {Owner}
=============================================================================
