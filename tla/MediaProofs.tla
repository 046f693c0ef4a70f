----------------------------- MODULE MediaProofs -----------------------------
(***************************************************************************)
(* Proofs about the media API, for any number of users and of requests      *)
(* served at one time.                                                      *)
(*                                                                          *)
(* A request token is compared in one step and replaced in a later one, so  *)
(* what matters is where a token can be: in the store, with the client or   *)
(* in a request, and always of one user only.                               *)
(***************************************************************************)
EXTENDS Media, FiniteSetTheorems, TLAPS

Token == [n : Nat, e : Nat]

\* What the type invariant leaves open.
Types ==
  /\ jwt \subseteq User /\ cookie \subseteq jwt
  /\ held \in [User -> Token] /\ data \in [User -> Token]
  /\ pc \in [Call -> {"idle", "session", "check", "rotate", "find", "lobby"}]
  /\ who \in [Call -> User]
  /\ what \in [Call -> Guarded \cup {"whip"}]
  /\ carry \in [Call -> Token] /\ fresh \in [Call -> Token]
  /\ clock \in Nat /\ issued \in Nat /\ sent \in Nat
  /\ expired \subseteq User /\ spent \subseteq Token
  /\ gcTs \in 0..clock \/ gcTs = MaxTime + 1
  /\ expired # {} => gcTs # MaxTime + 1
  /\ clock <= MaxTime

\* The requests whose token is still to be replaced.
Unrotated == {c \in Call : pc[c] \in {"session", "check", "rotate"} \/ (pc[c] = "find" /\ what[c] = "whip")}

\* A request replaces one token: there are no more tokens than requests.
OneTokenPerRequest == IsFiniteSet(Unrotated) /\ issued + Cardinality(Unrotated) <= sent

\* Where a token of u can be.
TokensOf(u) ==
  {data[u], held[u]} \cup UNION {{carry[c], fresh[c]} : c \in {d \in Call : who[d] = u}}

\* Tokens were issued, are of one user, and those that are spent are no longer stored.
TokensApart ==
  /\ \A u \in User : \A k \in TokensOf(u) : k.n <= issued
  /\ \A u, v \in User : u # v => TokensOf(u) \cap TokensOf(v) \subseteq {NoToken}
  /\ \A k \in spent : k # NoToken /\ k.n <= issued
  /\ TokenUsedOnce

\* What holds at each stage of a request.
Stages ==
  \A c \in Call :
    /\ pc[c] = "idle" => fresh[c] = NoToken
    /\ pc[c] # "idle" /\ what[c] = "whip" => who[c] \in jwt
    /\ pc[c] = "check" => what[c] # "whip"
    /\ pc[c] = "session" => what[c] = "whip"
    /\ pc[c] = "rotate" /\ what[c] # "whip" => carry[c] # NoToken
    /\ pc[c] = "lobby" => MayCall(c)

\* The store keeps the token, unless it expired.
Keeps(u, token) == data[u] = token \/ token.e <= clock

\* A user who is not confused has one request at most, and the store keeps the token
\* that request will answer with, or else the one the client has.
StoreKeeps ==
  \A u \in User \ confused :
    /\ \A c, d \in Active(u) : c = d
    /\ \A c \in Active(u) : fresh[c] # NoToken => Keeps(u, fresh[c])
    /\ held[u] # NoToken /\ (\A c \in Active(u) : fresh[c] = NoToken) => Keeps(u, held[u])

\* The inductive invariant.
IInv ==
  /\ Types
  /\ OneTokenPerRequest
  /\ TokensApart
  /\ Stages
  /\ StoreKeeps
  /\ OnlyOwnerPublishes
-----------------------------------------------------------------------------
(* Steps of the handlers, by what they do to the request. *)

\* The request is let in, is found to be allowed, or ends.
HandlerStep(c) ==
  /\ UNCHANGED unhandled
  /\ \/ /\ UNCHANGED published
        /\ \/ pc[c] = "check" /\ carry[c] # NoToken /\ Go(c, "rotate")
           \/ pc[c] = "find" /\ what[c] = "whip" /\ Go(c, "rotate")
           \/ pc[c] = "find" /\ what[c] # "whip" /\ MayCall(c) /\ Go(c, "lobby")
           \/ pc[c] # "idle" /\ Answer(c)
     \/ /\ pc[c] = "lobby" /\ what[c] \in {"start", "stop"}
        /\ published' = published \cup {who[c]}
        /\ Answer(c)

USE MediaAssumption DEF client, store, unhandled

\* A broken connection is one of the answers.
LEMMA LostIsAnswer == \A c \in Call : Lost(c) => Answer(c)
  BY DEF Answer, Finish

\* TokenMiddleware lets a request in or answers it.
LEMMA CheckTokenIsHandlerStep ==
  ASSUME NEW c \in Call, CheckToken(c)
  PROVE  HandlerStep(c)
  <1>1. pc[c] = "check" /\ UNCHANGED <<unhandled, published>>
    BY DEF CheckToken
  <1>2. (carry[c] # NoToken /\ Go(c, "rotate")) \/ Answer(c)
    BY DEF CheckToken
  <1> QED BY <1>1, <1>2 DEF HandlerStep

\* Each endpoint goes on where its checks let it, and else answers.
LEMMA HandlersAreHandlerSteps ==
  ASSUME NEW c \in Call,
         Whip(c) \/ Whep(c) \/ WhipDelete(c) \/ PublishLiveStream(c) \/ StopLiveStream(c)
           \/ GetStatusOfLiveStream(c)
  PROVE  HandlerStep(c)
  <1>1. CASE Whip(c)
    <2>1. (pc[c] = "find" /\ (Go(c, "rotate") \/ Answer(c))) \/ (pc[c] = "lobby" /\ Answer(c))
      BY <1>1 DEF Whip, GetLiveStream, GetPayload, Called
    <2> QED BY <1>1, <2>1 DEF Whip, HandlerStep
  <1>2. CASE Whep(c)
    <2>1. (pc[c] = "find" /\ (Go(c, "lobby") \/ Answer(c))) \/ (pc[c] = "lobby" /\ Answer(c))
      BY <1>2 DEF Whep, GetLiveStream, GetPayload, Called
    <2> QED BY <1>2, <2>1 DEF Whep, HandlerStep, MayCall
  <1>3. CASE WhipDelete(c)
    <2>1. (pc[c] = "find" /\ (Go(c, "lobby") \/ Answer(c))) \/ (pc[c] = "lobby" /\ Finish(c, cookie))
      BY <1>3 DEF WhipDelete, GetLiveStream, LeaveLobby
    <2>2. Finish(c, cookie) => Answer(c)
      BY <1>3 DEF Answer, SessionCookie, WhipDelete
    <2> QED BY <1>3, <2>1, <2>2 DEF WhipDelete, HandlerStep, MayCall
  <1>4. CASE PublishLiveStream(c)
    <2>1. \/ pc[c] = "find" /\ ((MayCall(c) /\ Go(c, "lobby")) \/ Answer(c)) /\ UNCHANGED published
          \/ pc[c] = "lobby" /\ Answer(c) /\ published' = published \cup {who[c]}
      BY <1>4, LostIsAnswer DEF PublishLiveStream, ReadingRequestData, GetLiveStream,
        GetUserFromSession, GetPayload, Called
    <2> QED BY <1>4, <2>1 DEF PublishLiveStream, HandlerStep
  <1>5. CASE StopLiveStream(c)
    <2>1. \/ pc[c] = "find" /\ ((MayCall(c) /\ Go(c, "lobby")) \/ Answer(c)) /\ UNCHANGED published
          \/ pc[c] = "lobby" /\ Answer(c) /\ published' = published \cup {who[c]}
      BY <1>5, LostIsAnswer DEF StopLiveStream, ReadingRequestData, GetLiveStream,
        GetUserFromSession, Called
    <2> QED BY <1>5, <2>1 DEF StopLiveStream, HandlerStep
  <1>6. CASE GetStatusOfLiveStream(c)
    <2>1. pc[c] = "find" /\ Answer(c)
      BY <1>6 DEF GetStatusOfLiveStream, GetLiveStream, GetUserFromSession
    <2> QED BY <1>6, <2>1 DEF GetStatusOfLiveStream, HandlerStep
  <1> QED BY <1>1, <1>2, <1>3, <1>4, <1>5, <1>6

\* What an answer does: the request is gone, the client has its token or is confused.
LEMMA AnswerOutcome ==
  ASSUME NEW c \in Call, Answer(c)
  PROVE  /\ Return(c)
         /\ UNCHANGED jwt
         /\ cookie' = cookie \/ (what[c] = "whip" /\ cookie' = cookie \cup {who[c]})
         /\ \/ /\ held' = IF fresh[c] = NoToken THEN held ELSE [held EXCEPT ![who[c]] = fresh[c]]
               /\ UNCHANGED confused
            \/ UNCHANGED held /\ confused' = confused \cup {who[c]}
  BY DEF Answer, SessionCookie, Finish, Respond, Lost

-----------------------------------------------------------------------------
(* Two arguments that every step needs. *)

\* Tokens that move or vanish stay apart.
LEMMA ApartKept ==
  ASSUME IInv, UNCHANGED <<issued, spent>>,
         \A u \in User : data'[u] \in {data[u], NoToken} /\ TokensOf(u)' \subseteq TokensOf(u) \cup {NoToken}
  PROVE  TokensApart'
  <1>1. \A u \in User : \A k \in TokensOf(u)' : k.n <= issued'
    BY DEF IInv, Types, TokensApart, NoToken
  <1>2. \A u, v \in User : u # v => TokensOf(u)' \cap TokensOf(v)' \subseteq {NoToken}
    BY DEF IInv, TokensApart
  <1>3. (\A k \in spent : k # NoToken /\ k.n <= issued)' /\ TokenUsedOnce'
    BY DEF IInv, TokensApart, TokenUsedOnce
  <1> QED BY <1>1, <1>2, <1>3 DEF TokensApart

\* A request that goes on, or ends, has no more tokens to replace than before.
LEMMA CountKept ==
  ASSUME IInv, UNCHANGED <<issued, sent>>, Unrotated' \subseteq Unrotated
  PROVE  OneTokenPerRequest'
  <1>1. IsFiniteSet(Unrotated') /\ Cardinality(Unrotated') <= Cardinality(Unrotated)
    BY FS_Subset DEF IInv, OneTokenPerRequest
  <1>2. Cardinality(Unrotated) \in Nat /\ Cardinality(Unrotated') \in Nat
    BY <1>1, FS_CardinalityType DEF IInv, OneTokenPerRequest
  <1> QED BY <1>1, <1>2 DEF IInv, Types, OneTokenPerRequest

-----------------------------------------------------------------------------
(* One lemma per step. *)

\* Time passes: tokens expire.
LEMMA TickStep ==
  ASSUME IInv, Tick
  PROVE  IInv'
  <1>1. Types'
    BY DEF Tick, call, IInv, Types
  <1>2. OneTokenPerRequest'
    <2>1. Unrotated' = Unrotated
      BY DEF Tick, call, Unrotated
    <2> QED BY <2>1, CountKept DEF Tick
  <1>3. TokensApart'
    <2>1. \A u \in User : TokensOf(u)' = TokensOf(u)
      BY DEF Tick, call, TokensOf
    <2> QED BY <2>1, ApartKept DEF Tick
  <1>4. Stages' /\ OnlyOwnerPublishes'
    BY DEF Tick, call, IInv, Stages, MayCall, OnlyOwnerPublishes
  <1>5. StoreKeeps'
    <2>1. \A u \in User, k \in Token : Keeps(u, k) => Keeps(u, k)'
      BY DEF Tick, Keeps, IInv, Types, Token
    <2> QED BY <2>1 DEF Tick, call, IInv, Types, StoreKeeps, Active
  <1> QED BY <1>1, <1>2, <1>3, <1>4, <1>5 DEF IInv

\* The first pass of the collector changes no token.
LEMMA GcScanStep ==
  ASSUME IInv, GcScan
  PROVE  IInv'
  <1>1. Types'
    BY DEF GcScan, call, IInv, Types
  <1>2. OneTokenPerRequest'
    <2>1. Unrotated' = Unrotated
      BY DEF GcScan, call, Unrotated
    <2> QED BY <2>1, CountKept DEF GcScan
  <1>3. TokensApart'
    <2>1. \A u \in User : TokensOf(u)' = TokensOf(u)
      BY DEF GcScan, call, TokensOf
    <2> QED BY <2>1, ApartKept DEF GcScan
  <1>4. Stages' /\ OnlyOwnerPublishes'
    BY DEF GcScan, call, IInv, Stages, MayCall, OnlyOwnerPublishes
  <1>5. StoreKeeps'
    BY DEF GcScan, call, IInv, StoreKeeps, Active, Keeps
  <1> QED BY <1>1, <1>2, <1>3, <1>4, <1>5 DEF IInv

\* The second pass deletes tokens that had expired, whatever was stored meanwhile.
LEMMA GcSweepStep ==
  ASSUME IInv, GcSweep
  PROVE  IInv'
  <1>1. Types'
    BY DEF GcSweep, call, IInv, Types, Token, NoToken
  <1>2. OneTokenPerRequest'
    <2>1. Unrotated' = Unrotated
      BY DEF GcSweep, call, Unrotated
    <2> QED BY <2>1, CountKept DEF GcSweep
  <1>3. TokensApart'
    <2>1. \A u \in User : data'[u] \in {data[u], NoToken}
      BY DEF GcSweep
    <2>2. \A u \in User : TokensOf(u)' \subseteq TokensOf(u) \cup {NoToken}
      BY <2>1 DEF GcSweep, call, TokensOf
    <2> QED BY <2>1, <2>2, ApartKept DEF GcSweep
  <1>4. Stages' /\ OnlyOwnerPublishes'
    BY DEF GcSweep, call, IInv, Stages, MayCall, OnlyOwnerPublishes
  <1>5. StoreKeeps'
    <2>1. \A u \in User, k \in Token : Keeps(u, k) => Keeps(u, k)'
      BY DEF GcSweep, Keeps, ExpiredAt, IInv, Types, Token
    <2> QED BY <2>1 DEF GcSweep, call, IInv, Types, StoreKeeps, Active
  <1> QED BY <1>1, <1>2, <1>3, <1>4, <1>5 DEF IInv

\* A log-in adds a JWT.
LEMMA AuthenticateStep ==
  ASSUME IInv, NEW u \in User, Authenticate(u)
  PROVE  IInv'
  <1>1. Types'
    BY DEF Authenticate, GetAuthToken, call, IInv, Types
  <1>2. OneTokenPerRequest'
    <2>1. Unrotated' = Unrotated
      BY DEF Authenticate, call, Unrotated
    <2> QED BY <2>1, CountKept DEF Authenticate
  <1>3. TokensApart'
    <2>1. \A v \in User : TokensOf(v)' = TokensOf(v)
      BY DEF Authenticate, call, TokensOf
    <2> QED BY <2>1, ApartKept DEF Authenticate
  <1>4. Stages' /\ OnlyOwnerPublishes'
    BY DEF Authenticate, GetAuthToken, call, IInv, Stages, MayCall, OnlyOwnerPublishes
  <1>5. StoreKeeps'
    BY DEF Authenticate, call, IInv, StoreKeeps, Active, Keeps
  <1> QED BY <1>1, <1>2, <1>3, <1>4, <1>5 DEF IInv

\* A request is sent, with a token of its user.
LEMMA SendStep ==
  ASSUME IInv, NEW c \in Call, NEW u \in User, NEW w \in Guarded \cup {"whip"}, Send(c, u, w)
  PROVE  IInv'
  <1>1. Types'
    <2>1. carry' \in [Call -> Token]
      BY DEF Send, IInv, Types, Token, NoToken
    <2>2. pc' \in [Call -> {"idle", "session", "check", "rotate", "find", "lobby"}]
      BY DEF Send, IInv, Types
    <2> QED BY <2>1, <2>2 DEF Send, IInv, Types
  <1>2. OneTokenPerRequest'
    <2>1. c \notin Unrotated /\ Unrotated' = Unrotated \cup {c}
      BY DEF Send, Unrotated, IInv, Types, Guarded
    <2>2. Cardinality(Unrotated') = Cardinality(Unrotated) + 1 /\ IsFiniteSet(Unrotated')
      BY <2>1, FS_AddElement DEF IInv, OneTokenPerRequest
    <2>3. Cardinality(Unrotated) \in Nat
      BY FS_CardinalityType DEF IInv, OneTokenPerRequest
    <2> QED BY <2>2, <2>3 DEF Send, IInv, Types, OneTokenPerRequest
  <1>3. TokensApart'
    <2>1. carry'[c] \in {held[u], NoToken} /\ \A d \in Call \ {c} : carry'[d] = carry[d]
      BY DEF Send, IInv, Types
    <2>2. fresh[c] = NoToken
      BY DEF Send, IInv, Stages
    <2>3. \A v \in User : TokensOf(v)' \subseteq TokensOf(v) \cup {NoToken}
      BY <2>1, <2>2 DEF Send, TokensOf, IInv, Types
    <2> QED BY <2>3, ApartKept DEF Send
  <1>4. Stages' /\ OnlyOwnerPublishes'
    BY DEF Send, ValidateToken, IInv, Types, Stages, MayCall, OnlyOwnerPublishes, Guarded
  <1>5. StoreKeeps'
    <2> SUFFICES ASSUME NEW v \in User \ confused'
                 PROVE  /\ \A e, d \in Active(v)' : e = d
                        /\ \A d \in Active(v)' : fresh[d] # NoToken => Keeps(v, fresh[d])
                        /\ held[v] # NoToken /\ (\A d \in Active(v)' : fresh[d] = NoToken) => Keeps(v, held[v])
      BY DEF StoreKeeps, Send, Keeps
    <2>1. v \notin confused
      BY DEF Send
    <2>2. CASE v = u
      <3>1. Active(v) = {} /\ Active(v)' = {c} /\ fresh[c] = NoToken
        BY <2>2 DEF Send, Active, IInv, Types, Stages
      <3> QED BY <2>1, <3>1 DEF IInv, StoreKeeps
    <2>3. CASE v # u
      <3>1. Active(v)' = Active(v)
        BY <2>3 DEF Send, Active, IInv, Types
      <3> QED BY <2>1, <3>1 DEF IInv, StoreKeeps
    <2> QED BY <2>2, <2>3
  <1> QED BY <1>1, <1>2, <1>3, <1>4, <1>5 DEF IInv

\* The token is replaced: the new one is nobody's, the old one is gone from the store.
LEMMA RotateStep ==
  ASSUME IInv, NEW c \in Call, Rotate(c)
  PROVE  IInv'
  <1> PICK u \in User : u = who[c]
    BY DEF IInv, Types
  <1> DEFINE token == [n |-> issued + 1, e |-> clock + Lifetime]
  <1>1. /\ token \in Token /\ issued' = issued + 1
        /\ data' = [data EXCEPT ![u] = token] /\ fresh' = [fresh EXCEPT ![c] = token]
        /\ pc' = [pc EXCEPT ![c] = IF what[c] = "whip" THEN "lobby" ELSE "find"]
        /\ UNCHANGED <<sent, client, who, what, carry, clock, expired, gcTs, published>>
    BY DEF Rotate, SetNewRequestToken, SetToken, Token, IInv, Types
  <1>2. token # NoToken /\ token.n = issued + 1
    BY DEF NoToken, IInv, Types
  <1> HIDE DEF token
  <1>3. Types'
    BY <1>1 DEF Rotate, IInv, Types
  <1>4. OneTokenPerRequest'
    <2>1. c \in Unrotated /\ Unrotated' = Unrotated \ {c}
      BY <1>1 DEF Rotate, Unrotated, IInv, Types
    <2>2. Cardinality(Unrotated') = Cardinality(Unrotated) - 1 /\ IsFiniteSet(Unrotated')
      BY <2>1, FS_RemoveElement DEF IInv, OneTokenPerRequest
    <2>3. Cardinality(Unrotated) \in Nat
      BY FS_CardinalityType DEF IInv, OneTokenPerRequest
    <2> QED BY <1>1, <2>2, <2>3 DEF IInv, Types, OneTokenPerRequest
  <1>5. TokensApart'
    <2>1. TokensOf(u)' \subseteq TokensOf(u) \cup {token}
      BY <1>1 DEF TokensOf, IInv, Types
    <2>2. \A v \in User \ {u} : TokensOf(v)' \subseteq TokensOf(v)
      BY <1>1 DEF TokensOf, IInv, Types
    <2>3. \A v \in User : \A k \in TokensOf(v) : k.n <= issued /\ k # token
      BY <1>2 DEF IInv, Types, TokensApart
    <2>4. \A v \in User : TokensOf(v) \subseteq Token
      BY DEF TokensOf, IInv, Types
    <2>5. \A v \in User : \A k \in TokensOf(v)' : k.n <= issued'
      <3>1. \A v \in User : \A k \in TokensOf(v) : k.n <= issued + 1
        BY <2>3, <2>4 DEF IInv, Types, Token
      <3>2. \A v \in User : TokensOf(v)' \subseteq TokensOf(v) \cup {token}
        BY <2>1, <2>2
      <3> QED BY <1>1, <1>2, <3>1, <3>2 DEF IInv, Types
    <2>6. \A v, x \in User : v # x => TokensOf(v)' \cap TokensOf(x)' \subseteq {NoToken}
      <3> SUFFICES ASSUME NEW v \in User, NEW x \in User, v # x,
                          NEW k, k \in TokensOf(v)', k \in TokensOf(x)'
                   PROVE  k = NoToken
        OBVIOUS
      <3>1. k \in TokensOf(v) /\ k \in TokensOf(x)
        BY <2>1, <2>2, <2>3
      <3> QED BY <3>1 DEF IInv, TokensApart
    <2>7. carry[c] \in TokensOf(u)
      BY DEF TokensOf
    <2>8. (\A k \in spent : k # NoToken /\ k.n <= issued)'
      <3>1. what[c] # "whip" => carry[c] # NoToken /\ carry[c].n <= issued
        BY <1>1, <2>3, <2>7 DEF Rotate, IInv, Stages
      <3>2. \A k \in spent \cup {carry[c]} : k.n \in Nat
        BY DEF IInv, Types, Token
      <3>3. \A k \in spent' : k \in spent \/ (k = carry[c] /\ what[c] # "whip")
        BY DEF Rotate
      <3>4. \A k \in spent' : k # NoToken /\ k.n <= issued
        BY <3>1, <3>3 DEF IInv, TokensApart
      <3>5. \A k \in spent' : k.n <= issued + 1
        BY <3>2, <3>3, <3>4 DEF IInv, Types
      <3> QED BY <1>1, <3>4, <3>5
    <2>9. TokenUsedOnce'
      <3>1. \A v \in User : data'[v] \notin spent
        <4>1. token \notin spent
          BY <1>2 DEF IInv, Types, TokensApart
        <4> QED BY <1>1, <4>1 DEF IInv, Types, TokensApart, TokenUsedOnce
      <3>2. what[c] # "whip" => \A v \in User : data'[v] # carry[c]
        <4>1. data'[u] # carry[c]
          BY <1>1, <2>3, <2>7 DEF IInv, Types
        <4>2. \A v \in User \ {u} : data'[v] = data[v] /\ data[v] \in TokensOf(v)
          BY <1>1 DEF IInv, Types, TokensOf
        <4>3. what[c] # "whip" => carry[c] # NoToken
          BY DEF Rotate, IInv, Stages
        <4> QED BY <1>1, <2>7, <4>1, <4>2, <4>3 DEF IInv, TokensApart
      <3> QED BY <3>1, <3>2 DEF Rotate, TokenUsedOnce
    <2> QED BY <2>5, <2>6, <2>8, <2>9 DEF TokensApart
  <1>6. Stages' /\ OnlyOwnerPublishes'
    BY <1>1 DEF Rotate, IInv, Types, Stages, MayCall, OnlyOwnerPublishes
  <1>7. StoreKeeps'
    <2>1. \A v \in User : Active(v)' = Active(v)
      BY <1>1 DEF Rotate, Active, IInv, Types
    <2>2. c \in Active(u)
      BY DEF Rotate, Active
    <2>3. \A v \in User \ {u} : c \notin Active(v) /\ data'[v] = data[v]
      BY <1>1 DEF Active, IInv, Types
    <2>4. data'[u] = token /\ fresh'[c] = token /\ \A d \in Call \ {c} : fresh'[d] = fresh[d]
      BY <1>1 DEF IInv, Types
    <2>5. \A v \in User : Active(v) \subseteq Call
      BY DEF Active
    <2>6. ASSUME u \notin confused'
          PROVE  \A d \in Active(u) : d = c
      BY <2>2, <2>6 DEF Rotate, IInv, StoreKeeps
    <2>7. \A v \in User \ {u} : v \notin confused' => v \notin confused
      BY DEF Rotate
    <2> QED BY <1>1, <1>2, <2>1, <2>2, <2>3, <2>4, <2>5, <2>6, <2>7 DEF IInv, StoreKeeps, Keeps
  <1> QED BY <1>3, <1>4, <1>5, <1>6, <1>7 DEF IInv

\* A request goes on.
LEMMA GoStep ==
  ASSUME IInv, NEW c \in Call, UNCHANGED <<unhandled, published>>,
         \/ pc[c] = "check" /\ carry[c] # NoToken /\ Go(c, "rotate")
         \/ pc[c] = "find" /\ what[c] = "whip" /\ Go(c, "rotate")
         \/ pc[c] = "find" /\ what[c] # "whip" /\ MayCall(c) /\ Go(c, "lobby")
  PROVE  IInv'
  <1>1. /\ UNCHANGED <<client, who, what, carry, fresh, confused, data, clock, issued, sent, spent>>
        /\ pc' = [pc EXCEPT ![c] = "rotate"] \/ pc' = [pc EXCEPT ![c] = "lobby"]
        /\ pc[c] # "idle"
    BY DEF Go
  <1>2. Types'
    BY <1>1 DEF IInv, Types
  <1>3. OneTokenPerRequest'
    <2>1. Unrotated' \subseteq Unrotated
      BY DEF Go, Unrotated, IInv, Types
    <2> QED BY <2>1, CountKept
  <1>4. TokensApart'
    <2>1. \A u \in User : TokensOf(u)' = TokensOf(u)
      BY <1>1 DEF TokensOf
    <2> QED BY <1>1, <2>1, ApartKept
  <1>5. Stages' /\ OnlyOwnerPublishes'
    BY DEF Go, IInv, Types, Stages, MayCall, OnlyOwnerPublishes
  <1>6. StoreKeeps'
    <2>1. \A u \in User : Active(u)' = Active(u)
      BY <1>1 DEF Active, IInv, Types
    <2> QED BY <1>1, <2>1 DEF IInv, StoreKeeps, Keeps
  <1> QED BY <1>2, <1>3, <1>4, <1>5, <1>6 DEF IInv

\* whip starts its session, or has written its header.
LEMMA StartSessionStep ==
  ASSUME IInv, NEW c \in Call, StartSession(c)
  PROVE  IInv'
  <1>1. /\ UNCHANGED <<client, who, what, carry, fresh, confused, data, clock, expired, gcTs, issued, sent,
                        spent, published>>
        /\ pc[c] = "session" /\ pc' = [pc EXCEPT ![c] = "find"]
    BY DEF StartSession
  <1>2. Types'
    BY <1>1 DEF IInv, Types
  <1>3. OneTokenPerRequest'
    <2>1. Unrotated' \subseteq Unrotated
      BY <1>1 DEF Unrotated, IInv, Types
    <2> QED BY <1>1, <2>1, CountKept
  <1>4. TokensApart'
    <2>1. \A u \in User : TokensOf(u)' = TokensOf(u)
      BY <1>1 DEF TokensOf
    <2> QED BY <1>1, <2>1, ApartKept
  <1>5. Stages' /\ OnlyOwnerPublishes'
    BY <1>1 DEF IInv, Types, Stages, MayCall, OnlyOwnerPublishes
  <1>6. StoreKeeps'
    <2>1. \A u \in User : Active(u)' = Active(u)
      BY <1>1 DEF Active, IInv, Types
    <2> QED BY <1>1, <2>1 DEF IInv, StoreKeeps, Keeps
  <1> QED BY <1>2, <1>3, <1>4, <1>5, <1>6 DEF IInv

\* A request ends: the client has the token the store keeps, or is confused.
LEMMA AnswerStep ==
  ASSUME IInv, NEW c \in Call, UNCHANGED unhandled, pc[c] # "idle", Answer(c),
         \/ UNCHANGED published
         \/ pc[c] = "lobby" /\ what[c] \in {"start", "stop"} /\ published' = published \cup {who[c]}
  PROVE  IInv'
  <1> DEFINE u == who[c]
  <1>1. /\ u \in User /\ fresh[c] \in Token
        /\ pc' = [pc EXCEPT ![c] = "idle"] /\ who' = [who EXCEPT ![c] = Owner]
        /\ what' = [what EXCEPT ![c] = "whip"]
        /\ carry' = [carry EXCEPT ![c] = NoToken] /\ fresh' = [fresh EXCEPT ![c] = NoToken]
        /\ UNCHANGED <<jwt, data, clock, expired, gcTs, issued, sent, spent>>
    BY AnswerOutcome DEF Return, IInv, Types
  <1>2. Types'
    <2>1. cookie' \subseteq jwt'
      BY <1>1, AnswerOutcome DEF IInv, Types, Stages
    <2>2. held' \in [User -> Token]
      BY <1>1, AnswerOutcome DEF IInv, Types
    <2>3. NoToken \in Token
      BY DEF Token, NoToken
    <2> QED BY <1>1, <2>1, <2>2, <2>3 DEF IInv, Types
  <1>3. OneTokenPerRequest'
    <2>1. Unrotated' \subseteq Unrotated
      BY <1>1 DEF Unrotated, IInv, Types
    <2> QED BY <1>1, <2>1, CountKept
  <1>4. TokensApart'
    <2>1. held'[u] \in {held[u], fresh[c]} /\ \A v \in User \ {u} : held'[v] = held[v]
      BY <1>1, AnswerOutcome DEF IInv, Types
    <2>2. \A v \in User : TokensOf(v)' \subseteq TokensOf(v) \cup {NoToken}
      BY <1>1, <2>1 DEF TokensOf, IInv, Types
    <2> QED BY <1>1, <2>2, ApartKept
  <1>5. Stages'
    BY <1>1 DEF IInv, Types, Stages, MayCall
  <1>6. OnlyOwnerPublishes'
    BY DEF IInv, Stages, MayCall, OnlyOwnerPublishes
  <1>7. StoreKeeps'
    <2>1. \A v \in User : Active(v)' = Active(v) \ {c}
      BY <1>1 DEF Active, IInv, Types
    <2>2. \A v \in User : \A d \in Active(v) \ {c} : fresh'[d] = fresh[d]
      BY <1>1 DEF Active, IInv, Types
    <2>3. c \in Active(u) /\ \A v \in User \ {u} : c \notin Active(v)
      BY DEF Active
    <2> SUFFICES ASSUME NEW v \in User \ confused'
                 PROVE  /\ \A e, d \in Active(v)' : e = d
                        /\ \A d \in Active(v)' : fresh'[d] # NoToken => Keeps(v, fresh'[d])
                        /\ held'[v] # NoToken /\ (\A d \in Active(v)' : fresh'[d] = NoToken) => Keeps(v, held'[v])
      BY <1>1 DEF StoreKeeps, Keeps
    <2>4. v \notin confused
      BY AnswerOutcome
    <2>5. CASE v = u
      <3>1. Active(v) = {c} /\ Active(v)' = {}
        BY <2>1, <2>3, <2>4, <2>5 DEF IInv, StoreKeeps
      <3>2. held'[v] = IF fresh[c] = NoToken THEN held[v] ELSE fresh[c]
        BY <1>1, <2>5, AnswerOutcome DEF IInv, Types
      <3> QED BY <2>4, <3>1, <3>2 DEF IInv, StoreKeeps
    <2>6. CASE v # u
      <3>1. Active(v)' = Active(v)
        BY <2>1, <2>3, <2>6
      <3>2. held'[v] = held[v]
        BY <1>1, <2>6, AnswerOutcome DEF IInv, Types
      <3> QED BY <2>2, <2>3, <2>4, <2>6, <3>1, <3>2 DEF IInv, StoreKeeps
    <2> QED BY <2>5, <2>6
  <1> QED BY <1>2, <1>3, <1>4, <1>5, <1>6, <1>7 DEF IInv

LEMMA HandlerStepInv ==
  ASSUME IInv, NEW c \in Call, HandlerStep(c)
  PROVE  IInv'
  BY GoStep, AnswerStep DEF HandlerStep

-----------------------------------------------------------------------------
LEMMA InitInv == Init => IInv
  <1> SUFFICES ASSUME Init PROVE IInv
    OBVIOUS
  <1>1. Types
    BY DEF Init, Types, Token, NoToken
  <1>2. OneTokenPerRequest
    <2>1. Unrotated = {}
      BY DEF Init, Unrotated
    <2> QED BY <2>1, FS_EmptySet DEF Init, OneTokenPerRequest
  <1>3. TokensApart
    <2>1. \A u \in User : TokensOf(u) \subseteq {NoToken}
      BY DEF Init, TokensOf
    <2> QED BY <2>1 DEF Init, TokensApart, TokenUsedOnce, NoToken
  <1>4. Stages /\ OnlyOwnerPublishes /\ StoreKeeps
    BY DEF Init, Stages, OnlyOwnerPublishes, StoreKeeps, Active
  <1> QED BY <1>1, <1>2, <1>3, <1>4 DEF IInv

LEMMA NextInv == IInv /\ [Next]_vars => IInv'
  <1> SUFFICES ASSUME IInv, [Next]_vars PROVE IInv'
    OBVIOUS
  <1>1. CASE UNCHANGED vars
    <2>1. UNCHANGED <<jwt, cookie, held, pc, who, what, carry, fresh, data, clock, expired, gcTs,
                      issued, sent, spent, confused, published>>
      BY <1>1 DEF vars, call
    <2>2. Types' /\ Stages' /\ StoreKeeps' /\ OnlyOwnerPublishes'
      BY <2>1 DEF IInv, Types, Stages, MayCall, StoreKeeps, Active, Keeps, OnlyOwnerPublishes
    <2>3. Unrotated' = Unrotated /\ \A u \in User : TokensOf(u)' = TokensOf(u)
      BY <2>1 DEF Unrotated, TokensOf
    <2> QED BY <2>1, <2>2, <2>3, CountKept, ApartKept DEF IInv
  <1>2. CASE Tick \/ GcScan \/ GcSweep
    BY <1>2, TickStep, GcScanStep, GcSweepStep
  <1>3. CASE \E u \in User : Authenticate(u)
    BY <1>3, AuthenticateStep
  <1>4. ASSUME NEW c \in Call, \E u \in User, w \in Guarded \cup {"whip"} : Send(c, u, w)
        PROVE  IInv'
    BY <1>4, SendStep
  <1>5. ASSUME NEW c \in Call, CheckToken(c) \/ Rotate(c) \/ StartSession(c)
        PROVE  IInv'
    BY <1>5, CheckTokenIsHandlerStep, HandlerStepInv, RotateStep, StartSessionStep
  <1>6. ASSUME NEW c \in Call,
               Whip(c) \/ Whep(c) \/ WhipDelete(c) \/ PublishLiveStream(c) \/ StopLiveStream(c)
                 \/ GetStatusOfLiveStream(c)
        PROVE  IInv'
    BY <1>6, HandlersAreHandlerSteps, HandlerStepInv
  <1> QED BY <1>1, <1>2, <1>3, <1>4, <1>5, <1>6 DEF Next

LEMMA Inductive == Spec => []IInv
  BY InitInv, NextInv, PTL DEF Spec

-----------------------------------------------------------------------------
\* The store of request tokens is well formed whatever requests overlap: no more tokens
\* than requests, and a token that let a request in and was replaced
\* (SetNewRequestToken) never comes back.
THEOREM TokensCorrect == Spec => []TokensOK
  <1>1. IInv => TokensOK
    <2> SUFFICES ASSUME IInv PROVE TokensOK
      OBVIOUS
    <2>1. \A u \in User : data[u].n \in 0..issued /\ held[u].n \in 0..issued
      <3>1. \A u \in User : data[u] \in TokensOf(u) /\ held[u] \in TokensOf(u)
        BY DEF TokensOf
      <3>2. \A u \in User : data[u].n \in Nat /\ held[u].n \in Nat
        BY DEF IInv, Types, Token
      <3> QED BY <3>1, <3>2 DEF IInv, Types, TokensApart
    <2>2. issued <= sent
      <3>1. Cardinality(Unrotated) \in Nat
        BY FS_CardinalityType DEF IInv, OneTokenPerRequest
      <3> QED BY <3>1 DEF IInv, Types, OneTokenPerRequest
    <2>3. expired # {} => gcTs \in 0..MaxTime
      BY DEF IInv, Types
    <2>4. cookie \subseteq jwt /\ jwt \subseteq User
      BY DEF IInv, Types
    <2>5. \A c \in Call : pc[c] \in {"idle", "session", "check", "rotate", "find", "lobby"}
      BY DEF IInv, Types
    <2>6. TokenUsedOnce
      BY DEF IInv, TokensApart
    <2> QED BY <2>1, <2>2, <2>3, <2>4, <2>5, <2>6 DEF TokensOK, TypeOK
  <1> QED BY <1>1, Inductive, PTL

\* A client that waits for its responses is let in with the token it received last,
\* until that expires: no handler and no pass of the collector takes it from the store.
\* A client that missed a token, be it because whip had written its header, is in step
\* again with the next request of its own that is served alone and answered.
THEOREM LastTokenCorrect == Spec => []LastTokenWorks
  <1>1. IInv => LastTokenWorks
    BY DEF IInv, LastTokenWorks, StoreKeeps, Keeps
  <1> QED BY <1>1, Inductive, PTL

\* The lobby starts or stops a live stream for its owner only, though
\* readingRequestData reports no error when somebody else asks.
THEOREM OwnerPublishesCorrect == Spec => []OnlyOwnerPublishes
  <1>1. IInv => OnlyOwnerPublishes
    BY DEF IInv
  <1> QED BY <1>1, Inductive, PTL
=============================================================================
