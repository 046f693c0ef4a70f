---------------------------- MODULE LobbyProofs ----------------------------
(***************************************************************************)
(* Proofs about the lobby life cycle, for any number of lobby objects,      *)
(* sessions, users, requests and lost connections; the last part shows that *)
(* it implements Rooms.                                                     *)
(***************************************************************************)
EXTENDS Lobby, TLAPS

JoinWork == {"create", "insert"}
CmdWork  == {"cmd", "exec", "answer"}

\* A lobby object that was not created yet has neither sequencer nor connector,
\* and is not the one the repository holds.
UnbornIsIdle ==
  \A l \in Lobby : ctx[l] = "unborn" => seq[l] = "off" /\ pc[l] = "idle" /\ lobbies # l

\* A caller between getOrCreateLobby and its result holds a lobby object.
CallerHolds ==
  \A c \in Caller :
    pc[c] \in {"join", "joining", "build", "run", "running"} => held[c] \in Lobby

\* Who a sequencer serves, and in which state that goroutine is.
Served ==
  \A l \in Lobby :
    /\ seq[l] \in JoinWork =>
         serving[l] \in Caller /\ held[serving[l]] = l /\ pc[serving[l]] = "joining"
    /\ seq[l] \in CmdWork =>
         serving[l] \in Caller /\ held[serving[l]] = l /\ pc[serving[l]] \in {"running", "failed"}
    /\ seq[l] = "reply" =>
         serving[l] \in Watcher /\ slobby[wsess[serving[l]]] = l
                                /\ wpc[serving[l]] \in {"stop", "wait"}

\* Sessions that somebody refers to were created in some lobby object.
SessionsBorn ==
  /\ \A w \in Watcher : wpc[w] # "idle" => wsess[w] \in Session /\ slobby[wsess[w]] \in Lobby
  /\ \A s \in Session : ingress[s] => slobby[s] \in Lobby
  /\ \A s \in registry : slobby[s] \in Lobby /\ ctx[slobby[s]] # "unborn"

\* SessionRepository.New keeps one session per user in a registry.
UserUnique ==
  \A s, t \in registry : slobby[s] = slobby[t] /\ suser[s] = suser[t] => s = t

\* While the garbage loop holds the lock, the sequencer that sent the item waits for
\* it and its registry is empty.
DeletingIsQuiet ==
  deleting # NoLobby => seq[deleting] = "announce" /\ Registered(deleting) = {}

\* The inductive invariant.
IInv ==
  /\ TypeOK
  /\ OpenLobbyIsCurrent
  /\ WorksOnlyWhileOpen
  /\ RunningFlagMatches
  /\ RendezvousMatched
  /\ UnbornIsIdle
  /\ CallerHolds
  /\ Served
  /\ SessionsBorn
  /\ UserUnique
  /\ DeletingIsQuiet
-----------------------------------------------------------------------------

USE DEF Running, lobbyVars, seqVars, sessionVars, callVars, watchVars

\* NewLobby preserves the inductive invariant.
LEMMA NewLobbyStep ==
  ASSUME IInv, NEW c \in Request, NEW u \in User, NEW k \in {"ingress", "egress"}, NEW l \in Lobby,
         pc[c] = "idle", lobbies = NoLobby, deleting = NoLobby, NewLobby(c, u, k, l)
  PROVE  IInv'
  <1>1. pc[l] = "idle" /\ seq[l] = "off" /\ c # l
    BY LobbyAssumption DEF IInv, TypeOK, UnbornIsIdle, NewLobby, Caller
  <1>2. TypeOK'
    BY LobbyAssumption, <1>1 DEF IInv, TypeOK, Caller, Member, SeqState, CallState,
      Kind, NewLobby, AfterLookup
  <1>3. OpenLobbyIsCurrent' /\ WorksOnlyWhileOpen' /\ RunningFlagMatches'
    BY LobbyAssumption, <1>1 DEF IInv, TypeOK, OpenLobbyIsCurrent, WorksOnlyWhileOpen,
      RunningFlagMatches, NewLobby, AfterLookup
  <1>4. RendezvousMatched'
    BY LobbyAssumption, <1>1 DEF IInv, TypeOK, RendezvousMatched, Served, JoinWork,
      CmdWork, Caller, CallerHolds, SessionsBorn, NewLobby, AfterLookup
  <1>5. Served'
    BY LobbyAssumption, <1>1 DEF IInv, TypeOK, Served, RendezvousMatched, JoinWork,
      CmdWork, Caller, CallerHolds, SessionsBorn, NewLobby, AfterLookup
  <1>6. UnbornIsIdle' /\ CallerHolds'
    BY LobbyAssumption, <1>1 DEF IInv, TypeOK, UnbornIsIdle, CallerHolds, Served,
      JoinWork, CmdWork, Caller, NewLobby, AfterLookup
  <1>7. SessionsBorn' /\ UserUnique' /\ DeletingIsQuiet'
    BY LobbyAssumption, <1>1 DEF IInv, TypeOK, SessionsBorn, UserUnique,
      DeletingIsQuiet, Registered, NewLobby, AfterLookup
  <1> QED BY <1>2, <1>3, <1>4, <1>5, <1>6, <1>7 DEF IInv

\* JoinSend preserves the inductive invariant.
LEMMA JoinSendStep ==
  ASSUME IInv, NEW c \in Caller, JoinSend(c)
  PROVE  IInv'
  <1>1. TypeOK'
    BY LobbyAssumption DEF IInv, TypeOK, Caller, Member, SeqState, CallState, Kind,
      JoinSend, HandOver, Receptive
  <1>2. OpenLobbyIsCurrent' /\ WorksOnlyWhileOpen' /\ RunningFlagMatches'
    BY LobbyAssumption DEF IInv, TypeOK, OpenLobbyIsCurrent, WorksOnlyWhileOpen,
      RunningFlagMatches, JoinSend, HandOver, Receptive
  <1>3. RendezvousMatched'
    BY LobbyAssumption DEF IInv, TypeOK, RendezvousMatched, Served, JoinWork, CmdWork,
      Caller, CallerHolds, SessionsBorn, JoinSend, HandOver, Receptive
  <1>4. Served'
    BY LobbyAssumption DEF IInv, TypeOK, Served, RendezvousMatched, JoinWork, CmdWork,
      Caller, CallerHolds, SessionsBorn, JoinSend, HandOver, Receptive
  <1>5. UnbornIsIdle' /\ CallerHolds'
    BY LobbyAssumption DEF IInv, TypeOK, UnbornIsIdle, CallerHolds, Served, JoinWork,
      CmdWork, Caller, JoinSend, HandOver, Receptive
  <1>6. SessionsBorn' /\ UserUnique' /\ DeletingIsQuiet'
    BY LobbyAssumption DEF IInv, TypeOK, SessionsBorn, UserUnique, DeletingIsQuiet,
      Registered, JoinSend, HandOver, Receptive
  <1> QED BY <1>1, <1>2, <1>3, <1>4, <1>5, <1>6 DEF IInv

\* JoinClosed preserves the inductive invariant.
LEMMA JoinClosedStep ==
  ASSUME IInv, NEW c \in Caller, JoinClosed(c)
  PROVE  IInv'
  <1>1. TypeOK'
    BY LobbyAssumption DEF IInv, TypeOK, Caller, Member, SeqState, CallState, Kind,
      JoinClosed, GiveUp
  <1>2. OpenLobbyIsCurrent' /\ WorksOnlyWhileOpen' /\ RunningFlagMatches'
    BY LobbyAssumption DEF IInv, TypeOK, OpenLobbyIsCurrent, WorksOnlyWhileOpen,
      RunningFlagMatches, JoinClosed, GiveUp
  <1>3. RendezvousMatched'
    BY LobbyAssumption DEF IInv, TypeOK, RendezvousMatched, Served, JoinWork, CmdWork,
      Caller, CallerHolds, SessionsBorn, JoinClosed, GiveUp
  <1>4. Served'
    BY LobbyAssumption DEF IInv, TypeOK, Served, RendezvousMatched, JoinWork, CmdWork,
      Caller, CallerHolds, SessionsBorn, JoinClosed, GiveUp
  <1>5. UnbornIsIdle' /\ CallerHolds'
    BY LobbyAssumption DEF IInv, TypeOK, UnbornIsIdle, CallerHolds, Served, JoinWork,
      CmdWork, Caller, JoinClosed, GiveUp
  <1>6. SessionsBorn' /\ UserUnique' /\ DeletingIsQuiet'
    BY LobbyAssumption DEF IInv, TypeOK, SessionsBorn, UserUnique, DeletingIsQuiet,
      Registered, JoinClosed, GiveUp
  <1> QED BY <1>1, <1>2, <1>3, <1>4, <1>5, <1>6 DEF IInv

\* JoinTimeout preserves the inductive invariant.
LEMMA JoinTimeoutStep ==
  ASSUME IInv, NEW c \in Caller, JoinTimeout(c)
  PROVE  IInv'
  <1>1. TypeOK'
    BY LobbyAssumption DEF IInv, TypeOK, Caller, Member, SeqState, CallState, Kind,
      JoinTimeout, GiveUp
  <1>2. OpenLobbyIsCurrent' /\ WorksOnlyWhileOpen' /\ RunningFlagMatches'
    BY LobbyAssumption DEF IInv, TypeOK, OpenLobbyIsCurrent, WorksOnlyWhileOpen,
      RunningFlagMatches, JoinTimeout, GiveUp
  <1>3. RendezvousMatched'
    BY LobbyAssumption DEF IInv, TypeOK, RendezvousMatched, Served, JoinWork, CmdWork,
      Caller, CallerHolds, SessionsBorn, JoinTimeout, GiveUp
  <1>4. Served'
    BY LobbyAssumption DEF IInv, TypeOK, Served, RendezvousMatched, JoinWork, CmdWork,
      Caller, CallerHolds, SessionsBorn, JoinTimeout, GiveUp
  <1>5. UnbornIsIdle' /\ CallerHolds'
    BY LobbyAssumption DEF IInv, TypeOK, UnbornIsIdle, CallerHolds, Served, JoinWork,
      CmdWork, Caller, JoinTimeout, GiveUp
  <1>6. SessionsBorn' /\ UserUnique' /\ DeletingIsQuiet'
    BY LobbyAssumption DEF IInv, TypeOK, SessionsBorn, UserUnique, DeletingIsQuiet,
      Registered, JoinTimeout, GiveUp
  <1> QED BY <1>1, <1>2, <1>3, <1>4, <1>5, <1>6 DEF IInv

\* BuildIngress preserves the inductive invariant.
LEMMA BuildIngressStep ==
  ASSUME IInv, NEW c \in Caller, BuildIngress(c)
  PROVE  IInv'
  <1>1. TypeOK'
    BY LobbyAssumption DEF IInv, TypeOK, Caller, Member, SeqState, CallState, Kind,
      BuildIngress, Login
  <1>2. OpenLobbyIsCurrent' /\ WorksOnlyWhileOpen' /\ RunningFlagMatches'
    BY LobbyAssumption DEF IInv, TypeOK, OpenLobbyIsCurrent, WorksOnlyWhileOpen,
      RunningFlagMatches, BuildIngress, Login
  <1>3. RendezvousMatched'
    BY LobbyAssumption DEF IInv, TypeOK, RendezvousMatched, Served, JoinWork, CmdWork,
      Caller, CallerHolds, SessionsBorn, BuildIngress, Login
  <1>4. Served'
    BY LobbyAssumption DEF IInv, TypeOK, Served, RendezvousMatched, JoinWork, CmdWork,
      Caller, CallerHolds, SessionsBorn, BuildIngress, Login
  <1>5. UnbornIsIdle' /\ CallerHolds'
    BY LobbyAssumption DEF IInv, TypeOK, UnbornIsIdle, CallerHolds, Served, JoinWork,
      CmdWork, Caller, BuildIngress, Login
  <1>6. SessionsBorn' /\ UserUnique' /\ DeletingIsQuiet'
    BY LobbyAssumption DEF IInv, TypeOK, SessionsBorn, UserUnique, DeletingIsQuiet,
      Registered, BuildIngress, Login
  <1> QED BY <1>1, <1>2, <1>3, <1>4, <1>5, <1>6 DEF IInv

\* RunSend preserves the inductive invariant.
LEMMA RunSendStep ==
  ASSUME IInv, NEW c \in Caller, RunSend(c)
  PROVE  IInv'
  <1>1. TypeOK'
    BY LobbyAssumption DEF IInv, TypeOK, Caller, Member, SeqState, CallState, Kind,
      RunSend, HandOver, Receptive
  <1>2. OpenLobbyIsCurrent' /\ WorksOnlyWhileOpen' /\ RunningFlagMatches'
    BY LobbyAssumption DEF IInv, TypeOK, OpenLobbyIsCurrent, WorksOnlyWhileOpen,
      RunningFlagMatches, RunSend, HandOver, Receptive
  <1>3. RendezvousMatched'
    BY LobbyAssumption DEF IInv, TypeOK, RendezvousMatched, Served, JoinWork, CmdWork,
      Caller, CallerHolds, SessionsBorn, RunSend, HandOver, Receptive
  <1>4. Served'
    BY LobbyAssumption DEF IInv, TypeOK, Served, RendezvousMatched, JoinWork, CmdWork,
      Caller, CallerHolds, SessionsBorn, RunSend, HandOver, Receptive
  <1>5. UnbornIsIdle' /\ CallerHolds'
    BY LobbyAssumption DEF IInv, TypeOK, UnbornIsIdle, CallerHolds, Served, JoinWork,
      CmdWork, Caller, RunSend, HandOver, Receptive
  <1>6. SessionsBorn' /\ UserUnique' /\ DeletingIsQuiet'
    BY LobbyAssumption DEF IInv, TypeOK, SessionsBorn, UserUnique, DeletingIsQuiet,
      Registered, RunSend, HandOver, Receptive
  <1> QED BY <1>1, <1>2, <1>3, <1>4, <1>5, <1>6 DEF IInv

\* RunClosed preserves the inductive invariant.
LEMMA RunClosedStep ==
  ASSUME IInv, NEW c \in Caller, RunClosed(c)
  PROVE  IInv'
  <1>1. TypeOK'
    BY LobbyAssumption DEF IInv, TypeOK, Caller, Member, SeqState, CallState, Kind,
      RunClosed, GiveUp
  <1>2. OpenLobbyIsCurrent' /\ WorksOnlyWhileOpen' /\ RunningFlagMatches'
    BY LobbyAssumption DEF IInv, TypeOK, OpenLobbyIsCurrent, WorksOnlyWhileOpen,
      RunningFlagMatches, RunClosed, GiveUp
  <1>3. RendezvousMatched'
    BY LobbyAssumption DEF IInv, TypeOK, RendezvousMatched, Served, JoinWork, CmdWork,
      Caller, CallerHolds, SessionsBorn, RunClosed, GiveUp
  <1>4. Served'
    BY LobbyAssumption DEF IInv, TypeOK, Served, RendezvousMatched, JoinWork, CmdWork,
      Caller, CallerHolds, SessionsBorn, RunClosed, GiveUp
  <1>5. UnbornIsIdle' /\ CallerHolds'
    BY LobbyAssumption DEF IInv, TypeOK, UnbornIsIdle, CallerHolds, Served, JoinWork,
      CmdWork, Caller, RunClosed, GiveUp
  <1>6. SessionsBorn' /\ UserUnique' /\ DeletingIsQuiet'
    BY LobbyAssumption DEF IInv, TypeOK, SessionsBorn, UserUnique, DeletingIsQuiet,
      Registered, RunClosed, GiveUp
  <1> QED BY <1>1, <1>2, <1>3, <1>4, <1>5, <1>6 DEF IInv

\* RunTimeout preserves the inductive invariant.
LEMMA RunTimeoutStep ==
  ASSUME IInv, NEW c \in Caller, RunTimeout(c)
  PROVE  IInv'
  <1>1. TypeOK'
    BY LobbyAssumption DEF IInv, TypeOK, Caller, Member, SeqState, CallState, Kind,
      RunTimeout, GiveUp
  <1>2. OpenLobbyIsCurrent' /\ WorksOnlyWhileOpen' /\ RunningFlagMatches'
    BY LobbyAssumption DEF IInv, TypeOK, OpenLobbyIsCurrent, WorksOnlyWhileOpen,
      RunningFlagMatches, RunTimeout, GiveUp
  <1>3. RendezvousMatched'
    BY LobbyAssumption DEF IInv, TypeOK, RendezvousMatched, Served, JoinWork, CmdWork,
      Caller, CallerHolds, SessionsBorn, RunTimeout, GiveUp
  <1>4. Served'
    BY LobbyAssumption DEF IInv, TypeOK, Served, RendezvousMatched, JoinWork, CmdWork,
      Caller, CallerHolds, SessionsBorn, RunTimeout, GiveUp
  <1>5. UnbornIsIdle' /\ CallerHolds'
    BY LobbyAssumption DEF IInv, TypeOK, UnbornIsIdle, CallerHolds, Served, JoinWork,
      CmdWork, Caller, RunTimeout, GiveUp
  <1>6. SessionsBorn' /\ UserUnique' /\ DeletingIsQuiet'
    BY LobbyAssumption DEF IInv, TypeOK, SessionsBorn, UserUnique, DeletingIsQuiet,
      Registered, RunTimeout, GiveUp
  <1> QED BY <1>1, <1>2, <1>3, <1>4, <1>5, <1>6 DEF IInv

\* CreateCheck preserves the inductive invariant.
LEMMA CreateCheckStep ==
  ASSUME IInv, NEW l \in Lobby, CreateCheck(l)
  PROVE  IInv'
  <1>1. TypeOK'
    BY LobbyAssumption DEF IInv, TypeOK, Caller, Member, SeqState, CallState, Kind,
      CreateCheck, AnswerJoin
  <1>2. OpenLobbyIsCurrent' /\ WorksOnlyWhileOpen' /\ RunningFlagMatches'
    BY LobbyAssumption DEF IInv, TypeOK, OpenLobbyIsCurrent, WorksOnlyWhileOpen,
      RunningFlagMatches, CreateCheck, AnswerJoin
  <1>3. RendezvousMatched'
    BY LobbyAssumption DEF IInv, TypeOK, RendezvousMatched, Served, JoinWork, CmdWork,
      Caller, CallerHolds, SessionsBorn, CreateCheck, AnswerJoin
  <1>4. Served'
    BY LobbyAssumption DEF IInv, TypeOK, Served, RendezvousMatched, JoinWork, CmdWork,
      Caller, CallerHolds, SessionsBorn, CreateCheck, AnswerJoin
  <1>5. UnbornIsIdle' /\ CallerHolds'
    BY LobbyAssumption DEF IInv, TypeOK, UnbornIsIdle, CallerHolds, Served, JoinWork,
      CmdWork, Caller, CreateCheck, AnswerJoin
  <1>6. SessionsBorn' /\ UserUnique' /\ DeletingIsQuiet'
    BY LobbyAssumption DEF IInv, TypeOK, SessionsBorn, UserUnique, DeletingIsQuiet,
      Registered, CreateCheck, AnswerJoin
  <1> QED BY <1>1, <1>2, <1>3, <1>4, <1>5, <1>6 DEF IInv

\* CreateInsert preserves the inductive invariant.
LEMMA CreateInsertStep ==
  ASSUME IInv, NEW l \in Lobby, CreateInsert(l)
  PROVE  IInv'
  <1>1. serving[l] \in Caller /\ held[serving[l]] = l
    BY LobbyAssumption DEF IInv, TypeOK, CreateInsert, Served, JoinWork, CmdWork, Caller
  <1>2. ctx[l] = "open"
    BY LobbyAssumption, <1>1 DEF IInv, TypeOK, CreateInsert, WorksOnlyWhileOpen
  <1>3. TypeOK'
    BY LobbyAssumption, <1>1, <1>2 DEF IInv, TypeOK, Caller, Member, SeqState,
      CallState, Kind, CreateInsert, AnswerJoin, FindByUserId, Registered
  <1>4. OpenLobbyIsCurrent' /\ WorksOnlyWhileOpen' /\ RunningFlagMatches'
    BY LobbyAssumption, <1>1, <1>2 DEF IInv, TypeOK, OpenLobbyIsCurrent,
      WorksOnlyWhileOpen, RunningFlagMatches, CreateInsert, AnswerJoin, FindByUserId,
      Registered
  <1>5. RendezvousMatched'
    BY LobbyAssumption, <1>1, <1>2 DEF IInv, TypeOK, RendezvousMatched, Served,
      JoinWork, CmdWork, Caller, CallerHolds, SessionsBorn, CreateInsert, AnswerJoin,
      FindByUserId, Registered
  <1>6. Served'
    BY LobbyAssumption, <1>1, <1>2 DEF IInv, TypeOK, Served, RendezvousMatched,
      JoinWork, CmdWork, Caller, CallerHolds, SessionsBorn, CreateInsert, AnswerJoin,
      FindByUserId, Registered
  <1>7. UnbornIsIdle' /\ CallerHolds'
    BY LobbyAssumption, <1>1, <1>2 DEF IInv, TypeOK, UnbornIsIdle, CallerHolds, Served,
      JoinWork, CmdWork, Caller, CreateInsert, AnswerJoin, FindByUserId, Registered
  <1>8. SessionsBorn' /\ UserUnique' /\ DeletingIsQuiet'
    BY LobbyAssumption, <1>1, <1>2 DEF IInv, TypeOK, SessionsBorn, UserUnique,
      DeletingIsQuiet, Registered, CreateInsert, AnswerJoin, FindByUserId
  <1> QED BY <1>3, <1>4, <1>5, <1>6, <1>7, <1>8 DEF IInv

\* CmdCheck preserves the inductive invariant.
LEMMA CmdCheckStep ==
  ASSUME IInv, NEW l \in Lobby, CmdCheck(l)
  PROVE  IInv'
  <1>1. TypeOK'
    BY LobbyAssumption DEF IInv, TypeOK, Caller, Member, SeqState, CallState, Kind,
      CmdCheck, FinishCmd
  <1>2. OpenLobbyIsCurrent' /\ WorksOnlyWhileOpen' /\ RunningFlagMatches'
    BY LobbyAssumption DEF IInv, TypeOK, OpenLobbyIsCurrent, WorksOnlyWhileOpen,
      RunningFlagMatches, CmdCheck, FinishCmd
  <1>3. RendezvousMatched'
    BY LobbyAssumption DEF IInv, TypeOK, RendezvousMatched, Served, JoinWork, CmdWork,
      Caller, CallerHolds, SessionsBorn, CmdCheck, FinishCmd
  <1>4. Served'
    BY LobbyAssumption DEF IInv, TypeOK, Served, RendezvousMatched, JoinWork, CmdWork,
      Caller, CallerHolds, SessionsBorn, CmdCheck, FinishCmd
  <1>5. UnbornIsIdle' /\ CallerHolds'
    BY LobbyAssumption DEF IInv, TypeOK, UnbornIsIdle, CallerHolds, Served, JoinWork,
      CmdWork, Caller, CmdCheck, FinishCmd
  <1>6. SessionsBorn' /\ UserUnique' /\ DeletingIsQuiet'
    BY LobbyAssumption DEF IInv, TypeOK, SessionsBorn, UserUnique, DeletingIsQuiet,
      Registered, CmdCheck, FinishCmd
  <1> QED BY <1>1, <1>2, <1>3, <1>4, <1>5, <1>6 DEF IInv

\* CmdExec preserves the inductive invariant.
LEMMA CmdExecStep ==
  ASSUME IInv, NEW l \in Lobby, CmdExec(l)
  PROVE  IInv'
  <1>1. TypeOK'
    <2>1. pc' \in [Caller -> CallState] /\ seq' \in [Lobby -> SeqState]
      <3>1. CASE \E result \in {"ok", "failed"} : FinishCmd(l, result)
        <4>1. PICK result \in {"ok", "failed"} : FinishCmd(l, result)
          BY <3>1
        <4>2. pc' \in [Caller -> CallState]
          BY <4>1 DEF IInv, TypeOK, FinishCmd, CallState
        <4> QED
          BY <4>1, <4>2 DEF IInv, TypeOK, FinishCmd, SeqState
      <3>2. CASE UNCHANGED pc /\ (seq' = [seq EXCEPT ![l] = "answer"] \/ UNCHANGED seq)
        BY <3>2 DEF IInv, TypeOK, SeqState
      <3> QED
        BY <3>1, <3>2 DEF CmdExec, CreateIngress, CreateEgress, OfferIngress
    <2>2. serving' \in [Lobby -> Caller \cup Watcher \cup {Nobody}]
      BY DEF IInv, TypeOK, CmdExec, FinishCmd, CreateIngress, CreateEgress, OfferIngress
    <2>3. ingress' \in [Session -> BOOLEAN] /\ panicked' \in BOOLEAN
      BY DEF IInv, TypeOK, CmdExec, FinishCmd, CreateIngress, CreateEgress, OfferIngress,
             FindByUserId, Registered
    <2> QED
      BY <2>1, <2>2, <2>3 DEF IInv, TypeOK, CmdExec
  <1>2. OpenLobbyIsCurrent' /\ WorksOnlyWhileOpen' /\ RunningFlagMatches'
    BY LobbyAssumption DEF IInv, TypeOK, OpenLobbyIsCurrent, WorksOnlyWhileOpen,
      RunningFlagMatches, CmdExec, FinishCmd, FindByUserId, Registered, CreateIngress,
      CreateEgress, OfferIngress
  <1>3. RendezvousMatched'
    BY LobbyAssumption DEF IInv, TypeOK, RendezvousMatched, Served, JoinWork, CmdWork,
      Caller, CallerHolds, SessionsBorn, CmdExec, FinishCmd, FindByUserId, Registered,
      CreateIngress, CreateEgress, OfferIngress
  <1>4. Served'
    BY LobbyAssumption DEF IInv, TypeOK, Served, RendezvousMatched, JoinWork, CmdWork,
      Caller, CallerHolds, SessionsBorn, CmdExec, FinishCmd, FindByUserId, Registered,
      CreateIngress, CreateEgress, OfferIngress
  <1>5. UnbornIsIdle' /\ CallerHolds'
    BY LobbyAssumption DEF IInv, TypeOK, UnbornIsIdle, CallerHolds, Served, JoinWork,
      CmdWork, Caller, CmdExec, FinishCmd, FindByUserId, Registered, CreateIngress,
      CreateEgress, OfferIngress
  <1>6. SessionsBorn' /\ UserUnique' /\ DeletingIsQuiet'
    BY LobbyAssumption DEF IInv, TypeOK, SessionsBorn, UserUnique, DeletingIsQuiet,
      Registered, CmdExec, FinishCmd, FindByUserId, CreateIngress, CreateEgress,
      OfferIngress
  <1> QED BY <1>1, <1>2, <1>3, <1>4, <1>5, <1>6 DEF IInv

\* CmdAnswer preserves the inductive invariant.
LEMMA CmdAnswerStep ==
  ASSUME IInv, NEW l \in Lobby, CmdAnswer(l)
  PROVE  IInv'
  <1>1. TypeOK'
    <2>1. PICK result \in {"ok", "failed"} : FinishCmd(l, result)
      BY DEF CmdAnswer
    <2>2. pc' \in [Caller -> CallState]
      BY <2>1 DEF IInv, TypeOK, FinishCmd, CallState
    <2> QED
      BY <2>1, <2>2 DEF IInv, TypeOK, CmdAnswer, FinishCmd, SeqState
  <1>2. OpenLobbyIsCurrent' /\ WorksOnlyWhileOpen' /\ RunningFlagMatches'
    BY LobbyAssumption DEF IInv, TypeOK, OpenLobbyIsCurrent, WorksOnlyWhileOpen,
      RunningFlagMatches, CmdAnswer, FinishCmd
  <1>3. RendezvousMatched'
    BY LobbyAssumption DEF IInv, TypeOK, RendezvousMatched, Served, JoinWork, CmdWork,
      Caller, CallerHolds, SessionsBorn, CmdAnswer, FinishCmd
  <1>4. Served'
    BY LobbyAssumption DEF IInv, TypeOK, Served, RendezvousMatched, JoinWork, CmdWork,
      Caller, CallerHolds, SessionsBorn, CmdAnswer, FinishCmd
  <1>5. UnbornIsIdle' /\ CallerHolds'
    BY LobbyAssumption DEF IInv, TypeOK, UnbornIsIdle, CallerHolds, Served, JoinWork,
      CmdWork, Caller, CmdAnswer, FinishCmd
  <1>6. SessionsBorn' /\ UserUnique' /\ DeletingIsQuiet'
    BY LobbyAssumption DEF IInv, TypeOK, SessionsBorn, UserUnique, DeletingIsQuiet,
      Registered, CmdAnswer, FinishCmd
  <1> QED BY <1>1, <1>2, <1>3, <1>4, <1>5, <1>6 DEF IInv

\* GarbageReply preserves the inductive invariant.
LEMMA GarbageReplyStep ==
  ASSUME IInv, NEW l \in Lobby, GarbageReply(l)
  PROVE  IInv'
  <1>1. TypeOK'
    BY LobbyAssumption DEF IInv, TypeOK, Caller, Member, SeqState, CallState, Kind,
      GarbageReply
  <1>2. OpenLobbyIsCurrent' /\ WorksOnlyWhileOpen' /\ RunningFlagMatches'
    BY LobbyAssumption DEF IInv, TypeOK, OpenLobbyIsCurrent, WorksOnlyWhileOpen,
      RunningFlagMatches, GarbageReply
  <1>3. RendezvousMatched'
    BY LobbyAssumption DEF IInv, TypeOK, RendezvousMatched, Served, JoinWork, CmdWork,
      Caller, CallerHolds, SessionsBorn, GarbageReply
  <1>4. Served'
    BY LobbyAssumption DEF IInv, TypeOK, Served, RendezvousMatched, JoinWork, CmdWork,
      Caller, CallerHolds, SessionsBorn, GarbageReply
  <1>5. UnbornIsIdle' /\ CallerHolds'
    BY LobbyAssumption DEF IInv, TypeOK, UnbornIsIdle, CallerHolds, Served, JoinWork,
      CmdWork, Caller, GarbageReply
  <1>6. SessionsBorn' /\ UserUnique' /\ DeletingIsQuiet'
    BY LobbyAssumption DEF IInv, TypeOK, SessionsBorn, UserUnique, DeletingIsQuiet,
      Registered, GarbageReply
  <1> QED BY <1>1, <1>2, <1>3, <1>4, <1>5, <1>6 DEF IInv

\* StopLobby preserves the inductive invariant.
LEMMA StopLobbyStep ==
  ASSUME IInv, NEW l \in Lobby, StopLobby(l)
  PROVE  IInv'
  <1>1. TypeOK'
    BY LobbyAssumption DEF IInv, TypeOK, Caller, Member, SeqState, CallState, Kind,
      StopLobby
  <1>2. OpenLobbyIsCurrent' /\ WorksOnlyWhileOpen' /\ RunningFlagMatches'
    BY LobbyAssumption DEF IInv, TypeOK, OpenLobbyIsCurrent, WorksOnlyWhileOpen,
      RunningFlagMatches, StopLobby
  <1>3. RendezvousMatched'
    BY LobbyAssumption DEF IInv, TypeOK, RendezvousMatched, Served, JoinWork, CmdWork,
      Caller, CallerHolds, SessionsBorn, StopLobby
  <1>4. Served'
    BY LobbyAssumption DEF IInv, TypeOK, Served, RendezvousMatched, JoinWork, CmdWork,
      Caller, CallerHolds, SessionsBorn, StopLobby
  <1>5. UnbornIsIdle' /\ CallerHolds'
    BY LobbyAssumption DEF IInv, TypeOK, UnbornIsIdle, CallerHolds, Served, JoinWork,
      CmdWork, Caller, StopLobby
  <1>6. SessionsBorn' /\ UserUnique' /\ DeletingIsQuiet'
    BY LobbyAssumption DEF IInv, TypeOK, SessionsBorn, UserUnique, DeletingIsQuiet,
      Registered, StopLobby
  <1> QED BY <1>1, <1>2, <1>3, <1>4, <1>5, <1>6 DEF IInv

\* SequencerReturn preserves the inductive invariant.
LEMMA SequencerReturnStep ==
  ASSUME IInv, NEW l \in Lobby, SequencerReturn(l)
  PROVE  IInv'
  <1>1. TypeOK'
    BY LobbyAssumption DEF IInv, TypeOK, Caller, Member, SeqState, CallState, Kind,
      SequencerReturn
  <1>2. OpenLobbyIsCurrent' /\ WorksOnlyWhileOpen' /\ RunningFlagMatches'
    BY LobbyAssumption DEF IInv, TypeOK, OpenLobbyIsCurrent, WorksOnlyWhileOpen,
      RunningFlagMatches, SequencerReturn
  <1>3. RendezvousMatched'
    BY LobbyAssumption DEF IInv, TypeOK, RendezvousMatched, Served, JoinWork, CmdWork,
      Caller, CallerHolds, SessionsBorn, SequencerReturn
  <1>4. Served'
    BY LobbyAssumption DEF IInv, TypeOK, Served, RendezvousMatched, JoinWork, CmdWork,
      Caller, CallerHolds, SessionsBorn, SequencerReturn
  <1>5. UnbornIsIdle' /\ CallerHolds'
    BY LobbyAssumption DEF IInv, TypeOK, UnbornIsIdle, CallerHolds, Served, JoinWork,
      CmdWork, Caller, SequencerReturn
  <1>6. SessionsBorn' /\ UserUnique' /\ DeletingIsQuiet'
    BY LobbyAssumption DEF IInv, TypeOK, SessionsBorn, UserUnique, DeletingIsQuiet,
      Registered, SequencerReturn
  <1> QED BY <1>1, <1>2, <1>3, <1>4, <1>5, <1>6 DEF IInv

\* DeleteCheck preserves the inductive invariant.
LEMMA DeleteCheckStep ==
  ASSUME IInv, NEW l \in Lobby, DeleteCheck(l)
  PROVE  IInv'
  <1>1. lobbies = l
    BY LobbyAssumption DEF IInv, TypeOK, DeleteCheck, WorksOnlyWhileOpen,
      OpenLobbyIsCurrent
  <1>2. TypeOK'
    BY LobbyAssumption, <1>1 DEF IInv, TypeOK, Caller, Member, SeqState, CallState,
      Kind, DeleteCheck, Registered
  <1>3. OpenLobbyIsCurrent' /\ WorksOnlyWhileOpen' /\ RunningFlagMatches'
    BY LobbyAssumption, <1>1 DEF IInv, TypeOK, OpenLobbyIsCurrent, WorksOnlyWhileOpen,
      RunningFlagMatches, DeleteCheck, Registered
  <1>4. RendezvousMatched'
    BY LobbyAssumption, <1>1 DEF IInv, TypeOK, RendezvousMatched, Served, JoinWork,
      CmdWork, Caller, CallerHolds, SessionsBorn, DeleteCheck, Registered
  <1>5. Served'
    BY LobbyAssumption, <1>1 DEF IInv, TypeOK, Served, RendezvousMatched, JoinWork,
      CmdWork, Caller, CallerHolds, SessionsBorn, DeleteCheck, Registered
  <1>6. UnbornIsIdle' /\ CallerHolds'
    BY LobbyAssumption, <1>1 DEF IInv, TypeOK, UnbornIsIdle, CallerHolds, Served,
      JoinWork, CmdWork, Caller, DeleteCheck, Registered
  <1>7. SessionsBorn' /\ UserUnique' /\ DeletingIsQuiet'
    BY LobbyAssumption, <1>1 DEF IInv, TypeOK, SessionsBorn, UserUnique,
      DeletingIsQuiet, Registered, DeleteCheck
  <1> QED BY <1>2, <1>3, <1>4, <1>5, <1>6, <1>7 DEF IInv

\* DeleteCommit preserves the inductive invariant.
LEMMA DeleteCommitStep ==
  ASSUME IInv, NEW l \in Lobby, DeleteCommit(l)
  PROVE  IInv'
  <1>1. lobbies = l /\ seq[l] = "announce" /\ Registered(l) = {} /\ ctx[l] = "open"
    BY LobbyAssumption DEF IInv, TypeOK, DeleteCommit, WorksOnlyWhileOpen,
      OpenLobbyIsCurrent, DeletingIsQuiet
  <1>2. TypeOK'
    BY LobbyAssumption, <1>1 DEF IInv, TypeOK, Caller, Member, SeqState, CallState,
      Kind, DeleteCommit
  <1>3. OpenLobbyIsCurrent' /\ WorksOnlyWhileOpen' /\ RunningFlagMatches'
    BY LobbyAssumption, <1>1 DEF IInv, TypeOK, OpenLobbyIsCurrent, WorksOnlyWhileOpen,
      RunningFlagMatches, DeleteCommit
  <1>4. RendezvousMatched'
    BY LobbyAssumption, <1>1 DEF IInv, TypeOK, RendezvousMatched, Served, JoinWork,
      CmdWork, Caller, CallerHolds, SessionsBorn, DeleteCommit
  <1>5. Served'
    BY LobbyAssumption, <1>1 DEF IInv, TypeOK, Served, RendezvousMatched, JoinWork,
      CmdWork, Caller, CallerHolds, SessionsBorn, DeleteCommit
  <1>6. UnbornIsIdle' /\ CallerHolds'
    BY LobbyAssumption, <1>1 DEF IInv, TypeOK, UnbornIsIdle, CallerHolds, Served,
      JoinWork, CmdWork, Caller, DeleteCommit
  <1>7. SessionsBorn' /\ UserUnique' /\ DeletingIsQuiet'
    BY LobbyAssumption, <1>1 DEF IInv, TypeOK, SessionsBorn, UserUnique,
      DeletingIsQuiet, Registered, DeleteCommit
  <1> QED BY <1>2, <1>3, <1>4, <1>5, <1>6, <1>7 DEF IInv

\* LostConnection preserves the inductive invariant.
LEMMA LostConnectionStep ==
  ASSUME IInv, NEW w \in Watcher, NEW s \in Session, LostConnection(w, s)
  PROVE  IInv'
  <1>1. TypeOK'
    BY LobbyAssumption DEF IInv, TypeOK, Caller, Member, SeqState, CallState, Kind,
      LostConnection
  <1>2. OpenLobbyIsCurrent' /\ WorksOnlyWhileOpen' /\ RunningFlagMatches'
    BY LobbyAssumption DEF IInv, TypeOK, OpenLobbyIsCurrent, WorksOnlyWhileOpen,
      RunningFlagMatches, LostConnection
  <1>3. RendezvousMatched'
    BY LobbyAssumption DEF IInv, TypeOK, RendezvousMatched, Served, JoinWork, CmdWork,
      Caller, CallerHolds, SessionsBorn, LostConnection
  <1>4. Served'
    BY LobbyAssumption DEF IInv, TypeOK, Served, RendezvousMatched, JoinWork, CmdWork,
      Caller, CallerHolds, SessionsBorn, LostConnection
  <1>5. UnbornIsIdle' /\ CallerHolds'
    BY LobbyAssumption DEF IInv, TypeOK, UnbornIsIdle, CallerHolds, Served, JoinWork,
      CmdWork, Caller, LostConnection
  <1>6. SessionsBorn' /\ UserUnique' /\ DeletingIsQuiet'
    BY LobbyAssumption DEF IInv, TypeOK, SessionsBorn, UserUnique, DeletingIsQuiet,
      Registered, LostConnection
  <1> QED BY <1>1, <1>2, <1>3, <1>4, <1>5, <1>6 DEF IInv

\* WatchCheck preserves the inductive invariant.
LEMMA WatchCheckStep ==
  ASSUME IInv, NEW w \in Watcher, WatchCheck(w)
  PROVE  IInv'
  <1>1. TypeOK'
    BY LobbyAssumption DEF IInv, TypeOK, Caller, Member, SeqState, CallState, Kind,
      WatchCheck
  <1>2. OpenLobbyIsCurrent' /\ WorksOnlyWhileOpen' /\ RunningFlagMatches'
    BY LobbyAssumption DEF IInv, TypeOK, OpenLobbyIsCurrent, WorksOnlyWhileOpen,
      RunningFlagMatches, WatchCheck
  <1>3. RendezvousMatched'
    BY LobbyAssumption DEF IInv, TypeOK, RendezvousMatched, Served, JoinWork, CmdWork,
      Caller, CallerHolds, SessionsBorn, WatchCheck
  <1>4. Served'
    BY LobbyAssumption DEF IInv, TypeOK, Served, RendezvousMatched, JoinWork, CmdWork,
      Caller, CallerHolds, SessionsBorn, WatchCheck
  <1>5. UnbornIsIdle' /\ CallerHolds'
    BY LobbyAssumption DEF IInv, TypeOK, UnbornIsIdle, CallerHolds, Served, JoinWork,
      CmdWork, Caller, WatchCheck
  <1>6. SessionsBorn' /\ UserUnique' /\ DeletingIsQuiet'
    BY LobbyAssumption DEF IInv, TypeOK, SessionsBorn, UserUnique, DeletingIsQuiet,
      Registered, WatchCheck
  <1> QED BY <1>1, <1>2, <1>3, <1>4, <1>5, <1>6 DEF IInv

\* WatchSend preserves the inductive invariant.
LEMMA WatchSendStep ==
  ASSUME IInv, NEW w \in Watcher, WatchSend(w)
  PROVE  IInv'
  <1>1. TypeOK'
    BY LobbyAssumption DEF IInv, TypeOK, Caller, Member, SeqState, CallState, Kind,
      WatchSend, Receptive, FindByUserId, Registered
  <1>2. OpenLobbyIsCurrent' /\ WorksOnlyWhileOpen' /\ RunningFlagMatches'
    BY LobbyAssumption DEF IInv, TypeOK, OpenLobbyIsCurrent, WorksOnlyWhileOpen,
      RunningFlagMatches, WatchSend, Receptive, FindByUserId, Registered
  <1>3. RendezvousMatched'
    BY LobbyAssumption DEF IInv, TypeOK, RendezvousMatched, Served, JoinWork, CmdWork,
      Caller, CallerHolds, SessionsBorn, WatchSend, Receptive, FindByUserId, Registered
  <1>4. Served'
    BY LobbyAssumption DEF IInv, TypeOK, Served, RendezvousMatched, JoinWork, CmdWork,
      Caller, CallerHolds, SessionsBorn, WatchSend, Receptive, FindByUserId, Registered
  <1>5. UnbornIsIdle' /\ CallerHolds'
    BY LobbyAssumption DEF IInv, TypeOK, UnbornIsIdle, CallerHolds, Served, JoinWork,
      CmdWork, Caller, WatchSend, Receptive, FindByUserId, Registered
  <1>6. SessionsBorn' /\ UserUnique' /\ DeletingIsQuiet'
    BY LobbyAssumption DEF IInv, TypeOK, SessionsBorn, UserUnique, DeletingIsQuiet,
      Registered, WatchSend, Receptive, FindByUserId
  <1> QED BY <1>1, <1>2, <1>3, <1>4, <1>5, <1>6 DEF IInv

\* WatchClosed preserves the inductive invariant.
LEMMA WatchClosedStep ==
  ASSUME IInv, NEW w \in Watcher, WatchClosed(w)
  PROVE  IInv'
  <1>1. TypeOK'
    BY LobbyAssumption DEF IInv, TypeOK, Caller, Member, SeqState, CallState, Kind,
      WatchClosed
  <1>2. OpenLobbyIsCurrent' /\ WorksOnlyWhileOpen' /\ RunningFlagMatches'
    BY LobbyAssumption DEF IInv, TypeOK, OpenLobbyIsCurrent, WorksOnlyWhileOpen,
      RunningFlagMatches, WatchClosed
  <1>3. RendezvousMatched'
    BY LobbyAssumption DEF IInv, TypeOK, RendezvousMatched, Served, JoinWork, CmdWork,
      Caller, CallerHolds, SessionsBorn, WatchClosed
  <1>4. Served'
    BY LobbyAssumption DEF IInv, TypeOK, Served, RendezvousMatched, JoinWork, CmdWork,
      Caller, CallerHolds, SessionsBorn, WatchClosed
  <1>5. UnbornIsIdle' /\ CallerHolds'
    BY LobbyAssumption DEF IInv, TypeOK, UnbornIsIdle, CallerHolds, Served, JoinWork,
      CmdWork, Caller, WatchClosed
  <1>6. SessionsBorn' /\ UserUnique' /\ DeletingIsQuiet'
    BY LobbyAssumption DEF IInv, TypeOK, SessionsBorn, UserUnique, DeletingIsQuiet,
      Registered, WatchClosed
  <1> QED BY <1>1, <1>2, <1>3, <1>4, <1>5, <1>6 DEF IInv

\* WatchStop preserves the inductive invariant.
LEMMA WatchStopStep ==
  ASSUME IInv, NEW w \in Watcher, WatchStop(w)
  PROVE  IInv'
  <1>1. TypeOK'
    BY LobbyAssumption DEF IInv, TypeOK, Caller, Member, SeqState, CallState, Kind,
      WatchStop
  <1>2. OpenLobbyIsCurrent' /\ WorksOnlyWhileOpen' /\ RunningFlagMatches'
    BY LobbyAssumption DEF IInv, TypeOK, OpenLobbyIsCurrent, WorksOnlyWhileOpen,
      RunningFlagMatches, WatchStop
  <1>3. RendezvousMatched'
    BY LobbyAssumption DEF IInv, TypeOK, RendezvousMatched, Served, JoinWork, CmdWork,
      Caller, CallerHolds, SessionsBorn, WatchStop
  <1>4. Served'
    BY LobbyAssumption DEF IInv, TypeOK, Served, RendezvousMatched, JoinWork, CmdWork,
      Caller, CallerHolds, SessionsBorn, WatchStop
  <1>5. UnbornIsIdle' /\ CallerHolds'
    BY LobbyAssumption DEF IInv, TypeOK, UnbornIsIdle, CallerHolds, Served, JoinWork,
      CmdWork, Caller, WatchStop
  <1>6. SessionsBorn' /\ UserUnique' /\ DeletingIsQuiet'
    BY LobbyAssumption DEF IInv, TypeOK, SessionsBorn, UserUnique, DeletingIsQuiet,
      Registered, WatchStop
  <1> QED BY <1>1, <1>2, <1>3, <1>4, <1>5, <1>6 DEF IInv

\* The two other ways out of getOrCreateLobby preserve the inductive invariant.
LEMMA GetOrCreateLobbyStep ==
  ASSUME IInv, NEW c \in Request, NEW u \in User, NEW k \in {"ingress", "egress"},
         GetOrCreateLobby(c, u, k)
  PROVE  IInv'
  <1>1. pc[c] = "idle" /\ deleting = NoLobby
    BY DEF GetOrCreateLobby
  <1>2. ASSUME NEW l \in Lobby, lobbies = NoLobby, NewLobby(c, u, k, l) PROVE IInv'
    BY <1>1, <1>2, NewLobbyStep
  <1>3. CASE ~ \E l \in Lobby : lobbies = NoLobby /\ NewLobby(c, u, k, l)
    <2>1. TypeOK'
      BY <1>3 DEF IInv, GetOrCreateLobby, AfterLookup, TypeOK, Caller, Member, CallState, Kind
    <2>2. OpenLobbyIsCurrent' /\ WorksOnlyWhileOpen' /\ RunningFlagMatches'
      BY <1>3 DEF IInv, GetOrCreateLobby, OpenLobbyIsCurrent, WorksOnlyWhileOpen, RunningFlagMatches
    <2>3. RendezvousMatched'
      BY <1>3 DEF IInv, GetOrCreateLobby, AfterLookup, TypeOK, RendezvousMatched, Served, JoinWork,
                  CmdWork, Caller
    <2>4. Served'
      BY <1>3, LobbyAssumption DEF IInv, GetOrCreateLobby, AfterLookup, TypeOK, Served, JoinWork,
                  CmdWork, Caller
    <2>5. UnbornIsIdle' /\ CallerHolds'
      BY <1>3, LobbyAssumption DEF IInv, GetOrCreateLobby, AfterLookup, TypeOK, UnbornIsIdle,
                  CallerHolds, Caller
    <2>6. SessionsBorn' /\ UserUnique' /\ DeletingIsQuiet'
      BY <1>3 DEF IInv, GetOrCreateLobby, SessionsBorn, UserUnique, DeletingIsQuiet, Registered
    <2> QED
      BY <2>1, <2>2, <2>3, <2>4, <2>5, <2>6 DEF IInv
  <1> QED
    BY <1>2, <1>3

-----------------------------------------------------------------------------

\* The initial state satisfies the inductive invariant.
LEMMA InitIInv == Init => IInv
  <1> SUFFICES ASSUME Init PROVE IInv
    OBVIOUS
  <1>1. TypeOK
    BY DEF Init, TypeOK, Member, SeqState, CallState, Kind
  <1>2. OpenLobbyIsCurrent /\ WorksOnlyWhileOpen /\ RunningFlagMatches
    BY DEF Init, OpenLobbyIsCurrent, WorksOnlyWhileOpen, RunningFlagMatches
  <1>3. RendezvousMatched /\ Served
    BY DEF Init, RendezvousMatched, Served, JoinWork, CmdWork, Caller
  <1>4. UnbornIsIdle /\ CallerHolds
    BY LobbyAssumption DEF Init, UnbornIsIdle, CallerHolds, Caller
  <1>5. SessionsBorn /\ UserUnique /\ DeletingIsQuiet
    BY DEF Init, SessionsBorn, UserUnique, DeletingIsQuiet
  <1> QED
    BY <1>1, <1>2, <1>3, <1>4, <1>5 DEF IInv

\* Every step of the specification preserves the inductive invariant.
LEMMA NextIInv == IInv /\ [Next]_vars => IInv'
  <1> SUFFICES ASSUME IInv, [Next]_vars PROVE IInv'
    OBVIOUS
  <1>1. ASSUME NEW c \in Request, Start(c) PROVE IInv'
    BY <1>1, GetOrCreateLobbyStep DEF Start
  <1>2. ASSUME NEW c \in Caller, CallerStep(c) PROVE IInv'
    BY <1>2, JoinSendStep, JoinClosedStep, JoinTimeoutStep, BuildIngressStep, RunSendStep,
       RunClosedStep, RunTimeoutStep DEF CallerStep
  <1>3. ASSUME NEW l \in Lobby, SequencerStep(l) PROVE IInv'
    BY <1>3, CreateCheckStep, CreateInsertStep, CmdCheckStep, CmdExecStep, CmdAnswerStep,
       GarbageReplyStep, StopLobbyStep, SequencerReturnStep DEF SequencerStep
  <1>4. ASSUME NEW l \in Lobby, DeleteStep(l) PROVE IInv'
    BY <1>4, DeleteCheckStep, DeleteCommitStep DEF DeleteStep
  <1>5. ASSUME NEW w \in Watcher, NEW s \in Session, LostConnection(w, s) PROVE IInv'
    BY <1>5, LostConnectionStep
  <1>6. ASSUME NEW w \in Watcher, WatcherStep(w) PROVE IInv'
    BY <1>6, WatchCheckStep, WatchSendStep, WatchClosedStep, WatchStopStep DEF WatcherStep
  <1>7. CASE UNCHANGED vars
    BY <1>7 DEF vars, IInv, TypeOK, OpenLobbyIsCurrent, WorksOnlyWhileOpen, RunningFlagMatches,
      RendezvousMatched, UnbornIsIdle, CallerHolds, Served, SessionsBorn, UserUnique,
      DeletingIsQuiet, Registered
  <1> QED
    BY <1>1, <1>2, <1>3, <1>4, <1>5, <1>6, <1>7 DEF Next

\* The inductive invariant holds in every reachable state.
LEMMA Invariance == Spec => []IInv
  BY InitIInv, NextIInv, PTL DEF Spec

\* Every variable keeps its type.
THEOREM TypeCorrect == Spec => []TypeOK
  <1>1. IInv => TypeOK
    BY DEF IInv
  <1> QED
    BY <1>1, Invariance, PTL

\* Two lobby objects of one id never accept sessions at the same time.
THEOREM OpenLobbyCorrect == Spec => []OpenLobbyIsCurrent
  <1>1. IInv => OpenLobbyIsCurrent
    BY DEF IInv
  <1> QED
    BY <1>1, Invariance, PTL

\* A user never has two running registered sessions, whichever lobby objects hold them.
THEOREM OneLiveSessionCorrect == Spec => []OneLiveSessionPerUser
  <1>1. IInv => OneLiveSessionPerUser
    <2> SUFFICES ASSUME IInv, NEW s \in registry, NEW t \in registry, suser[s] = suser[t],
                        ~SessionDone(s), ~SessionDone(t)
                 PROVE  s = t
      BY DEF OneLiveSessionPerUser
    <2>1. ctx[slobby[s]] = "open" /\ ctx[slobby[t]] = "open"
      BY DEF IInv, TypeOK, SessionsBorn, SessionDone
    <2>2. slobby[s] = slobby[t]
      BY <2>1 DEF IInv, SessionsBorn, OpenLobbyIsCurrent
    <2> QED
      BY <2>2 DEF IInv, UserUnique
  <1> QED
    BY <1>1, Invariance, PTL

\* Nobody is left waiting on a Done channel, and no answer goes to the wrong goroutine.
THEOREM RendezvousCorrect == Spec => []RendezvousMatched
  <1>1. IInv => RendezvousMatched
    BY DEF IInv
  <1> QED
    BY <1>1, Invariance, PTL

\* The re-checks of a closed lobby in the sequencer are never needed.
THEOREM WorksOpenCorrect == Spec => []WorksOnlyWhileOpen
  <1>1. IInv => WorksOnlyWhileOpen
    BY DEF IInv
  <1> QED
    BY <1>1, Invariance, PTL

\* The stored running flag always agrees with the repository.
THEOREM RunningFlagCorrect == Spec => []RunningFlagMatches
  <1>1. IInv => RunningFlagMatches
    BY DEF IInv
  <1> QED
    BY <1>1, Invariance, PTL

\* The state of manager, repository and sequencers is well formed.
THEOREM LobbyCorrect == Spec => []LobbyOK
  <1>1. TypeOK /\ WorksOnlyWhileOpen /\ RunningFlagMatches => LobbyOK
    BY DEF LobbyOK
  <1> QED
    BY <1>1, TypeCorrect, WorksOpenCorrect, RunningFlagCorrect, PTL

\* lobbyRepository.delete never removes a lobby that holds a session, although it reads
\* the number of sessions before it saves the entity.
THEOREM InUseCorrect == Spec => InUseNotDeleted
  <1> DEFINE Safe == \A l \in Lobby : lobbies = l /\ lobbies' # l => Registered(l) = {}
  <1>1. IInv /\ [Next]_vars => [Safe]_vars
    <2> SUFFICES ASSUME IInv, Next, NEW m \in Lobby, lobbies = m, lobbies' # m
                 PROVE  Registered(m) = {}
      OBVIOUS
    <2>1. ~ \E c \in Request : Start(c)
      BY LobbyAssumption DEF Start, GetOrCreateLobby
    <2>2. ~ \E c \in Caller : CallerStep(c)
      BY DEF CallerStep, JoinSend, JoinClosed, JoinTimeout, BuildIngress, RunSend, RunClosed,
             RunTimeout, GiveUp, HandOver
    <2>3. ~ \E l \in Lobby : SequencerStep(l)
      BY DEF SequencerStep, CreateCheck, CreateInsert, CmdCheck, CmdExec, CmdAnswer,
             GarbageReply, StopLobby, SequencerReturn
    <2>4. ~ \E w \in Watcher, s \in Session : LostConnection(w, s)
      BY DEF LostConnection
    <2>5. ~ \E w \in Watcher : WatcherStep(w)
      BY DEF WatcherStep, WatchCheck, WatchSend, WatchClosed, WatchStop
    <2>6. PICK l \in Lobby : DeleteStep(l)
      BY <2>1, <2>2, <2>3, <2>4, <2>5 DEF Next
    <2>7. deleting = l /\ l # NoLobby
      BY <2>6, LobbyAssumption DEF DeleteStep, DeleteCheck, DeleteCommit
    <2>8. ctx[l] = "open" /\ Registered(l) = {}
      BY <2>7 DEF IInv, DeletingIsQuiet, WorksOnlyWhileOpen
    <2> QED
      BY <2>8 DEF IInv, OpenLobbyIsCurrent
  <1> QED
    BY <1>1, Invariance, PTL DEF Spec, InUseNotDeleted

-----------------------------------------------------------------------------
(* The lobby life cycle implements Rooms.  The inductive invariant above is  *)
(* used as it is; one fact is added: a session object that was not created   *)
(* yet was not stopped either.                                               *)

FreshRuns == \A s \in Session : slobby[s] = NoLobby => ~stopped[s]

\* What the abstract state is read off: a step that keeps these keeps it.
seen == <<lobbies, ctx, registry, slobby, suser, stopped>>

mapped == <<OpenLobby, BornLobbies, LiveSessions, BornSessions, suser>>


\* A session that takes part belongs to the open lobby.
LEMMA LiveInOpen ==
  ASSUME IInv, NEW s \in LiveSessions
  PROVE  s \in Session /\ slobby[s] \in Lobby /\ ctx[slobby[s]] = "open" /\ slobby[s] = lobbies
  BY DEF LiveSessions, SessionDone, IInv, TypeOK, SessionsBorn, OpenLobbyIsCurrent

LEMMA SeenUnchanged ==
  ASSUME UNCHANGED seen
  PROVE  UNCHANGED mapped
  BY DEF seen, mapped, OpenLobby, BornLobbies, LiveSessions, SessionDone, BornSessions

\* newLobby opens a room.
LEMMA NewLobbyOpens ==
  ASSUME IInv, NEW c \in Request, NEW u \in User, NEW k \in {"ingress", "egress"}, NEW l \in Lobby,
         lobbies = NoLobby, NewLobby(c, u, k, l)
  PROVE  R!Open(l)
  <1>1. OpenLobby = NoLobby /\ OpenLobby' = l
    BY LobbyAssumption DEF OpenLobby, NewLobby, IInv, TypeOK
  <1>2. l \notin BornLobbies /\ BornLobbies' = BornLobbies \cup {l}
    BY DEF BornLobbies, NewLobby, IInv, TypeOK
  <1>3. LiveSessions' = LiveSessions
    <2>1. \A s \in registry : slobby[s] # l
      BY DEF IInv, SessionsBorn, NewLobby
    <2>2. \A s \in registry : SessionDone(s)' = SessionDone(s)
      BY <2>1 DEF SessionDone, NewLobby, IInv, TypeOK, SessionsBorn
    <2> QED
      BY <2>2 DEF LiveSessions, NewLobby
  <1>4. BornSessions' = BornSessions /\ suser' = suser
    BY DEF BornSessions, NewLobby
  <1> QED
    BY <1>1, <1>2, <1>3, <1>4 DEF R!Open

\* SessionRepository.New lets a user join, or refuses a second session.
LEMMA CreateInsertJoins ==
  ASSUME IInv, FreshRuns, NEW l \in Lobby, CreateInsert(l)
  PROVE  (\E s \in Session, u \in Member : R!Join(s, u)) \/ UNCHANGED mapped
  <1> DEFINE u == who[serving[l]]
  <1>1. ctx[l] = "open" /\ lobbies = l /\ u \in Member /\ lobbies # NoLobby
    BY LobbyAssumption DEF CreateInsert, IInv, TypeOK, WorksOnlyWhileOpen, OpenLobbyIsCurrent, Served, JoinWork
  <1>2. CASE FindByUserId(l, u) # {}
    <2>1. UNCHANGED seen
      BY <1>2 DEF CreateInsert, seen
    <2> QED
      BY <2>1, SeenUnchanged
  <1>3. CASE FindByUserId(l, u) = {}
    <2>1. PICK s \in Session : /\ slobby[s] = NoLobby
                               /\ slobby' = [slobby EXCEPT ![s] = l]
                               /\ suser' = [suser EXCEPT ![s] = u]
                               /\ registry' = registry \cup {s}
      BY <1>3 DEF CreateInsert
    <2>2. ctx' = ctx /\ lobbies' = lobbies /\ stopped' = stopped
      BY <1>3 DEF CreateInsert
    <2>3. OpenLobby # NoLobby /\ OpenLobby' = OpenLobby /\ BornLobbies' = BornLobbies
      BY <1>1, <2>2 DEF OpenLobby, BornLobbies
    <2>4. s \notin BornSessions /\ BornSessions' = BornSessions \cup {s}
      BY <2>1, LobbyAssumption DEF BornSessions, IInv, TypeOK
    <2>5. s \notin registry
      BY <2>1, LobbyAssumption DEF IInv, SessionsBorn
    <2>6. LiveSessions' = LiveSessions \cup {s}
      <3>1. \A t \in registry : SessionDone(t)' = SessionDone(t)
        BY <2>1, <2>2, <2>5 DEF SessionDone, IInv, TypeOK
      <3>2. ~SessionDone(s)'
        BY <2>1, <2>2, <1>1 DEF SessionDone, FreshRuns, IInv, TypeOK
      <3> QED
        BY <3>1, <3>2, <2>1, <2>5 DEF LiveSessions
    <2>7. \A m \in LiveSessions : suser[m] # u
      BY <1>1, <1>3, LiveInOpen DEF FindByUserId, Registered, LiveSessions
    <2>8. R!Join(s, u)
      BY <2>1, <2>3, <2>4, <2>6, <2>7 DEF R!Join
    <2> QED
      BY <2>8, <1>1
  <1> QED
    BY <1>2, <1>3

\* lobbyRepository.delete closes the room, or leaves it when saving failed.
LEMMA DeleteCommitCloses ==
  ASSUME IInv, NEW l \in Lobby, DeleteCommit(l)
  PROVE  R!Close \/ UNCHANGED mapped
  <1>1. ctx[l] = "open" /\ lobbies = l /\ l # NoLobby
    BY LobbyAssumption DEF DeleteCommit, IInv, DeletingIsQuiet, WorksOnlyWhileOpen, OpenLobbyIsCurrent
  <1>2. CASE lobbies' = NoLobby /\ ctx' = [ctx EXCEPT ![lobbies] = "done"]
    <2>1. OpenLobby = l /\ OpenLobby' = NoLobby
      BY <1>1, <1>2 DEF OpenLobby
    <2>2. BornLobbies' = BornLobbies /\ BornSessions' = BornSessions /\ suser' = suser
      BY <1>1, <1>2 DEF BornLobbies, BornSessions, DeleteCommit, IInv, TypeOK
    <2>3. LiveSessions' = {}
      <3>1. \A s \in registry : ctx'[slobby[s]] = "done"
        BY <1>1, <1>2 DEF IInv, TypeOK, SessionsBorn, OpenLobbyIsCurrent
      <3> QED
        BY <3>1 DEF LiveSessions, SessionDone, DeleteCommit
    <2> QED
      BY <1>1, <2>1, <2>2, <2>3 DEF R!Close
  <1>3. CASE UNCHANGED <<isRunning, lobbies, ctx>>
    <2>1. UNCHANGED seen
      BY <1>3 DEF DeleteCommit, seen
    <2> QED
      BY <2>1, SeenUnchanged
  <1> QED
    BY <1>2, <1>3 DEF DeleteCommit

\* l.stop() closes the room, or finds it closed.
LEMMA StopLobbyCloses ==
  ASSUME IInv, NEW l \in Lobby, StopLobby(l)
  PROVE  R!Close \/ UNCHANGED mapped
  <1>1. CASE ctx[l] = "open"
    <2>1. lobbies = l /\ l # NoLobby
      BY <1>1, LobbyAssumption DEF IInv, OpenLobbyIsCurrent
    <2>2. OpenLobby = l /\ OpenLobby' = NoLobby
      BY <1>1, <2>1 DEF OpenLobby, StopLobby, IInv, TypeOK
    <2>3. BornLobbies' = BornLobbies /\ BornSessions' = BornSessions /\ suser' = suser
      BY <1>1 DEF BornLobbies, BornSessions, StopLobby, IInv, TypeOK
    <2>4. LiveSessions' = {}
      <3>1. \A s \in registry : ctx'[slobby[s]] = "done"
        BY <2>1 DEF StopLobby, IInv, TypeOK, SessionsBorn, OpenLobbyIsCurrent
      <3> QED
        BY <3>1 DEF LiveSessions, SessionDone, StopLobby
    <2> QED
      BY <2>1, <2>2, <2>3, <2>4 DEF R!Close
  <1>2. CASE ctx[l] # "open"
    <2>1. ctx[l] = "done"
      BY <1>2 DEF StopLobby, IInv, TypeOK, UnbornIsIdle
    <2>2. UNCHANGED seen
      BY <2>1 DEF StopLobby, seen, IInv, TypeOK
    <2> QED
      BY <2>2, SeenUnchanged
  <1> QED
    BY <1>1, <1>2

\* DeleteByUser lets one session leave, or finds none that runs.
LEMMA WatchSendLeaves ==
  ASSUME IInv, NEW w \in Watcher, WatchSend(w)
  PROVE  (\E s \in Session : R!Leave(s)) \/ UNCHANGED mapped
  <1> DEFINE l == slobby[wsess[w]]
             gone == FindByUserId(l, suser[wsess[w]])
  <1>1. /\ registry' = registry \ gone
        /\ UNCHANGED <<lobbies, ctx, slobby, suser, stopped>>
    BY DEF WatchSend
  <1>2. OpenLobby' = OpenLobby /\ BornLobbies' = BornLobbies /\ BornSessions' = BornSessions
    BY <1>1 DEF OpenLobby, BornLobbies, BornSessions
  <1>3. LiveSessions' = LiveSessions \ gone
    BY <1>1 DEF LiveSessions, SessionDone
  <1>4. CASE LiveSessions \cap gone = {}
    BY <1>1, <1>2, <1>3, <1>4 DEF mapped
  <1>5. CASE LiveSessions \cap gone # {}
    <2>1. PICK s \in LiveSessions : s \in gone
      BY <1>5
    <2>2. gone = {s}
      BY <2>1 DEF FindByUserId, Registered, IInv, UserUnique
    <2>3. R!Leave(s)
      BY <1>1, <1>2, <1>3, <2>1, <2>2 DEF R!Leave
    <2> QED
      BY <2>1, <2>3, LiveInOpen
  <1> QED
    BY <1>4, <1>5

\* Session.stop ends a session that still takes part, or one that left already.
LEMMA WatchStopLeaves ==
  ASSUME IInv, NEW w \in Watcher, WatchStop(w)
  PROVE  (\E s \in Session : R!Leave(s)) \/ UNCHANGED mapped
  <1> DEFINE s == wsess[w]
  <1>1. s \in Session
    BY DEF WatchStop, IInv, SessionsBorn
  <1>2. /\ stopped' = [stopped EXCEPT ![s] = TRUE]
        /\ UNCHANGED <<lobbies, ctx, registry, slobby, suser>>
    BY DEF WatchStop
  <1>3. OpenLobby' = OpenLobby /\ BornLobbies' = BornLobbies /\ BornSessions' = BornSessions
    BY <1>2 DEF OpenLobby, BornLobbies, BornSessions
  <1>4. LiveSessions' = LiveSessions \ {s}
    BY <1>1, <1>2 DEF LiveSessions, SessionDone, IInv, TypeOK
  <1>5. CASE s \in LiveSessions
    <2>1. R!Leave(s)
      BY <1>2, <1>3, <1>4, <1>5 DEF R!Leave
    <2> QED
      BY <1>1, <2>1
  <1>6. CASE s \notin LiveSessions
    BY <1>2, <1>3, <1>4, <1>6 DEF mapped
  <1> QED
    BY <1>5, <1>6

\* Every other step keeps what the abstract state is read off.
LEMMA OthersKeepSeen ==
  /\ \A c \in Caller : CallerStep(c) => UNCHANGED seen
  /\ \A l \in Lobby :
       CreateCheck(l) \/ CmdCheck(l) \/ CmdExec(l) \/ CmdAnswer(l) \/ GarbageReply(l)
         \/ SequencerReturn(l) \/ DeleteCheck(l) => UNCHANGED seen
  /\ \A w \in Watcher, s \in Session : LostConnection(w, s) => UNCHANGED seen
  /\ \A w \in Watcher : WatchCheck(w) \/ WatchClosed(w) => UNCHANGED seen
  <1>1. \A c \in Caller : CallerStep(c) => UNCHANGED seen
    BY DEF CallerStep, JoinSend, JoinClosed, JoinTimeout, BuildIngress, RunSend, RunClosed,
           RunTimeout, GiveUp, HandOver, seen
  <1>2. \A l \in Lobby :
          CreateCheck(l) \/ CmdCheck(l) \/ CmdExec(l) \/ CmdAnswer(l) \/ GarbageReply(l)
            \/ SequencerReturn(l) \/ DeleteCheck(l) => UNCHANGED seen
    BY DEF CreateCheck, CmdCheck, CmdExec, CmdAnswer, GarbageReply, SequencerReturn,
           DeleteCheck, seen
  <1>3. \A w \in Watcher, s \in Session : LostConnection(w, s) => UNCHANGED seen
    BY DEF LostConnection, seen
  <1>4. \A w \in Watcher : WatchCheck(w) \/ WatchClosed(w) => UNCHANGED seen
    BY DEF WatchCheck, WatchClosed, seen
  <1> QED
    BY <1>1, <1>2, <1>3, <1>4

-----------------------------------------------------------------------------

\* A session is stopped only by a watcher that holds it, so only after its creation.
LEMMA NextFresh == IInv /\ FreshRuns /\ [Next]_vars => FreshRuns'
  <1> SUFFICES ASSUME IInv, FreshRuns, [Next]_vars PROVE FreshRuns'
    OBVIOUS
  <1>1. CASE UNCHANGED seen
    BY <1>1 DEF FreshRuns, seen
  <1>2. ASSUME NEW c \in Request, NEW u \in User, NEW k \in {"ingress", "egress"},
               GetOrCreateLobby(c, u, k)
        PROVE  FreshRuns'
    BY <1>2 DEF FreshRuns, GetOrCreateLobby, NewLobby
  <1>3. ASSUME NEW l \in Lobby, CreateInsert(l)
        PROVE  FreshRuns'
    BY <1>3, LobbyAssumption DEF FreshRuns, CreateInsert, IInv, TypeOK
  <1>4. ASSUME NEW l \in Lobby, StopLobby(l) \/ DeleteCommit(l)
        PROVE  FreshRuns'
    BY <1>4 DEF FreshRuns, StopLobby, DeleteCommit
  <1>5. ASSUME NEW w \in Watcher, WatchSend(w)
        PROVE  FreshRuns'
    BY <1>5 DEF FreshRuns, WatchSend
  <1>6. ASSUME NEW w \in Watcher, WatchStop(w)
        PROVE  FreshRuns'
    BY <1>6, LobbyAssumption DEF FreshRuns, WatchStop, IInv, TypeOK, SessionsBorn
  <1>7. UNCHANGED vars => UNCHANGED seen
    BY DEF vars, seen
  <1> QED
    BY <1>1, <1>2, <1>3, <1>4, <1>5, <1>6, <1>7, OthersKeepSeen
    DEF Next, Start, SequencerStep, DeleteStep, WatcherStep

\* Nobody is in any room at the start.
LEMMA InitRooms == Init => R!Init /\ FreshRuns
  BY LobbyAssumption DEF Init, R!Init, OpenLobby, BornLobbies, LiveSessions, BornSessions,
     FreshRuns, Member

\* Every step of the lobbies is a step of the rooms or is not seen there.
LEMMA NextRooms == IInv /\ FreshRuns /\ [Next]_vars => [R!Next]_(R!roomVars)
  <1> SUFFICES ASSUME IInv, FreshRuns, [Next]_vars PROVE R!Next \/ UNCHANGED mapped
    BY DEF mapped, R!roomVars
  <1>1. CASE UNCHANGED seen
    BY <1>1, SeenUnchanged
  <1>2. ASSUME NEW c \in Request, NEW u \in User, NEW k \in {"ingress", "egress"},
               GetOrCreateLobby(c, u, k)
        PROVE  R!Next \/ UNCHANGED mapped
    <2>1. CASE lobbies = NoLobby /\ \E l \in Lobby : NewLobby(c, u, k, l)
      BY <2>1, NewLobbyOpens DEF R!Next
    <2>2. CASE ~(lobbies = NoLobby /\ \E l \in Lobby : NewLobby(c, u, k, l))
      <3>1. UNCHANGED seen
        BY <1>2, <2>2 DEF GetOrCreateLobby, seen
      <3> QED
        BY <3>1, SeenUnchanged
    <2> QED
      BY <2>1, <2>2
  <1>3. ASSUME NEW l \in Lobby, CreateInsert(l)
        PROVE  R!Next \/ UNCHANGED mapped
    BY <1>3, CreateInsertJoins DEF R!Next
  <1>4. ASSUME NEW l \in Lobby, StopLobby(l) \/ DeleteCommit(l)
        PROVE  R!Next \/ UNCHANGED mapped
    BY <1>4, StopLobbyCloses, DeleteCommitCloses DEF R!Next
  <1>5. ASSUME NEW w \in Watcher, WatchSend(w) \/ WatchStop(w)
        PROVE  R!Next \/ UNCHANGED mapped
    BY <1>5, WatchSendLeaves, WatchStopLeaves DEF R!Next
  <1>6. UNCHANGED vars => UNCHANGED seen
    BY DEF vars, seen
  <1> QED
    BY <1>1, <1>2, <1>3, <1>4, <1>5, <1>6, OthersKeepSeen
    DEF Next, Start, SequencerStep, DeleteStep, WatcherStep

\* The lobby objects of one id with their sequencers, sessions, callers and watchers, the
\* repository and the garbage loop implement Rooms (lobby.go, lobby_repository.go,
\* session_repository.go, session.go onLostConnection).
THEOREM LobbiesImplementRooms == Spec => LobbiesAreRooms
  <1>1. Spec => []FreshRuns
    <2>1. Init => FreshRuns
      BY InitRooms
    <2> QED
      BY <2>1, Invariance, NextFresh, PTL DEF Spec
  <1> QED
    BY <1>1, Invariance, InitRooms, NextRooms, PTL DEF Spec, LobbiesAreRooms, R!Spec
=============================================================================
