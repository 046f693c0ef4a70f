------------------------------ MODULE Session ------------------------------
(***************************************************************************)
(* One session and its mutex: the commands the lobby sequencer runs on it   *)
(* one after the other (CreateIngressEndpoint, CreateEgressEndpoint), which *)
(* hold the mutex for writing; the readers of the mutex, which are the hub  *)
(* with its tracks and a goroutine for every change of a mute flag; and the *)
(* data channel callback that sets up the messenger these goroutines use.   *)
(*                                                                          *)
(* A sync.RWMutex lets no new reader in while a writer waits.               *)
(***************************************************************************)
EXTENDS Naturals

CONSTANTS
  IngressKinds, \* the SignalChannelKinds ingress commands come with
  EgressKinds,  \* the SignalChannelKinds egress commands come with
  Mutes,        \* the goroutines that run muteTrack on the session (bound)
  MaxCommands   \* bound on the commands run on the session

ASSUME SessionAssumption ==
  /\ IngressKinds \cup EgressKinds \subseteq {"silent", "unidirectional", "bidirectional"}
  /\ MaxCommands \in Nat

VARIABLES
  open,         \* Session.ctx is not done
  call,         \* where the running command stands
  commands,     \* commands started so far
  ingress,      \* Session.ingress # nil
  egress,       \* Session.egress # nil
  established,  \* endpoints EstablishEndpoint has returned, per type
  kind,         \* the kind of signal channel each endpoint was given
  answered,     \* the endpoints whose answer the client has
  channel,      \* the data channel callback of each endpoint
  opened,       \* the endpoints whose data channel is open: its messenger sends
  messenger,    \* the endpoint whose data channel signal.messenger uses, or "nil"
  ready,        \* signal.receivedMessenger is closed
  muting,       \* where each goroutine of muteTrack stands
  via,          \* the endpoint whose messenger it sends through
  hubAt         \* where the hub stands with this session

callVars  == <<call, commands>>
endVars   == <<ingress, egress, established, kind, answered>>
chanVars  == <<channel, opened, messenger, ready>>
readVars  == <<muting, via, hubAt>>
sessionVars == <<open, callVars, endVars, chanVars, readVars>>

CallState == {"idle", "lockIngress", "lockEgress", "ingress", "ingressGather",
              "wait", "pass", "egress", "assign", "egressGather"}
Endpoint  == {"ingress", "egress"}

-----------------------------------------------------------------------------
(* Session.mutex.  The lobby runs one command at a time on a session.       *)

\* The goroutines that hold the mutex for reading.
Reading == {x \in Mutes : muting[x] = "send"}

Lock  == Reading = {} /\ hubAt \notin {"track", "stuck"}
RLock == call = "idle"

-----------------------------------------------------------------------------
(* Commands. *)

Begin(next) ==
  /\ call = "idle"
  /\ commands < MaxCommands
  /\ commands' = commands + 1
  /\ call' = next
  /\ UNCHANGED <<open, endVars, chanVars, readVars>>

BeginIngress == Begin("lockIngress")
BeginEgress  == Begin("lockEgress")

\* The command has the lock and looks at the session.
Enter(from, next) ==
  /\ call = from
  /\ Lock
  /\ call' = next
  /\ UNCHANGED <<open, commands, endVars, chanVars, readVars>>

\* Faulty variants: no check for an endpoint that is there; no waitForSignalChannel.
CreateIngressAgain == Enter("lockIngress", IF open THEN "ingress" ELSE "idle")
CreateEgressAtOnce == Enter("lockEgress", IF ~open \/ egress \/ ~ingress THEN "idle" ELSE "egress")

\* ErrSessionAlreadyClosed and ErrIngressAlreadyExists end the command at once.
CreateIngress == Enter("lockIngress", IF open /\ ~ingress THEN "ingress" ELSE "idle")

\* ErrSessionAlreadyClosed, ErrEgressAlreadyExists and ErrNoSignalChannel end the
\* command at once; a messenger that is there already leaves no time for the timeout.
CreateEgress ==
  Enter("lockEgress", IF ~open \/ egress \/ ~ingress THEN "idle" ELSE IF ready THEN "pass" ELSE "wait")

Return == call' = "idle" /\ UNCHANGED commands

EstablishIngress ==
  /\ call = "ingress"
  /\ \/ /\ ingress' = TRUE
        /\ established' = [established EXCEPT !.ingress = @ + 1]
        /\ \E k \in IngressKinds : kind' = [kind EXCEPT !.ingress = k]
        /\ call' = "ingressGather"
     \/ UNCHANGED <<ingress, established, kind>> /\ call' = "idle"
  /\ UNCHANGED <<open, commands, egress, answered, chanVars, readVars>>

\* waitForSignalChannel.
WaitPassed ==
  /\ call \in {"wait", "pass"}
  /\ ready
  /\ call' = "egress"
  /\ UNCHANGED <<open, commands, endVars, chanVars, readVars>>

WaitClosed ==
  /\ call \in {"wait", "pass"}
  /\ ~open
  /\ Return
  /\ UNCHANGED <<open, endVars, chanVars, readVars>>

\* Faulty variant: waitForSignalChannel without the timeout.
WaitTimeoutMissing ==
  /\ call = "unreachable"
  /\ Return
  /\ UNCHANGED <<open, endVars, chanVars, readVars>>

WaitTimeout ==
  /\ call = "wait"
  /\ Return
  /\ UNCHANGED <<open, endVars, chanVars, readVars>>

\* EstablishEndpoint ends with SetInitComplete: from here on the goroutine that adds
\* the current tracks may run, although Session.egress is not assigned yet.
EstablishEgress ==
  /\ call = "egress"
  /\ \/ /\ established' = [established EXCEPT !.egress = @ + 1]
        /\ \E k \in EgressKinds : kind' = [kind EXCEPT !.egress = k]
        /\ call' = "assign"
     \/ UNCHANGED <<established, kind>> /\ call' = "idle"
  /\ UNCHANGED <<open, commands, ingress, egress, answered, chanVars, readVars>>

\* s.egress = endpoint.  What setOfferer does is in module Signalling.
AssignEgress ==
  /\ call = "assign"
  /\ egress' = TRUE
  /\ call' = "egressGather"
  /\ UNCHANGED <<open, commands, ingress, established, kind, answered, chanVars, readVars>>

\* GetLocalDescription: an answer, ErrSessionClosed or ErrIceGatheringInterruption.
\* The endpoint stays assigned in every case.
GetLocalDescription ==
  /\ call \in {"ingressGather", "egressGather"}
  /\ \/ answered' = answered \cup {IF call = "ingressGather" THEN "ingress" ELSE "egress"}
     \/ UNCHANGED answered
  /\ Return
  /\ UNCHANGED <<open, ingress, egress, established, kind, chanVars, readVars>>

-----------------------------------------------------------------------------
(* The data channel of an endpoint, opened by the client: the callback that *)
(* buildSignalDataChannelCbk chose for the kind of the endpoint.            *)

OnSilentChannel(e) ==
  /\ channel[e] = "none" /\ e \in answered /\ kind[e] = "silent"
  /\ channel' = [channel EXCEPT ![e] = "done"]
  /\ UNCHANGED <<open, callVars, endVars, opened, messenger, ready, readVars>>

OnSenderChannel(e) ==
  /\ channel[e] = "none" /\ e \in answered /\ kind[e] # "silent"
  /\ channel' = [channel EXCEPT ![e] = "messenger"]
  /\ messenger' = e
  /\ UNCHANGED <<open, callVars, endVars, opened, ready, readVars>>

\* Faulty variant: close without the check.
StopWaitingUnchecked(e) ==
  /\ \/ /\ channel[e] = "messenger"
        /\ channel' = [channel EXCEPT ![e] = "closing"]
        /\ UNCHANGED ready
     \/ /\ channel[e] = "closing"
        /\ channel' = [channel EXCEPT ![e] = "done"]
        /\ ready' = TRUE
  /\ UNCHANGED <<open, callVars, endVars, opened, messenger, readVars>>

\* stopWaitingForMessenger closes the channel in its default case only.
StopWaitingForMessenger(e) ==
  /\ \/ /\ channel[e] = "messenger"
        /\ channel' = [channel EXCEPT ![e] = IF ready THEN "done" ELSE "closing"]
        /\ UNCHANGED ready
     \/ /\ channel[e] = "closing"
        /\ channel' = [channel EXCEPT ![e] = "done"]
        /\ ready' = TRUE
  /\ UNCHANGED <<open, callVars, endVars, opened, messenger, readVars>>

\* The data channel is open, and the sending goroutine of its messenger starts.  A
\* channel whose connection is lost before never opens.
OnOpen(e) ==
  /\ e \notin opened
  /\ channel[e] # "none"
  /\ opened' = opened \cup {e}
  /\ UNCHANGED <<open, callVars, endVars, channel, messenger, ready, readVars>>

-----------------------------------------------------------------------------
(* The readers. *)

\* Hub.onMuteTrack starts a goroutine.
BeginMute(x) ==
  /\ muting[x] = "none"
  /\ muting' = [muting EXCEPT ![x] = "lock"]
  /\ UNCHANGED <<open, callVars, endVars, chanVars, via, hubAt>>

\* muteTrack: without an egress endpoint, or without the track, there is nothing to
\* send.  The deferred RUnlock comes after SendMute.
MuteTrack(x) ==
  /\ muting[x] = "lock"
  /\ RLock
  /\ \/ /\ egress
        /\ muting' = [muting EXCEPT ![x] = "send"]
        /\ via' = [via EXCEPT ![x] = messenger]
     \/ /\ muting' = [muting EXCEPT ![x] = "done"]
        /\ UNCHANGED via
  /\ UNCHANGED <<open, callVars, endVars, chanVars, hubAt>>

\* SendMute: the sending goroutine takes the message.  Nobody closes quit, so that
\* a messenger whose channel does not open keeps the goroutine, and the lock.
SendMute(x) ==
  /\ muting[x] = "send"
  /\ via[x] \in opened
  /\ muting' = [muting EXCEPT ![x] = "done"]
  /\ UNCHANGED <<open, callVars, endVars, chanVars, via, hubAt>>

\* Session.initComplete, by which the hub spares a session with a running command:
\* TryRLock gives up where RLock would wait.
InitComplete ==
  /\ hubAt = "idle"
  /\ RLock
  /\ egress
  /\ hubAt' = "lock"
  /\ UNCHANGED <<open, callVars, endVars, chanVars, muting, via>>

\* Session.addTrack and removeTrack.  The stats registry may keep its lock (module
\* Telemetry): then the hub does not come back from the endpoint.
HubTrack ==
  /\ \/ hubAt = "lock" /\ RLock /\ hubAt' \in {"track", "stuck"}
     \/ hubAt = "track" /\ hubAt' = "idle"
  /\ UNCHANGED <<open, callVars, endVars, chanVars, muting, via>>

-----------------------------------------------------------------------------
\* Session.stop, or the end of the lobby.
Stop ==
  /\ open
  /\ open' = FALSE
  /\ UNCHANGED <<callVars, endVars, chanVars, readVars>>

InitSession ==
  /\ open = TRUE
  /\ call = "idle"
  /\ commands = 0
  /\ ingress = FALSE
  /\ egress = FALSE
  /\ established = [ingress |-> 0, egress |-> 0]
  /\ kind = [e \in Endpoint |-> "silent"]
  /\ answered = {}
  /\ channel = [e \in Endpoint |-> "none"]
  /\ opened = {}
  /\ messenger = "nil"
  /\ ready = FALSE
  /\ muting = [x \in Mutes |-> "none"]
  /\ via = [x \in Mutes |-> "nil"]
  /\ hubAt = "idle"

RunCommand ==
  \/ CreateIngress \/ CreateEgress
  \/ EstablishIngress \/ WaitPassed \/ WaitClosed \/ WaitTimeout
  \/ EstablishEgress \/ AssignEgress \/ GetLocalDescription

Mute(x) == MuteTrack(x) \/ SendMute(x)

NextSession ==
  \/ BeginIngress \/ BeginEgress \/ RunCommand
  \/ \E e \in Endpoint :
       OnSilentChannel(e) \/ OnSenderChannel(e) \/ StopWaitingForMessenger(e) \/ OnOpen(e)
  \/ \E x \in Mutes : BeginMute(x) \/ Mute(x)
  \/ InitComplete \/ HubTrack
  \/ Stop

SessionSpec == InitSession /\ [][NextSession]_sessionVars

\* The goroutines of a command, of the hub and of every mute run when they can.  The
\* waits of a command have a timeout, but for the one for the lock, which it gets
\* when the readers are gone: none comes in while it waits.
FairSessionSpec ==
  /\ SessionSpec
  /\ WF_sessionVars(RunCommand)
  /\ WF_sessionVars(HubTrack)
  /\ \A x \in Mutes : WF_sessionVars(Mute(x))

-----------------------------------------------------------------------------
(* Properties. *)

\* Every variable has its type.
SessionTypeOK ==
  /\ {open, ingress, egress, ready} \subseteq BOOLEAN
  /\ call \in CallState
  /\ commands \in 0..MaxCommands
  /\ established \in [ingress : Nat, egress : Nat]
  /\ kind \in [Endpoint -> IngressKinds \cup EgressKinds \cup {"silent"}]
  /\ answered \subseteq Endpoint
  /\ channel \in [Endpoint -> {"none", "messenger", "closing", "done"}]
  /\ opened \subseteq Endpoint
  /\ messenger \in Endpoint \cup {"nil"}
  /\ muting \in [Mutes -> {"none", "lock", "send", "done"}]
  /\ via \in [Mutes -> Endpoint \cup {"nil"}]
  /\ hubAt \in {"idle", "lock", "track", "stuck"}

\* An egress endpoint, which may call OnNegotiationNeeded or muteTrack at any time,
\* exists only when the messenger these use without a nil check is there.
\* No mute is sent through a messenger that is not there.
EgressHasMessenger ==
  /\ established.egress > 0 => messenger # "nil"
  /\ \A x \in Mutes : muting[x] = "send" => via[x] # "nil"

\* receivedMessenger is closed once, also when both endpoints bring a signal channel:
\* the check and the close of stopWaitingForMessenger are not one step.
ClosedOnce == \A e \in Endpoint : channel[e] = "closing" => ~ready

\* A session establishes at most one endpoint of each type, also when the answer of
\* the first could not be delivered: the second command finds the field set.
OneEndpointPerType == established.ingress <= 1 /\ established.egress <= 1

\* No reader is inside the session while a command changes its endpoints: a mute or
\* a track never meets an endpoint that is being built.
WriterAlone == call \notin {"idle", "lockIngress", "lockEgress"} => Lock

\* The session is well formed: types, one endpoint of a type, and a mutex held for
\* writing by one or for reading by many.
SessionOK == SessionTypeOK /\ OneEndpointPerType /\ WriterAlone

\* A goroutine of muteTrack keeps the mutex: its messenger does not send (yet).
Held == (\E x \in Reading : via[x] \notin opened) \/ hubAt = "stuck"

\* A command returns to the sequencer, which runs nothing else meanwhile, and the hub
\* gets the lock it waits for, unless a reader keeps the mutex: a mute that waits for
\* a data channel to open, or a hub that the stats registry keeps.
CommandReturns ==
  /\ call # "idle" ~> call = "idle" \/ Held
  /\ hubAt = "lock" ~> hubAt # "lock" \/ Held
=============================================================================
