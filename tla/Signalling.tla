----------------------------- MODULE Signalling -----------------------------
(***************************************************************************)
(* What a publisher says about its track, and what a subscriber is told: a  *)
(* title in the offer of the publisher is parsed into a TrackSdpInfo, which *)
(* is copied into the hub and from there into the egress endpoint of the    *)
(* subscriber, whose renegotiation offers carry it again; later changes of  *)
(* the mute flag come over the publisher's data channel and take one        *)
(* goroutine to the hub and another one to each session.                    *)
(*                                                                          *)
(* One track, one publisher, one subscriber with its messenger.             *)
(***************************************************************************)
EXTENDS Messenger, Sequences

CONSTANTS Titles \* the media titles a publisher may offer, as lists of words

Word == STRING

\* Publishers that give three words write the digits that buildSdpInformation writes.
\* (That the words the program writes itself are strings is said for the provers.)
ASSUME TitlesAssumption ==
  /\ {"", "1", "2", "Guest"} \subseteq Word
  /\ Titles \subseteq Seq(Word)
  /\ \A t \in Titles : Len(t) = 3 => t[1] \in {"1", "2"} /\ t[2] \in {"1", "2"}

VARIABLES
  title,      \* the title of the publisher's offer
  info,       \* the TrackSdpInfo of its ingress endpoint
  hub,        \* the copy in Hub.tracks
  egress,     \* the copy in the egress endpoint of the subscriber
  changes,    \* history: the mute flags the publisher sent, in order
  mutes,      \* mute messages on the way to the server
  mpc,        \* where each change stands
  mval,       \* the flag it carries
  signaling, needed, npc, \* the egress connection and the goroutine that renegotiates
  offerer, number,        \* the session's signal: setOfferer, and the number of the offer
  offered,    \* history: how many offers were made
  early,      \* history: the last one was made before setOfferer was through
  fresh,      \* history: the last change was made after the egress endpoint got its copy
  overlapped  \* history: a change was sent before the one before was through

tracks == <<title, info, hub, egress>>
muting == <<changes, mutes, mpc, mval>>
numbering == <<offerer, number, offered, early>>
signal == <<signaling, needed, npc, offerer, number, offered, early>>
history == <<fresh, overlapped>>
vars == <<server, channel, client, tracks, muting, signal, history>>

-----------------------------------------------------------------------------
(* sdp.go.  A title is a list of words; purpose and mute are the digits.    *)

NoInfo == [purpose |-> 0, mute |-> FALSE, name |-> "", mid |-> FALSE]
Guest  == [purpose |-> 1, mute |-> FALSE, name |-> "Guest", mid |-> FALSE]

\* Anything but three words leaves the defaults of newTrackSdpInfo.
ParseSdpInformation(words) ==
  IF Len(words) # 3 THEN Guest
  ELSE [purpose |-> IF words[1] = "2" THEN 2 ELSE 1,
        mute    |-> words[2] = "1",
        name    |-> words[3],
        mid     |-> FALSE]

\* Faulty variant: the digits of the mute flag are exchanged.
BuildSwapped(i) ==
  <<IF i.purpose = 2 THEN "2" ELSE "1", IF i.mute THEN "2" ELSE "1", i.name>>

BuildSdpInformation(i) ==
  <<IF i.purpose = 2 THEN "2" ELSE "1", IF i.mute THEN "1" ELSE "2", i.name>>

-----------------------------------------------------------------------------
(* The track: from the publisher to the subscriber's endpoint. *)

\* EstablishEndpoint of the ingress: getIngressTrackSdpInfo.
Publish(t) ==
  /\ info = NoInfo
  /\ title' = t
  /\ info' = ParseSdpInformation(t)
  /\ UNCHANGED <<server, channel, client, hub, egress, muting, signal, history>>

\* receiver.onTrack: the mid is known now, and the hub gets a copy.
OnTrack ==
  /\ info # NoInfo /\ hub = NoInfo
  /\ ~info.mid
  /\ info' = [info EXCEPT !.mid = TRUE]
  /\ hub' = info'
  /\ UNCHANGED <<server, channel, client, title, egress, muting, signal, history>>

\* trackSdpInfoRepository.Set and Delete.
SetEgressInfo(i) == egress' = i

\* Endpoint.AddTrack: a copy of the hub's copy; the transceiver has no mid yet.
AddTrack ==
  /\ hub # NoInfo /\ egress = NoInfo
  /\ SetEgressInfo([hub EXCEPT !.mid = FALSE])
  /\ needed' = TRUE
  /\ fresh' = FALSE
  /\ UNCHANGED <<server, channel, client, title, info, hub, muting, signaling, npc, numbering, overlapped>>

\* The track ends: it leaves the hub and Endpoint.RemoveTrack deletes the info.
RemoveTrack ==
  /\ egress # NoInfo
  /\ hub' = NoInfo
  /\ SetEgressInfo(NoInfo)
  /\ needed' = TRUE
  /\ UNCHANGED <<server, channel, client, title, info, muting, signaling, npc, numbering, history>>

-----------------------------------------------------------------------------
(* Muting. *)

Through(n) == mpc[n] \in {"done", "failed"}

\* The publisher's client (external) turns its flag and sends it over its data channel.
Press(b) ==
  /\ info # NoInfo
  /\ Len(changes) < MaxMutes
  /\ b # IF changes = <<>> THEN info.mute ELSE changes[Len(changes)]
  /\ changes' = Append(changes, b)
  /\ mutes' = mutes \cup {[n |-> Len(changes'), mute |-> b]}
  /\ overlapped' = (overlapped \/ \E n \in DOMAIN changes : ~Through(n))
  /\ fresh' = (egress # NoInfo)
  /\ UNCHANGED <<server, channel, client, tracks, mpc, mval, signal>>

Step(n, to) == mpc' = [mpc EXCEPT ![n] = to]

LoseMute(m) ==
  /\ m \in mutes
  /\ mutes' = mutes \ {m}
  /\ Step(m.n, "failed")
  /\ UNCHANGED <<server, channel, client, tracks, changes, mval, signal, history>>

\* handleMuteMsg: the messenger tells its observers, one message at a time.
HandleMuteMsg(m) == m \in mutes /\ mutes' = mutes \ {m}

\* The info of a track has its mid only once the track has arrived.
GetTrackSdpInfoByIngressMid == info.mid

\* Endpoint.SetIngressMute, SetEgressMute: in place, in the endpoint's copy.
Muted(i, mute) == [i EXCEPT !.mute = mute]

\* Faulty variant: the copy is taken before the flag is set.
SetIngressMuteLate(m) ==
  /\ HandleMuteMsg(m)
  /\ IF GetTrackSdpInfoByIngressMid
       THEN /\ info' = Muted(info, m.mute)
            /\ mval' = [mval EXCEPT ![m.n] = info.mute]
            /\ Step(m.n, "dispatch")
       ELSE Step(m.n, "failed") /\ UNCHANGED <<info, mval>>
  /\ UNCHANGED <<server, channel, client, title, hub, egress, changes, signal, history>>

\* onMuteTrack of the publisher's session: the info is found by its mid, changed
\* and copied for the goroutine that dispatches it.
SetIngressMute(m) ==
  /\ HandleMuteMsg(m)
  /\ IF GetTrackSdpInfoByIngressMid
       THEN /\ info' = Muted(info, m.mute)
            /\ mval' = [mval EXCEPT ![m.n] = m.mute]
            /\ Step(m.n, "dispatch")
       ELSE Step(m.n, "failed") /\ UNCHANGED <<info, mval>>
  /\ UNCHANGED <<server, channel, client, title, hub, egress, changes, signal, history>>

\* Hub.onMuteTrack: a goroutine for each session but the publisher's; Hub.tracks
\* keeps the flag it had.
OnMuteTrack(n) == Step(n, "session")

\* The hub takes the request, or the dispatch runs into its timeout.
DispatchMuteTrack(n) ==
  /\ mpc[n] = "dispatch"
  /\ OnMuteTrack(n) \/ Step(n, "failed")
  /\ UNCHANGED <<server, channel, client, tracks, changes, mutes, mval, signal, history>>

\* Session.muteTrack: nothing to do without the track; otherwise the egress copy
\* is changed and the client told.
MuteTrack(n) ==
  /\ mpc[n] = "session"
  /\ Step(n, IF egress = NoInfo THEN "failed" ELSE "done")
  /\ IF egress = NoInfo
       THEN UNCHANGED <<server, egress>>
       ELSE /\ egress' = Muted(egress, mval[n])
            /\ SendMute(n, egress.mid, mval[n])
  /\ UNCHANGED <<channel, client, title, info, hub, changes, mutes, mval, signal, history>>

-----------------------------------------------------------------------------
(* Renegotiation of the egress connection. *)

\* setOfferer stores the endpoint, then the number.  EstablishEndpoint has completed the
\* endpoint by then, so that its goroutines add tracks and offer them meanwhile.
SetOfferer ==
  /\ offerer # "ready"
  /\ offerer' = IF offerer = "nil" THEN "set" ELSE "ready"
  /\ number' = IF offerer = "nil" THEN number ELSE 0
  /\ UNCHANGED <<server, channel, client, tracks, muting, signaling, needed, npc, offered, early, history>>

\* The need is gone even when CreateOffer fails; otherwise the offer is the local description.
DoRenegotiation ==
  /\ needed
  /\ signaling = "stable"
  /\ offered < MaxOffers
  /\ spc[Negotiator] = "idle"
  /\ needed' = FALSE
  /\ \/ signaling' = "have-local-offer" /\ npc' = "munge"
     \/ UNCHANGED <<signaling, npc>>
  /\ UNCHANGED <<server, channel, client, tracks, muting, numbering, history>>

NextOffer    == number + 1
CurrentOffer == number

\* setEgressTrackInfo puts the title into the offer and learns the mid; then
\* OnNegotiationNeeded sends it with the next number.
OfferTracks ==
  /\ npc = "munge"
  /\ npc' = "idle"
  /\ number' = NextOffer
  /\ offered' = offered + 1
  /\ early' = (offerer # "ready")
  /\ egress' = IF egress = NoInfo THEN NoInfo ELSE [egress EXCEPT !.mid = TRUE]
  /\ SendOffer(NextOffer, offered', IF egress = NoInfo THEN <<>> ELSE BuildSdpInformation(egress))
  /\ UNCHANGED <<channel, client, title, info, hub, muting, signaling, needed, offerer, history>>

\* handleAnswerMsg and signal.OnAnswer: nobody to answer to, another number, an answer
\* that cannot be set (logged), or a settled offer.
OnAnswer(m) ==
  /\ m \in toServer
  /\ toServer' = toServer \ {m}
  /\ \/ /\ offerer = "nil" \/ m.number # CurrentOffer
        /\ UNCHANGED <<signaling, dropped>>
     \/ /\ offerer # "nil" /\ m.number = CurrentOffer
        /\ \/ signaling' = "stable" /\ UNCHANGED dropped
           \/ dropped' = TRUE /\ UNCHANGED signaling
  /\ UNCHANGED <<server, client, toClient, tracks, muting, needed, npc, numbering, history>>

-----------------------------------------------------------------------------
Init ==
  /\ InitMessenger
  /\ title = <<>> /\ info = NoInfo /\ hub = NoInfo /\ egress = NoInfo
  /\ changes = <<>> /\ mutes = {}
  /\ mpc = [n \in Muter |-> "none"]
  /\ mval = [n \in Muter |-> FALSE]
  /\ signaling = "stable" /\ needed = FALSE /\ npc = "idle"
  /\ offerer = "nil" /\ number = 0 /\ offered = 0 /\ early = FALSE
  /\ fresh = FALSE /\ overlapped = FALSE

TransportStep == Transport /\ UNCHANGED <<tracks, muting, signal, history>>

Next ==
  \/ TransportStep
  \/ \E t \in Titles : Publish(t)
  \/ OnTrack \/ AddTrack \/ RemoveTrack
  \/ \E b \in BOOLEAN : Press(b)
  \/ \E m \in mutes : LoseMute(m) \/ SetIngressMute(m)
  \/ \E n \in Muter : DispatchMuteTrack(n) \/ MuteTrack(n)
  \/ SetOfferer \/ DoRenegotiation \/ OfferTracks
  \/ \E m \in toServer : OnAnswer(m)

\* Every goroutine that can run does run, and the client's channel opens.
Quietly(A) == A /\ UNCHANGED <<tracks, muting, signal, history>>

Spec ==
  /\ Init /\ [][Next]_vars
  /\ WF_vars(Quietly(WorkerSend))
  /\ \A x \in Sender : WF_vars(Quietly(HandOver(x)))
  /\ WF_vars(Quietly(ClientOpens)) /\ WF_vars(Quietly(Register))
  /\ WF_vars(Quietly(ClientHandsOver)) /\ WF_vars(Quietly(ClientSends))
  /\ WF_vars(Quietly(\E m \in toClient : ClientReads(m)))
  /\ WF_vars(OfferTracks)
  /\ WF_vars(\E m \in toServer : OnAnswer(m))

-----------------------------------------------------------------------------
Sent == toClient \cup {wmsg} \cup {smsg[x] : x \in Sender}

\* Type invariant.
TypeOK ==
  /\ MessengerTypeOK
  /\ title = <<>> \/ title \in Titles
  /\ \A i \in {info, hub, egress} : i.purpose \in 0..2 /\ i.mute \in BOOLEAN
  /\ \A m \in mutes : m.n \in DOMAIN changes /\ mpc[m.n] = "none"
  /\ \A n \in Muter : mpc[n] \in {"none", "dispatch", "session", "done", "failed"}
  /\ signaling \in {"stable", "have-local-offer"}
  /\ npc = "munge" => signaling = "have-local-offer"
  /\ offerer \in {"nil", "set", "ready"} /\ number \in 0..offered /\ offered \in 0..MaxOffers

\* What a publisher says about a track in the three words of its title reaches
\* subscribers unchanged, through parseSdpInformation, the copies in the hub and
\* in the egress endpoint, and buildSdpInformation; only the mute flag may be
\* another one, and only when the publisher changed it.
TitleKept ==
  Len(title) = 3 =>
    \A m \in Sent : m.type = "offer" /\ m.title # <<>> =>
      /\ m.title[1] = title[1] /\ m.title[3] = title[3]
      /\ changes = <<>> => m.title = title

\* Tracks and messages are well formed: types, and titles that stay as they were offered.
TitlesOK == TypeOK /\ TitleKept

\* A change made after the subscriber's endpoint got the track, and not overtaken
\* by another one, ends up in the endpoint: each change takes two goroutines and a
\* copy on its way.
LastMuteApplied ==
  LET last == Len(changes)
  IN  fresh /\ ~overlapped /\ egress # NoInfo /\ mpc[last] = "done" =>
        egress.mute = changes[last] /\ info.mute = changes[last]

\* When the connection is stable the client has applied the very offer the server
\* sent last, though the channel loses and reorders messages.
Agreement == signaling = "stable" => remote = offered

\* Nobody stays blocked in sendSDP or SendMute, and muteTrack does not keep the
\* session's mutex, once the data channel has opened, whatever sends fail.
SendersReturn ==
  \A x \in Sender : spc[x] = "send" ~> spc[x] = "idle" \/ wpc = "off"

\* An offer is settled, unless a message is lost on the way or what it carries cannot
\* be applied, the server's channel never opens, the client goes away, or the offer was
\* made before setOfferer was through: then its answer finds no offerer, or the number
\* set back.
OfferSettles ==
  signaling = "have-local-offer" ~>
    signaling = "stable" \/ dropped \/ early \/ wpc = "off" \/ ~alive
=============================================================================
