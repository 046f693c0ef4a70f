----------------------------- MODULE Messenger -----------------------------
(***************************************************************************)
(* Signalling over a WebRTC data channel: the messenger of a session in the *)
(* server (lobby/clients), the channel, which creatDC makes unordered and   *)
(* without retransmission, and the messenger and observer of a Go client    *)
(* (pkg/media, cmd/media_streamer).                                         *)
(*                                                                          *)
(* On both sides senders hand their message to one sending goroutine over   *)
(* an unbuffered channel; that goroutine starts when the data channel       *)
(* opens.  A client that panics takes its process down.                     *)
(***************************************************************************)
EXTENDS Naturals, FiniteSets

CONSTANTS
  MaxMutes,  \* bound: how often the publisher of a track mutes or unmutes it
  MaxOffers  \* bound: offers the server sends

ASSUME MessengerAssumption == MaxOffers \in Nat /\ MaxMutes \in Nat

VARIABLES
  wpc,        \* the server's sending goroutine
  wmsg,       \* the message it holds
  spc, smsg,  \* the goroutines that send through the server's messenger
  toClient, toServer, \* messages in the channel
  dropped,    \* history: a message was not delivered, or what it carries not applied
  alive,      \* the client process runs
  copen,      \* its end of the data channel is open
  observed,   \* its observer is registered
  cpc, cmsg,  \* its reading goroutine, and the answer it is about to send
  cwmsg,      \* the message its sending goroutine holds
  remote      \* history: which of the server's offers it applied last

server  == <<wpc, wmsg, spc, smsg>>
channel == <<toClient, toServer, dropped>>
client  == <<alive, copen, observed, cpc, cmsg, cwmsg, remote>>

Negotiator == 0         \* the goroutine of doRenegotiation
Muter == 1..MaxMutes    \* the goroutine of Session.muteTrack for each change
Sender == Muter \cup {Negotiator}
\* nth tells the offers apart for the properties; it is not sent.
NoMsg ==
  [type |-> "none", number |-> 0, title |-> <<>>, mute |-> FALSE, mid |-> FALSE, nth |-> 0]

-----------------------------------------------------------------------------
(* The server's messenger. *)

\* The data channel opens: the sending goroutine starts.
OnOpen ==
  /\ wpc = "off"
  /\ wpc' = "run"
  /\ UNCHANGED <<wmsg, spc, smsg, channel, client>>

\* sendSDP and SendMute up to the second select.  Nothing in the repository closes
\* quit, so that select waits for the sending goroutine.
Enter(x, m) ==
  /\ spc' = [spc EXCEPT ![x] = "send"]
  /\ smsg' = [smsg EXCEPT ![x] = m]
  /\ UNCHANGED <<wpc, wmsg>>

SendOffer(number, nth, title) ==
  Enter(Negotiator, [NoMsg EXCEPT !.type = "offer", !.number = number, !.nth = nth, !.title = title])

SendMute(x, mid, mute) ==
  Enter(x, [NoMsg EXCEPT !.type = "mute", !.number = x, !.mid = mid, !.mute = mute])

\* The message passes from the sender to the sending goroutine.
HandOver(x) ==
  /\ spc[x] = "send"
  /\ wpc = "run" /\ wmsg = NoMsg
  /\ wmsg' = smsg[x]
  /\ spc' = [spc EXCEPT ![x] = "idle"]
  /\ smsg' = [smsg EXCEPT ![x] = NoMsg]
  /\ UNCHANGED <<wpc, channel, client>>

\* Faulty variant: the goroutine ends with the first message it cannot send.
WorkerSendOrQuit ==
  /\ wpc = "run" /\ wmsg # NoMsg
  /\ wmsg' = NoMsg
  /\ \/ toClient' = toClient \cup {wmsg} /\ UNCHANGED <<wpc, dropped>>
     \/ wpc' = "gone" /\ dropped' = TRUE /\ UNCHANGED toClient
  /\ UNCHANGED <<spc, smsg, toServer, client>>

\* s.Send; an error is logged and the goroutine goes on.
WorkerSend ==
  /\ wpc = "run" /\ wmsg # NoMsg
  /\ wmsg' = NoMsg
  /\ \/ toClient' = toClient \cup {wmsg} /\ UNCHANGED dropped
     \/ dropped' = TRUE /\ UNCHANGED toClient
  /\ UNCHANGED <<wpc, spc, smsg, toServer, client>>

-----------------------------------------------------------------------------
(* The channel. *)

Lose ==
  /\ \/ \E m \in toClient : toClient' = toClient \ {m} /\ dropped' = TRUE /\ UNCHANGED toServer
     \/ \E m \in toServer : toServer' = toServer \ {m} /\ dropped' = TRUE /\ UNCHANGED toClient
  /\ UNCHANGED <<server, client>>

-----------------------------------------------------------------------------
(* The client. *)

\* MediaStateHandler.OnChannel: handler and sending goroutine start with the channel.
ClientOpens ==
  /\ alive /\ ~copen
  /\ copen' = TRUE
  /\ UNCHANGED <<server, channel, alive, observed, cpc, cmsg, cwmsg, remote>>

\* Register takes the write lock: not while an observer is being called.
Register ==
  /\ alive /\ ~observed
  /\ cpc = "read"
  /\ observed' = TRUE
  /\ UNCHANGED <<server, channel, alive, copen, cpc, cmsg, cwmsg, remote>>

\* A message nobody handles: no channel handler, no observer, no process.
Unheard(m) ==
  /\ ~alive \/ ~copen \/ ~observed
  /\ cpc = "read"
  /\ dropped' = TRUE
  /\ UNCHANGED client

\* Faulty variants: the answer carries the id of the message, which is always 0,
\* instead of the number of the offer; an offer that fails is answered as well.
OnOfferSwapped(m) ==
  /\ m.type = "offer"
  /\ \/ /\ remote' = m.nth
        /\ cpc' = "answer"
        /\ cmsg' = [NoMsg EXCEPT !.type = "answer", !.number = 0]
        /\ UNCHANGED dropped
     \/ dropped' = TRUE /\ UNCHANGED <<remote, cpc, cmsg>>
  /\ UNCHANGED <<alive, copen, observed, cwmsg>>

OnOfferRegardless(m) ==
  /\ m.type = "offer"
  /\ remote' \in {remote, m.nth}
  /\ cpc' = "answer"
  /\ cmsg' = [NoMsg EXCEPT !.type = "answer", !.number = m.number]
  /\ UNCHANGED <<alive, copen, observed, cwmsg, dropped>>

\* mediaObserver.OnOffer: the offer is applied, which may fail, and answered.
OnOffer(m) ==
  /\ m.type = "offer"
  /\ \/ /\ remote' = m.nth
        /\ cpc' = "answer"
        /\ cmsg' = [NoMsg EXCEPT !.type = "answer", !.number = m.number]
        /\ UNCHANGED dropped
     \/ dropped' = TRUE /\ UNCHANGED <<remote, cpc, cmsg>>
  /\ UNCHANGED <<alive, copen, observed, cwmsg>>

\* mediaObserver.OnMute: panic("implement me").
OnMute(m) ==
  /\ m.type = "mute"
  /\ alive' = FALSE
  /\ cpc' = "read" /\ cmsg' = NoMsg /\ cwmsg' = NoMsg
  /\ UNCHANGED <<copen, observed, remote, dropped>>

\* OnMessages, notifyAll and the handlers: one message at a time.
ClientReads(m) ==
  /\ m \in toClient
  /\ toClient' = toClient \ {m}
  /\ \/ Unheard(m)
     \/ /\ alive /\ copen /\ observed /\ cpc = "read"
        /\ OnOffer(m) \/ OnMute(m)
  /\ UNCHANGED <<server, toServer>>

\* SendSDP: the reading goroutine waits, with the read lock, for the sending one.
ClientHandsOver ==
  /\ alive /\ cpc = "answer"
  /\ cwmsg = NoMsg
  /\ cwmsg' = cmsg
  /\ cmsg' = NoMsg
  /\ cpc' = "read"
  /\ UNCHANGED <<server, channel, alive, copen, observed, remote>>

ClientSends ==
  /\ alive /\ cwmsg # NoMsg
  /\ cwmsg' = NoMsg
  /\ \/ toServer' = toServer \cup {cwmsg} /\ UNCHANGED dropped
     \/ dropped' = TRUE /\ UNCHANGED toServer
  /\ UNCHANGED <<server, toClient, alive, copen, observed, cpc, cmsg, remote>>

-----------------------------------------------------------------------------
InitMessenger ==
  /\ wpc = "off" /\ wmsg = NoMsg
  /\ spc = [x \in Sender |-> "idle"]
  /\ smsg = [x \in Sender |-> NoMsg]
  /\ toClient = {} /\ toServer = {} /\ dropped = FALSE
  /\ alive = TRUE /\ copen = FALSE /\ observed = FALSE
  /\ cpc = "read" /\ cmsg = NoMsg /\ cwmsg = NoMsg /\ remote = 0

Transport ==
  \/ OnOpen \/ WorkerSend \/ Lose
  \/ \E x \in Sender : HandOver(x)
  \/ ClientOpens \/ Register \/ ClientHandsOver \/ ClientSends
  \/ \E m \in toClient : ClientReads(m)

MessengerTypeOK ==
  /\ wpc \in {"off", "run", "gone"}
  /\ wmsg # NoMsg => wpc = "run"
  /\ \A x \in Sender : spc[x] \in {"idle", "send"} /\ (spc[x] = "idle" <=> smsg[x] = NoMsg)
  /\ {m.type : m \in toClient} \subseteq {"offer", "mute"}
  /\ {m.type : m \in toServer} \subseteq {"answer"}
  /\ cpc \in {"read", "answer"} /\ (cpc = "answer" <=> cmsg # NoMsg)
  /\ {dropped, alive, copen, observed} \subseteq BOOLEAN
  /\ remote \in 0..MaxOffers
============================================================================
