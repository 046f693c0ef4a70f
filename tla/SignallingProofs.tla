-------------------------- MODULE SignallingProofs --------------------------
(***************************************************************************)
(* Proofs about signalling, for any number of mute changes, of offers and   *)
(* of titles.                                                               *)
(*                                                                          *)
(* The channel loses and reorders messages.  That client and server agree   *)
(* all the same rests on one thing: an offer, or the answer to it, is at    *)
(* one place at a time, and none is on its way when the next offer is made. *)
(***************************************************************************)
EXTENDS Signalling, SequenceTheorems, TLAPS

Info == [purpose : 0..2, mute : BOOLEAN, name : Word, mid : BOOLEAN]

Message == [type : {"none", "offer", "mute", "answer"}, number : Nat, title : Seq(Word),
            mute : BOOLEAN, mid : BOOLEAN, nth : Nat]

-----------------------------------------------------------------------------
(* Messages. *)

\* Server, channel and client.
MessageTypes ==
  /\ wpc \in {"off", "run"}
  /\ wmsg \in Message /\ (wmsg # NoMsg => wpc = "run")
  /\ spc \in [Sender -> {"idle", "send"}]
  /\ smsg \in [Sender -> Message]
  /\ \A x \in Sender : (spc[x] = "idle") <=> (smsg[x] = NoMsg)
  /\ toClient \subseteq Message /\ toServer \subseteq Message
  /\ dropped \in BOOLEAN /\ alive \in BOOLEAN /\ copen \in BOOLEAN /\ observed \in BOOLEAN
  /\ cpc \in {"read", "answer"} /\ cmsg \in Message /\ cwmsg \in Message
  /\ (cpc = "answer") <=> (cmsg # NoMsg)

\* Who sends what.
MessageKinds ==
  /\ smsg[Negotiator] # NoMsg => smsg[Negotiator].type = "offer"
  /\ \A x \in Muter : smsg[x] # NoMsg => smsg[x].type = "mute"
  /\ wmsg # NoMsg => wmsg.type \in {"offer", "mute"}
  /\ \A m \in toClient : m.type \in {"offer", "mute"}
  /\ \A m \in toServer \cup ({cmsg, cwmsg} \ {NoMsg}) : m.type = "answer"

\* The state of the negotiation.
Negotiation ==
  /\ signaling \in {"stable", "have-local-offer"}
  /\ npc \in {"idle", "munge"}
  /\ npc = "munge" => signaling = "have-local-offer" /\ offered < MaxOffers
  /\ needed \in BOOLEAN
  /\ offerer \in {"nil", "set", "ready"}
  /\ number \in 0..offered /\ offered \in 0..MaxOffers /\ remote \in 0..MaxOffers

IsOffer(m) == m.type = "offer"

\* The places an offer passes through are empty ...
NotSending  == smsg[Negotiator] = NoMsg
NotTaken    == ~IsOffer(wmsg)
NotOnTheWay == \A m \in toClient : ~IsOffer(m)
NotRead     == cmsg = NoMsg
NotAnswered == cwmsg = NoMsg
NotReturned == toServer = {}

\* ... but one.
OneInFlight ==
  /\ ~NotSending => NotTaken /\ NotOnTheWay /\ NotRead /\ NotAnswered /\ NotReturned
  /\ ~NotTaken => NotOnTheWay /\ NotRead /\ NotAnswered /\ NotReturned
  /\ ~NotOnTheWay => NotRead /\ NotAnswered /\ NotReturned
  /\ ~NotRead => NotAnswered /\ NotReturned
  /\ ~NotAnswered => NotReturned
  /\ \A m, k \in toClient : IsOffer(m) /\ IsOffer(k) => m = k
  /\ \A m, k \in toServer : m = k

\* What is in flight is the last offer, and what is answered was applied.
CurrentInFlight ==
  /\ signaling = "stable" \/ npc = "munge" =>
       NotSending /\ NotTaken /\ NotOnTheWay /\ NotRead /\ NotAnswered /\ NotReturned
  /\ ~NotSending => smsg[Negotiator].nth = offered
  /\ ~NotTaken => wmsg.nth = offered
  /\ \A m \in toClient : IsOffer(m) => m.nth = offered
  /\ ~NotRead \/ ~NotAnswered \/ ~NotReturned => remote = offered

-----------------------------------------------------------------------------
(* Titles. *)

\* A copy of the information says what the title said.
Copy(i) ==
  i # NoInfo =>
    /\ info # NoInfo
    /\ i.purpose = ParseSdpInformation(title).purpose
    /\ i.name = ParseSdpInformation(title).name
    /\ changes = <<>> => i.mute = ParseSdpInformation(title).mute

Copies ==
  /\ info # NoInfo => title \in Titles
  /\ info = NoInfo => title = <<>> /\ changes = <<>>
  /\ info \in Info /\ hub \in Info /\ egress \in Info
  /\ Copy(info) /\ Copy(hub) /\ Copy(egress)

\* An offer has the title that was parsed, written again.
OfferedTitle(m) ==
  IsOffer(m) /\ m.title # <<>> =>
    /\ info # NoInfo
    /\ Len(title) = 3 =>
         m.title[1] = title[1] /\ m.title[3] = title[3] /\ (changes = <<>> => m.title = title)

OfferedTitles == \A m \in Sent : OfferedTitle(m)

-----------------------------------------------------------------------------
(* Muting. *)

Last == Len(changes)

\* The changes and the goroutines that carry them.
Changes ==
  /\ changes \in Seq(BOOLEAN) /\ Last <= MaxMutes
  /\ mutes \subseteq [n : Muter, mute : BOOLEAN]
  /\ mpc \in [Muter -> {"none", "dispatch", "session", "done", "failed"}]
  /\ mval \in [Muter -> BOOLEAN]
  /\ fresh \in BOOLEAN /\ (fresh => Last > 0) /\ overlapped \in BOOLEAN
  /\ \A n \in Muter : n > Last => mpc[n] = "none"
  /\ \A m \in mutes : m.n <= Last /\ mpc[m.n] = "none" /\ m.mute = changes[m.n]
  /\ \A m, k \in mutes : m.n = k.n => m = k
  /\ \A n \in Muter : mpc[n] \in {"dispatch", "session", "done"} => mval[n] = changes[n]

\* Without overlap only the last change is under way; it is in the publisher's copy as
\* soon as it was read, and in the subscriber's when it is through.
LastChange ==
  ~overlapped =>
    /\ \A n \in Muter : n < Last => Through(n)
    /\ Last > 0 /\ mpc[Last] \in {"dispatch", "session", "done"} => info.mute = changes[Last]
    /\ fresh /\ mpc[Last] = "done" /\ egress # NoInfo => egress.mute = changes[Last]

\* The inductive invariant.
IInv ==
  /\ MessageTypes
  /\ MessageKinds
  /\ Negotiation
  /\ OneInFlight
  /\ CurrentInFlight
  /\ Agreement
  /\ Copies
  /\ OfferedTitles
  /\ Changes
  /\ LastChange
-----------------------------------------------------------------------------
USE MessengerAssumption DEF server, channel, client, tracks, muting, numbering, signal, history

(* The messages. *)

LEMMA Words == "" \in Word /\ "1" \in Word /\ "2" \in Word /\ "Guest" \in Word
  BY TitlesAssumption

LEMMA TitleWords ==
  ASSUME NEW t \in Titles
  PROVE  t \in Seq(Word) /\ (Len(t) = 3 => t[1] \in {"1", "2"} /\ t[2] \in {"1", "2"} /\ t[3] \in Word)
  <1>1. t \in Seq(Word) /\ (Len(t) = 3 => t[1] \in {"1", "2"} /\ t[2] \in {"1", "2"})
    BY TitlesAssumption
  <1>2. Len(t) = 3 => t[3] \in Word
    BY <1>1, ElementOfSeq
  <1> QED BY <1>1, <1>2

LEMMA EmptyTitle == <<>> \in Seq(Word)
  OBVIOUS

LEMMA InfoRecord ==
  ASSUME NEW p \in 0..2, NEW u \in BOOLEAN, NEW n \in Word, NEW d \in BOOLEAN
  PROVE  [purpose |-> p, mute |-> u, name |-> n, mid |-> d] \in Info
  BY DEF Info

LEMMA NoInfoType == NoInfo \in Info
  <1>1. "" \in Word
    BY Words
  <1>2. 0 \in 0..2
    OBVIOUS
  <1> QED BY <1>1, <1>2, InfoRecord, Zenon DEF NoInfo

LEMMA NoMsgType == NoMsg \in Message /\ NoMsg.type = "none" /\ NoMsg.title = <<>>
  BY DEF NoMsg, Message

LEMMA MuteType ==
  ASSUME NEW n \in Nat, NEW mid \in BOOLEAN, NEW mute \in BOOLEAN,
         NEW m, m = [NoMsg EXCEPT !.type = "mute", !.number = n, !.mid = mid, !.mute = mute]
  PROVE  m \in Message /\ m.type = "mute"
  <1>1. m = [type |-> "mute", number |-> n, title |-> <<>>, mute |-> mute, mid |-> mid, nth |-> 0]
    BY DEF NoMsg
  <1>2. <<>> \in Seq(Word) /\ "mute" \in {"none", "offer", "mute", "answer"}
    BY EmptyTitle
  <1>4. [type |-> "mute", number |-> n, title |-> <<>>, mute |-> mute, mid |-> mid, nth |-> 0] \in Message
    BY <1>2 DEF Message
  <1>5. m \in Message
    BY <1>1, <1>4, Zenon
  <1>3. m.type = "mute"
    BY <1>1
  <1> QED BY <1>3, <1>5

LEMMA AnswerType ==
  ASSUME NEW n \in Nat, NEW m, m = [NoMsg EXCEPT !.type = "answer", !.number = n]
  PROVE  m \in Message /\ m.type = "answer"
  <1>1. m = [type |-> "answer", number |-> n, title |-> <<>>, mute |-> FALSE, mid |-> FALSE, nth |-> 0]
    BY DEF NoMsg
  <1>2. m \in Message
    <2>1. <<>> \in Seq(Word) /\ "answer" \in {"none", "offer", "mute", "answer"} /\ 0 \in Nat
      BY EmptyTitle
    <2>2. [type |-> "answer", number |-> n, title |-> <<>>, mute |-> FALSE, mid |-> FALSE, nth |-> 0] \in Message
      BY <2>1 DEF Message
    <2> QED BY <1>1, <2>2, Zenon
  <1>3. m.type = "answer"
    BY <1>1
  <1> QED BY <1>2, <1>3

LEMMA Senders == Negotiator \in Sender /\ Negotiator \notin Muter /\ Muter \subseteq Sender /\ Sender \subseteq Nat
  BY DEF Negotiator, Muter, Sender

-----------------------------------------------------------------------------
(* What a step leaves alone. *)

MessageInv ==
  MessageTypes /\ MessageKinds /\ Negotiation /\ OneInFlight /\ CurrentInFlight /\ Agreement

LEMMA MessagesKept ==
  ASSUME IInv, UNCHANGED <<server, channel, client, signaling, npc, numbering>>, needed' \in BOOLEAN
  PROVE  MessageInv'
  <1>1. MessageTypes' /\ MessageKinds'
    BY DEF IInv, MessageTypes, MessageKinds
  <1>2. Negotiation' /\ Agreement'
    BY DEF IInv, Negotiation, Agreement
  <1>3. OneInFlight' /\ CurrentInFlight'
    BY DEF IInv, OneInFlight, CurrentInFlight, IsOffer, NotSending, NotTaken, NotOnTheWay,
      NotRead, NotAnswered, NotReturned
  <1> QED BY <1>1, <1>2, <1>3 DEF MessageInv

\* Offers keep their title as long as publisher and changes do.
LEMMA TitlesKept ==
  ASSUME IInv, UNCHANGED <<title, info, hub, egress, changes>>,
         \A m \in Sent' : m \in Sent \/ ~IsOffer(m)
  PROVE  Copies' /\ OfferedTitles'
  <1>1. Copies'
    BY DEF IInv, Copies, Copy
  <1>2. ASSUME NEW m \in Sent'
        PROVE  IsOffer(m) /\ m.title # <<>> =>
                 /\ info' # NoInfo
                 /\ Len(title') = 3 =>
                      /\ m.title[1] = title'[1] /\ m.title[3] = title'[3]
                      /\ changes' = <<>> => m.title = title'
    BY <1>2 DEF IInv, OfferedTitles, OfferedTitle
  <1>3. OfferedTitles'
    BY <1>2 DEF OfferedTitles, OfferedTitle, IsOffer
  <1> QED BY <1>1, <1>3

LEMMA MutesKept ==
  ASSUME IInv, UNCHANGED <<changes, mutes, mpc, mval, fresh, overlapped>>,
         info'.mute = info.mute, egress' = NoInfo \/ (egress # NoInfo /\ egress'.mute = egress.mute)
  PROVE  Changes' /\ LastChange'
  <1>1. Changes'
    BY DEF IInv, Changes, Last
  <1>2. LastChange'
    BY DEF IInv, LastChange, Last, Through
  <1> QED BY <1>1, <1>2

LEMMA Together ==
  ASSUME MessageInv', Copies', OfferedTitles', Changes', LastChange'
  PROVE  IInv'
  BY DEF MessageInv, IInv

-----------------------------------------------------------------------------
(* The transport. *)

\* Steps of the transport touch messages only.
LEMMA TransportKept ==
  ASSUME IInv, UNCHANGED <<tracks, muting, signal, history>>, MessageInv',
         \A m \in Sent' : m \in Sent \/ ~IsOffer(m)
  PROVE  IInv'
  <1>1. Copies' /\ OfferedTitles'
    BY TitlesKept
  <1>2. Changes' /\ LastChange'
    <2>1. egress' = NoInfo \/ (egress # NoInfo /\ egress'.mute = egress.mute)
      OBVIOUS
    <2> QED BY <2>1, MutesKept
  <1> QED BY <1>1, <1>2, Together

LEMMA OpeningStep ==
  ASSUME IInv, UNCHANGED <<tracks, muting, signal, history>>, OnOpen \/ ClientOpens \/ Register
  PROVE  IInv'
  <1>1. UNCHANGED <<wmsg, spc, smsg, toClient, toServer, dropped, alive, cpc, cmsg, cwmsg, remote>>
    BY DEF OnOpen, ClientOpens, Register
  <1>2. MessageTypes'
    <2>1. wpc' \in {"off", "run"} /\ (wmsg # NoMsg => wpc' = "run")
      BY DEF OnOpen, ClientOpens, Register, IInv, MessageTypes
    <2>2. copen' \in BOOLEAN /\ observed' \in BOOLEAN
      BY DEF OnOpen, ClientOpens, Register, IInv, MessageTypes
    <2> QED BY <1>1, <2>1, <2>2 DEF IInv, MessageTypes
  <1>3. MessageKinds' /\ Negotiation' /\ Agreement'
    BY <1>1 DEF IInv, MessageKinds, Negotiation, Agreement
  <1>4. OneInFlight' /\ CurrentInFlight'
    BY <1>1 DEF IInv, OneInFlight, CurrentInFlight, IsOffer, NotSending, NotTaken, NotOnTheWay,
      NotRead, NotAnswered, NotReturned
  <1>5. Sent' = Sent
    BY <1>1 DEF Sent
  <1> QED BY <1>2, <1>3, <1>4, <1>5, TransportKept DEF MessageInv

\* A message passes to the sending goroutine.
LEMMA HandOverStep ==
  ASSUME IInv, UNCHANGED <<tracks, muting, signal, history>>, NEW x \in Sender, HandOver(x)
  PROVE  IInv'
  <1>1. /\ spc[x] = "send" /\ wpc = "run" /\ wmsg = NoMsg /\ wmsg' = smsg[x]
        /\ spc' = [spc EXCEPT ![x] = "idle"] /\ smsg' = [smsg EXCEPT ![x] = NoMsg]
        /\ UNCHANGED <<wpc, channel, client>>
    BY DEF HandOver
  <1>2. \A y \in Sender : smsg'[y] = IF y = x THEN NoMsg ELSE smsg[y]
    BY <1>1 DEF IInv, MessageTypes
  <1>3. smsg[x] \in Message /\ smsg[x] # NoMsg
    BY <1>1 DEF IInv, MessageTypes
  <1>4. MessageTypes'
    <2>1. spc' \in [Sender -> {"idle", "send"}] /\ smsg' \in [Sender -> Message]
      BY <1>1, NoMsgType DEF IInv, MessageTypes
    <2>2. \A y \in Sender : (spc'[y] = "idle") <=> (smsg'[y] = NoMsg)
      BY <1>1, <1>2 DEF IInv, MessageTypes
    <2> QED BY <1>1, <1>3, <2>1, <2>2 DEF IInv, MessageTypes
  <1>5. smsg[x].type = IF x = Negotiator THEN "offer" ELSE "mute"
    BY <1>3, Senders DEF IInv, MessageKinds, Sender
  <1>6. MessageKinds'
    BY <1>1, <1>2, <1>5, Senders DEF IInv, MessageKinds
  <1>7. OneInFlight' /\ CurrentInFlight'
    <2>1. CASE x = Negotiator
      <3>1. ~NotSending /\ NotSending' /\ wmsg'.nth = offered
        BY <1>1, <1>2, <1>3, <2>1 DEF NotSending, IInv, CurrentInFlight
      <3> QED BY <1>1, <3>1 DEF IInv, OneInFlight, CurrentInFlight, IsOffer, NotSending, NotTaken,
            NotOnTheWay, NotRead, NotAnswered, NotReturned
    <2>2. CASE x # Negotiator
      <3>1. smsg'[Negotiator] = smsg[Negotiator] /\ NotTaken' /\ NotTaken
        BY <1>1, <1>2, <1>5, <2>2, Senders, NoMsgType DEF NotTaken, IsOffer
      <3> QED BY <1>1, <3>1 DEF IInv, OneInFlight, CurrentInFlight, IsOffer, NotSending, NotTaken,
            NotOnTheWay, NotRead, NotAnswered, NotReturned
    <2> QED BY <2>1, <2>2
  <1>8. Negotiation' /\ Agreement'
    BY <1>1 DEF IInv, Negotiation, Agreement
  <1>9. \A m \in Sent' : m \in Sent \/ ~IsOffer(m)
    BY <1>1, <1>2, NoMsgType DEF Sent, IsOffer
  <1> QED BY <1>4, <1>6, <1>7, <1>8, <1>9, TransportKept DEF MessageInv

\* The sending goroutine puts it into the channel, or cannot.
LEMMA WorkerSendStep ==
  ASSUME IInv, UNCHANGED <<tracks, muting, signal, history>>, WorkerSend
  PROVE  IInv'
  <1>1. /\ wmsg # NoMsg /\ wmsg' = NoMsg /\ wmsg \in Message /\ wmsg.type \in {"offer", "mute"}
        /\ toClient' = toClient \cup {wmsg} \/ toClient' = toClient
        /\ UNCHANGED <<wpc, spc, smsg, toServer, client>>
    BY DEF WorkerSend, IInv, MessageTypes, MessageKinds
  <1>2. MessageTypes'
    <2>1. dropped' \in BOOLEAN
      BY DEF WorkerSend, IInv, MessageTypes
    <2> QED BY <1>1, <2>1, NoMsgType DEF IInv, MessageTypes
  <1>3. MessageKinds'
    BY <1>1 DEF IInv, MessageKinds
  <1>4. OneInFlight' /\ CurrentInFlight'
    <2>1. NotTaken'
      BY <1>1, NoMsgType DEF NotTaken, IsOffer
    <2> QED BY <1>1, <2>1 DEF IInv, OneInFlight, CurrentInFlight, IsOffer, NotSending, NotTaken,
          NotOnTheWay, NotRead, NotAnswered, NotReturned
  <1>5. Negotiation' /\ Agreement'
    BY <1>1 DEF IInv, Negotiation, Agreement
  <1>6. \A m \in Sent' : m \in Sent \/ ~IsOffer(m)
    BY <1>1, NoMsgType DEF Sent, IsOffer
  <1> QED BY <1>2, <1>3, <1>4, <1>5, <1>6, TransportKept DEF MessageInv

\* A message is lost.
LEMMA LoseStep ==
  ASSUME IInv, UNCHANGED <<tracks, muting, signal, history>>, Lose
  PROVE  IInv'
  <1>1. /\ toClient' \subseteq toClient /\ toServer' \subseteq toServer /\ dropped' = TRUE
        /\ UNCHANGED <<server, client>>
    BY DEF Lose
  <1>2. MessageTypes' /\ MessageKinds'
    BY <1>1 DEF IInv, MessageTypes, MessageKinds
  <1>3. OneInFlight' /\ CurrentInFlight'
    BY <1>1 DEF IInv, OneInFlight, CurrentInFlight, IsOffer, NotSending, NotTaken,
      NotOnTheWay, NotRead, NotAnswered, NotReturned
  <1>4. Negotiation' /\ Agreement'
    BY <1>1 DEF IInv, Negotiation, Agreement
  <1>5. \A m \in Sent' : m \in Sent
    BY <1>1 DEF Sent
  <1> QED BY <1>2, <1>3, <1>4, <1>5, TransportKept DEF MessageInv

\* The client's answer passes to its sending goroutine.
LEMMA ClientHandsOverStep ==
  ASSUME IInv, UNCHANGED <<tracks, muting, signal, history>>, ClientHandsOver
  PROVE  IInv'
  <1>1. /\ cmsg # NoMsg /\ cwmsg = NoMsg /\ cwmsg' = cmsg /\ cmsg' = NoMsg /\ cpc' = "read"
        /\ UNCHANGED <<server, channel, alive, copen, observed, remote>>
    BY DEF ClientHandsOver, IInv, MessageTypes
  <1>2. MessageTypes' /\ MessageKinds'
    BY <1>1, NoMsgType DEF IInv, MessageTypes, MessageKinds
  <1>3. OneInFlight' /\ CurrentInFlight'
    BY <1>1 DEF IInv, OneInFlight, CurrentInFlight, IsOffer, NotSending, NotTaken,
      NotOnTheWay, NotRead, NotAnswered, NotReturned
  <1>4. Negotiation' /\ Agreement'
    BY <1>1 DEF IInv, Negotiation, Agreement
  <1>5. \A m \in Sent' : m \in Sent
    BY <1>1 DEF Sent
  <1> QED BY <1>2, <1>3, <1>4, <1>5, TransportKept DEF MessageInv

\* The client's sending goroutine sends it, or cannot.
LEMMA ClientSendsStep ==
  ASSUME IInv, UNCHANGED <<tracks, muting, signal, history>>, ClientSends
  PROVE  IInv'
  <1>1. /\ cwmsg # NoMsg /\ cwmsg' = NoMsg /\ cwmsg \in Message /\ cwmsg.type = "answer"
        /\ toServer' = toServer \cup {cwmsg} \/ toServer' = toServer
        /\ UNCHANGED <<server, toClient, alive, copen, observed, cpc, cmsg, remote>>
    BY DEF ClientSends, IInv, MessageTypes, MessageKinds
  <1>2. MessageTypes'
    <2>1. dropped' \in BOOLEAN
      BY DEF ClientSends, IInv, MessageTypes
    <2> QED BY <1>1, <2>1, NoMsgType DEF IInv, MessageTypes
  <1>3. MessageKinds'
    BY <1>1 DEF IInv, MessageKinds
  <1>4. OneInFlight' /\ CurrentInFlight'
    BY <1>1 DEF IInv, OneInFlight, CurrentInFlight, IsOffer, NotSending, NotTaken,
      NotOnTheWay, NotRead, NotAnswered, NotReturned
  <1>5. Negotiation' /\ Agreement'
    BY <1>1 DEF IInv, Negotiation, Agreement
  <1>6. \A m \in Sent' : m \in Sent
    BY <1>1 DEF Sent
  <1> QED BY <1>2, <1>3, <1>4, <1>5, <1>6, TransportKept DEF MessageInv

\* The client reads a message: it applies an offer and answers, or the offer is gone.
LEMMA ClientReadsStep ==
  ASSUME IInv, UNCHANGED <<tracks, muting, signal, history>>, NEW m \in toClient, ClientReads(m)
  PROVE  IInv'
  <1>1. m \in Message /\ toClient' = toClient \ {m} /\ cpc = "read" /\ UNCHANGED <<server, toServer>>
    BY DEF ClientReads, Unheard, IInv, MessageTypes
  <1>2. \A k \in Sent' : k \in Sent
    BY <1>1 DEF Sent
  <1>3. CASE dropped' = TRUE /\ UNCHANGED client
    <2>1. MessageTypes' /\ MessageKinds'
      BY <1>1, <1>3 DEF IInv, MessageTypes, MessageKinds
    <2>2. OneInFlight' /\ CurrentInFlight'
      BY <1>1, <1>3 DEF IInv, OneInFlight, CurrentInFlight, IsOffer, NotSending, NotTaken,
        NotOnTheWay, NotRead, NotAnswered, NotReturned
    <2>3. Negotiation' /\ Agreement'
      BY <1>3 DEF IInv, Negotiation, Agreement
    <2> QED BY <1>2, <2>1, <2>2, <2>3, TransportKept DEF MessageInv
  <1>4. CASE /\ m.type = "offer" /\ remote' = m.nth /\ cpc' = "answer"
             /\ cmsg' = [NoMsg EXCEPT !.type = "answer", !.number = m.number]
             /\ UNCHANGED <<alive, copen, observed, cwmsg, dropped>>
    <2>1. m.number \in Nat /\ m.nth = offered /\ ~NotOnTheWay
      BY <1>1, <1>4 DEF Message, IInv, CurrentInFlight, IsOffer, NotOnTheWay
    <2>2. cmsg' \in Message /\ cmsg'.type = "answer" /\ cmsg' # NoMsg
      BY <1>4, <2>1, AnswerType, NoMsgType
    <2>3. MessageTypes' /\ MessageKinds'
      BY <1>1, <1>4, <2>2 DEF IInv, MessageTypes, MessageKinds
    <2>4. NotSending' /\ NotTaken' /\ NotOnTheWay' /\ NotAnswered' /\ NotReturned' /\ toServer' = {}
      BY <1>1, <1>4, <2>1 DEF IInv, OneInFlight, IsOffer, NotSending, NotTaken, NotOnTheWay,
        NotAnswered, NotReturned
    <2>5. signaling = "have-local-offer" /\ npc = "idle"
      BY <2>1 DEF IInv, CurrentInFlight, Negotiation
    <2>6. OneInFlight'
      BY <2>4 DEF OneInFlight, NotOnTheWay, IsOffer
    <2>7. CurrentInFlight'
      BY <1>4, <2>1, <2>2, <2>4, <2>5 DEF CurrentInFlight, NotOnTheWay, IsOffer
    <2>8. Negotiation' /\ Agreement'
      BY <1>4, <2>1 DEF IInv, Negotiation, Agreement
    <2> QED BY <1>2, <2>3, <2>6, <2>7, <2>8, TransportKept DEF MessageInv
  <1>5. CASE /\ m.type = "offer" /\ dropped' = TRUE
             /\ UNCHANGED <<remote, cpc, cmsg, alive, copen, observed, cwmsg>>
    BY <1>3, <1>5
  <1>6. CASE OnMute(m)
    <2>1. /\ alive' = FALSE /\ cpc' = "read" /\ cmsg' = NoMsg /\ cwmsg' = NoMsg
          /\ UNCHANGED <<copen, observed, remote, dropped>>
      BY <1>6 DEF OnMute
    <2>2. MessageTypes' /\ MessageKinds'
      BY <1>1, <2>1, NoMsgType DEF IInv, MessageTypes, MessageKinds
    <2>3. OneInFlight' /\ CurrentInFlight'
      BY <1>1, <2>1 DEF IInv, OneInFlight, CurrentInFlight, IsOffer, NotSending, NotTaken,
        NotOnTheWay, NotRead, NotAnswered, NotReturned
    <2>4. Negotiation' /\ Agreement'
      BY <2>1 DEF IInv, Negotiation, Agreement
    <2> QED BY <1>2, <2>2, <2>3, <2>4, TransportKept DEF MessageInv
  <1>7. (dropped' = TRUE /\ UNCHANGED client) \/ OnOffer(m) \/ OnMute(m)
    BY DEF ClientReads, Unheard
  <1> QED BY <1>3, <1>4, <1>5, <1>6, <1>7 DEF OnOffer

LEMMA TransportKeeps ==
  ASSUME IInv, TransportStep
  PROVE  IInv'
  BY OpeningStep, HandOverStep, WorkerSendStep, LoseStep, ClientHandsOverStep, ClientSendsStep,
     ClientReadsStep DEF TransportStep, Transport

-----------------------------------------------------------------------------
(* The track. *)

\* What parseSdpInformation makes of a title.
LEMMA Parsed ==
  ASSUME NEW t \in Titles, NEW i, i = ParseSdpInformation(t)
  PROVE  i \in Info /\ i # NoInfo
  <1>1. t \in Seq(Word)
    BY TitleWords
  <1>2. CASE Len(t) # 3
    <2>1. i = Guest
      BY <1>2 DEF ParseSdpInformation
    <2>2. "Guest" \in Word
      BY Words
    <2>3. 1 \in 0..2
      OBVIOUS
    <2>4. i \in Info
      BY <2>1, <2>2, <2>3, InfoRecord, Zenon DEF Guest
    <2>5. i.purpose = 1 /\ NoInfo.purpose = 0
      BY <2>1 DEF Guest, NoInfo
    <2> QED BY <2>4, <2>5
  <1>3. CASE Len(t) = 3
    <2>1. t[3] \in Word
      BY <1>3, TitleWords
    <2>2. i = [purpose |-> IF t[1] = "2" THEN 2 ELSE 1, mute |-> t[2] = "1", name |-> t[3],
               mid |-> FALSE]
      BY <1>3 DEF ParseSdpInformation
    <2>3. (t[2] = "1") \in BOOLEAN
      OBVIOUS
    <2>4. i.purpose \in 1..2
      BY <2>2
    <2>5. i \in Info
      <3>1. (IF t[1] = "2" THEN 2 ELSE 1) \in 0..2
        OBVIOUS
      <3> QED BY <2>1, <2>2, <2>3, <3>1, InfoRecord, Zenon
    <2>6. NoInfo.purpose = 0
      BY DEF NoInfo
    <2> QED BY <2>4, <2>5, <2>6
  <1> QED BY <1>2, <1>3

\* buildSdpInformation writes what parseSdpInformation read.
LEMMA Rebuilt ==
  ASSUME NEW t \in Titles, NEW i \in Info, NEW b, b = BuildSdpInformation(i),
         i.purpose = ParseSdpInformation(t).purpose, i.name = ParseSdpInformation(t).name
  PROVE  /\ b \in Seq(Word)
         /\ Len(t) = 3 =>
              b[1] = t[1] /\ b[3] = t[3] /\ (i.mute = ParseSdpInformation(t).mute => b = t)
  <1>1. /\ b = <<IF i.purpose = 2 THEN "2" ELSE "1", IF i.mute THEN "1" ELSE "2", i.name>>
        /\ i.name \in Word
    BY DEF BuildSdpInformation, Info
  <1>2. b \in Seq(Word) /\ Len(b) = 3
    <2>1. ASSUME NEW p \in Word, NEW q \in Word, NEW r \in Word
          PROVE  <<p, q, r>> \in Seq(Word) /\ Len(<<p, q, r>>) = 3
      OBVIOUS
    <2>2. (IF i.purpose = 2 THEN "2" ELSE "1") \in Word
      BY Words
    <2>3. (IF i.mute THEN "1" ELSE "2") \in Word
      BY Words
    <2> QED BY <1>1, <2>1, <2>2, <2>3
  <1>3. ASSUME Len(t) = 3
        PROVE  b[1] = t[1] /\ b[3] = t[3] /\ (i.mute = ParseSdpInformation(t).mute => b = t)
    <2>1. t[1] \in {"1", "2"} /\ t[2] \in {"1", "2"} /\ t \in Seq(Word)
      BY <1>3, TitleWords
    <2>2. i.purpose = (IF t[1] = "2" THEN 2 ELSE 1) /\ i.name = t[3]
      BY <1>3 DEF ParseSdpInformation
    <2>3. b[1] = t[1] /\ b[3] = t[3]
      BY <1>1, <2>1, <2>2
    <2>4. ASSUME i.mute = ParseSdpInformation(t).mute
          PROVE  b = t
      <3>1. ParseSdpInformation(t).mute = (t[2] = "1")
        BY <1>3 DEF ParseSdpInformation
      <3>2. b[2] = t[2]
        <4>1. b[2] = IF t[2] = "1" THEN "1" ELSE "2"
          <5>1. i.mute = (t[2] = "1")
            BY <2>4, <3>1
          <5>2. b[2] = IF i.mute THEN "1" ELSE "2"
            BY <1>1
          <5> QED BY <5>1, <5>2
        <4> QED BY <2>1, <4>1
      <3>3. \A k \in 1..3 : b[k] = t[k]
        BY <2>3, <3>2
      <3> QED BY <1>2, <1>3, <2>1, <3>3, SeqEqual
    <2> QED BY <2>3, <2>4
  <1> QED BY <1>2, <1>3

LEMMA PublishStep ==
  ASSUME IInv, NEW t \in Titles, Publish(t)
  PROVE  IInv'
  <1>1. /\ info = NoInfo /\ title' = t /\ info' = ParseSdpInformation(t)
        /\ UNCHANGED <<server, channel, client, hub, egress, muting, signal, history>>
    BY DEF Publish
  <1>2. info' \in Info /\ info' # NoInfo
    BY <1>1, Parsed
  <1>3. changes = <<>> /\ hub = NoInfo /\ egress = NoInfo
    BY <1>1 DEF IInv, Copies, Copy
  <1>4. MessageInv'
    <2>1. needed' \in BOOLEAN
      BY <1>1 DEF IInv, Negotiation
    <2> QED BY <1>1, <2>1, MessagesKept
  <1>5. Copies'
    BY <1>1, <1>2, <1>3 DEF IInv, Copies, Copy
  <1>6. OfferedTitles'
    <2>1. Sent' = Sent
      BY <1>1 DEF Sent
    <2>2. \A m \in Sent : ~(IsOffer(m) /\ m.title # <<>>)
      BY <1>1 DEF IInv, OfferedTitles, OfferedTitle
    <2> QED BY <2>1, <2>2 DEF OfferedTitles, OfferedTitle, IsOffer
  <1>7. Changes'
    BY <1>1 DEF IInv, Changes, Last
  <1>8. LastChange'
    <2>1. Last = 0
      BY <1>3 DEF Last
    <2> QED BY <1>1, <1>3, <2>1 DEF IInv, LastChange, Last, Through, Changes
  <1> QED BY <1>4, <1>5, <1>6, <1>7, <1>8, Together

LEMMA OnTrackStep ==
  ASSUME IInv, OnTrack
  PROVE  IInv'
  <1>1. /\ info # NoInfo /\ info' = [info EXCEPT !.mid = TRUE] /\ hub' = info'
        /\ UNCHANGED <<server, channel, client, title, egress, muting, signal, history>>
    BY DEF OnTrack
  <1>2. /\ info \in Info /\ info' \in Info /\ info' # NoInfo
        /\ info'.mute = info.mute /\ info'.purpose = info.purpose /\ info'.name = info.name
    BY <1>1 DEF IInv, Copies, Info, NoInfo
  <1>3. MessageInv'
    <2>1. needed' \in BOOLEAN
      BY <1>1 DEF IInv, Negotiation
    <2> QED BY <1>1, <2>1, MessagesKept
  <1>4. Copies'
    BY <1>1, <1>2 DEF IInv, Copies, Copy
  <1>5. OfferedTitles'
    <2>1. Sent' = Sent
      BY <1>1 DEF Sent
    <2> QED BY <1>1, <1>2, <2>1 DEF IInv, OfferedTitles, OfferedTitle, IsOffer
  <1>6. Changes' /\ LastChange'
    <2>1. egress' = NoInfo \/ (egress # NoInfo /\ egress'.mute = egress.mute)
      BY <1>1
    <2> QED BY <1>1, <1>2, <2>1, MutesKept
  <1> QED BY <1>3, <1>4, <1>5, <1>6, Together

\* The copy of an endpoint starts with the flag of the hub, so no change counts as later.
LEMMA AddTrackStep ==
  ASSUME IInv, AddTrack
  PROVE  IInv'
  <1>1. /\ hub # NoInfo /\ egress' = [hub EXCEPT !.mid = FALSE] /\ needed' = TRUE
        /\ fresh' = FALSE
        /\ UNCHANGED <<server, channel, client, title, info, hub, muting, signaling, npc, numbering, overlapped>>
    BY DEF AddTrack, SetEgressInfo
  <1>2. /\ hub \in Info /\ egress' \in Info
        /\ egress'.mute = hub.mute /\ egress'.purpose = hub.purpose /\ egress'.name = hub.name
    BY <1>1 DEF IInv, Copies, Info
  <1>3. MessageInv'
    <2>1. needed' \in BOOLEAN
      BY <1>1
    <2> QED BY <1>1, <2>1, MessagesKept
  <1>4. Copies'
    BY <1>1, <1>2 DEF IInv, Copies, Copy
  <1>5. OfferedTitles'
    <2>1. Sent' = Sent
      BY <1>1 DEF Sent
    <2> QED BY <1>1, <2>1 DEF IInv, OfferedTitles, OfferedTitle, IsOffer
  <1>6. Last \in Nat
    BY DEF IInv, Changes, Last
  <1>7. Changes'
    BY <1>1, <1>6 DEF IInv, Changes, Last
  <1>8. LastChange'
    BY <1>1, <1>6 DEF IInv, LastChange, Last, Through
  <1> QED BY <1>3, <1>4, <1>5, <1>7, <1>8, Together

LEMMA RemoveTrackStep ==
  ASSUME IInv, RemoveTrack
  PROVE  IInv'
  <1>1. /\ hub' = NoInfo /\ egress' = NoInfo /\ needed' = TRUE
        /\ UNCHANGED <<server, channel, client, title, info, muting, signaling, npc, numbering, history>>
    BY DEF RemoveTrack, SetEgressInfo
  <1>2. NoInfo \in Info
    BY NoInfoType
  <1>3. MessageInv'
    <2>1. needed' \in BOOLEAN
      BY <1>1
    <2> QED BY <1>1, <2>1, MessagesKept
  <1>4. Copies'
    BY <1>1, <1>2 DEF IInv, Copies, Copy
  <1>5. OfferedTitles'
    <2>1. Sent' = Sent
      BY <1>1 DEF Sent
    <2> QED BY <1>1, <2>1 DEF IInv, OfferedTitles, OfferedTitle, IsOffer
  <1>6. Changes' /\ LastChange'
    BY <1>1, MutesKept
  <1> QED BY <1>3, <1>4, <1>5, <1>6, Together

-----------------------------------------------------------------------------
(* Muting. *)

\* What a step of muting leaves alone.
LEMMA MutingKept ==
  ASSUME IInv, UNCHANGED <<server, channel, client, title, hub, egress, changes, signal, history>>,
         UNCHANGED info
  PROVE  MessageInv' /\ Copies' /\ OfferedTitles'
  <1>1. MessageInv'
    <2>1. needed' \in BOOLEAN
      BY DEF IInv, Negotiation
    <2> QED BY <2>1, MessagesKept
  <1>2. \A m \in Sent' : m \in Sent \/ ~IsOffer(m)
    BY DEF Sent
  <1>3. Copies' /\ OfferedTitles'
    BY <1>2, TitlesKept
  <1> QED BY <1>1, <1>3

\* A step of the change n that is under way.
LEMMA StepType ==
  ASSUME IInv, NEW n \in Muter, NEW to \in {"none", "dispatch", "session", "done", "failed"}, Step(n, to)
  PROVE  /\ mpc' \in [Muter -> {"none", "dispatch", "session", "done", "failed"}]
         /\ \A k \in Muter : mpc'[k] = IF k = n THEN to ELSE mpc[k]
  BY DEF IInv, Changes, Step

\* Without overlap a change that is not through is the last one.
LEMMA OnlyLast ==
  ASSUME IInv, NEW n \in Muter, ~Through(n), n <= Last, ~overlapped
  PROVE  n = Last
  <1>1. Last \in Nat /\ n \in Nat
    BY DEF IInv, Changes, Last, Muter
  <1> QED BY <1>1 DEF IInv, LastChange

LEMMA PressStep ==
  ASSUME IInv, NEW b \in BOOLEAN, Press(b)
  PROVE  IInv'
  <1>1. /\ info # NoInfo /\ Len(changes) < MaxMutes /\ changes' = Append(changes, b)
        /\ mutes' = mutes \cup {[n |-> Len(changes'), mute |-> b]}
        /\ overlapped' = (overlapped \/ \E n \in DOMAIN changes : ~Through(n))
        /\ fresh' \in BOOLEAN
        /\ UNCHANGED <<server, channel, client, tracks, mpc, mval, signal>>
    BY DEF Press
  <1>2. /\ changes \in Seq(BOOLEAN) /\ Last \in Nat /\ Last < MaxMutes
        /\ changes' \in Seq(BOOLEAN) /\ changes' # <<>> /\ Last' = Last + 1 /\ Len(changes') = Last + 1
        /\ changes'[Last + 1] = b
        /\ \A k \in 1..Last : changes'[k] = changes[k]
    BY <1>1 DEF IInv, Changes, Last
  <1>3. MessageInv'
    <2>1. needed' \in BOOLEAN
      BY <1>1 DEF IInv, Negotiation
    <2> QED BY <1>1, <2>1, MessagesKept
  <1>4. Copies'
    BY <1>1, <1>2 DEF IInv, Copies, Copy
  <1>5. OfferedTitles'
    <2>1. Sent' = Sent
      BY <1>1 DEF Sent
    <2> QED BY <1>1, <1>2, <2>1 DEF IInv, OfferedTitles, OfferedTitle, IsOffer
  <1>6. DOMAIN changes = 1..Last /\ Muter = 1..MaxMutes
    BY <1>2 DEF Last, Muter
  <1>7. Changes'
    <2>1. overlapped' \in BOOLEAN
      BY <1>1 DEF IInv, Changes
    <2>2. Last + 1 \in Muter /\ mpc[Last + 1] = "none"
      BY <1>2, <1>6 DEF IInv, Changes
    <2>3. mutes' \subseteq [n : Muter, mute : BOOLEAN]
      <3>1. [n |-> Last + 1, mute |-> b] \in [n : Muter, mute : BOOLEAN]
        BY <2>2
      <3> QED BY <1>1, <1>2, <3>1 DEF IInv, Changes
    <2>4. \A m \in mutes : m.n \in 1..Last
      BY <1>2, <1>6 DEF IInv, Changes
    <2>5. \A m \in mutes' : m.n <= Last + 1 /\ mpc[m.n] = "none" /\ m.mute = changes'[m.n]
      <3>1. TAKE m \in mutes'
      <3>2. CASE m \in mutes
        BY <1>2, <2>4, <3>2 DEF IInv, Changes
      <3>3. CASE m = [n |-> Last + 1, mute |-> b]
        BY <1>2, <2>2, <3>3
      <3> QED BY <1>1, <1>2, <3>2, <3>3
    <2>6. \A m, k \in mutes' : m.n = k.n => m = k
      BY <1>1, <1>2, <2>4 DEF IInv, Changes
    <2>7. \A n \in Muter : mpc[n] \in {"dispatch", "session", "done"} => mval[n] = changes'[n]
      BY <1>2, <1>6 DEF IInv, Changes
    <2>8. \A n \in Muter : n > Last + 1 => mpc[n] = "none"
      BY <1>2, <1>6 DEF IInv, Changes
    <2>9. Last + 1 > 0 /\ Last + 1 <= MaxMutes
      BY <1>2 DEF IInv, Changes
    <2> QED BY <1>1, <1>2, <2>1, <2>3, <2>5, <2>6, <2>7, <2>8, <2>9 DEF IInv, Changes
  <1>8. LastChange'
    <2>1. mpc'[Last + 1] = "none"
      BY <1>1, <1>2, <1>6 DEF IInv, Changes
    <2>2. ASSUME ~overlapped', NEW n \in Muter, n < Last + 1
          PROVE  mpc[n] \in {"done", "failed"}
      <3>1. n \in DOMAIN changes
        BY <1>2, <1>6, <2>2
      <3>2. Through(n)
        BY <1>1, <2>2, <3>1
      <3> QED BY <3>2 DEF Through
    <2> QED BY <1>1, <1>2, <2>1, <2>2 DEF LastChange, Through
  <1> QED BY <1>3, <1>4, <1>5, <1>7, <1>8, Together

LEMMA LoseMuteStep ==
  ASSUME IInv, NEW m \in mutes, LoseMute(m)
  PROVE  IInv'
  <1>1. /\ mutes' = mutes \ {m} /\ Step(m.n, "failed")
        /\ UNCHANGED <<server, channel, client, tracks, changes, mval, signal, history>>
    BY DEF LoseMute
  <1>2. m.n \in Muter
    BY DEF IInv, Changes
  <1>3. /\ mpc' \in [Muter -> {"none", "dispatch", "session", "done", "failed"}]
        /\ \A k \in Muter : mpc'[k] = IF k = m.n THEN "failed" ELSE mpc[k]
    BY <1>1, <1>2, StepType
  <1>4. MessageInv' /\ Copies' /\ OfferedTitles'
    BY <1>1, MutingKept
  <1>5. Last \in Nat /\ m.n \in 1..Last
    BY <1>2 DEF IInv, Changes, Last, Muter
  <1>6. Changes'
    BY <1>1, <1>2, <1>3, <1>5 DEF IInv, Changes, Last, Muter
  <1>7. LastChange'
    BY <1>1, <1>2, <1>3, <1>5 DEF IInv, Changes, LastChange, Last, Through, Muter
  <1> QED BY <1>4, <1>6, <1>7, Together

\* The flag reaches the publisher's copy.
LEMMA SetIngressMuteStep ==
  ASSUME IInv, NEW m \in mutes, SetIngressMute(m)
  PROVE  IInv'
  <1>1. /\ mutes' = mutes \ {m}
        /\ UNCHANGED <<server, channel, client, title, hub, egress, changes, signal, history>>
    BY DEF SetIngressMute, HandleMuteMsg
  <1>2. /\ m.n \in Muter /\ m.mute \in BOOLEAN /\ m.mute = changes[m.n] /\ mpc[m.n] = "none"
        /\ Last \in Nat /\ m.n \in 1..Last /\ changes # <<>>
    BY DEF IInv, Changes, Last, Muter
  <1>3. CASE Step(m.n, "failed") /\ UNCHANGED <<info, mval>>
    BY <1>1, <1>3, LoseMuteStep DEF LoseMute
  <1>4. CASE /\ info.mid /\ info' = Muted(info, m.mute)
             /\ mval' = [mval EXCEPT ![m.n] = m.mute] /\ Step(m.n, "dispatch")
    <2>1. /\ mpc' \in [Muter -> {"none", "dispatch", "session", "done", "failed"}]
          /\ \A k \in Muter : mpc'[k] = IF k = m.n THEN "dispatch" ELSE mpc[k]
      BY <1>2, <1>4, StepType
    <2>2. /\ mval' \in [Muter -> BOOLEAN]
          /\ \A k \in Muter : mval'[k] = IF k = m.n THEN m.mute ELSE mval[k]
      BY <1>2, <1>4 DEF IInv, Changes
    <2>3. info # NoInfo
      BY <1>2 DEF IInv, Copies
    <2>4. /\ info' \in Info /\ info'.purpose = info.purpose /\ info'.name = info.name
          /\ info'.mute = m.mute /\ info'.mid = info.mid
      BY <1>2, <1>4 DEF IInv, Copies, Info, Muted
    <2>5. info' # NoInfo
      <3>1. NoInfo.mid = FALSE
        BY DEF NoInfo
      <3> QED BY <1>4, <2>4, <3>1
    <2>6. MessageInv'
      <3>1. needed' \in BOOLEAN
        BY <1>1 DEF IInv, Negotiation
      <3> QED BY <1>1, <3>1, MessagesKept
    <2>7. Copies'
      BY <1>1, <1>2, <2>3, <2>4, <2>5 DEF IInv, Copies, Copy
    <2>8. OfferedTitles'
      <3>1. Sent' = Sent
        BY <1>1 DEF Sent
      <3> QED BY <1>1, <2>5, <3>1 DEF IInv, OfferedTitles, OfferedTitle, IsOffer
    <2>9. Changes'
      <3>1. \A k \in mutes' : k.n # m.n
        BY <1>1 DEF IInv, Changes
      <3>2. \A k \in mutes' : k.n <= Last /\ mpc'[k.n] = "none" /\ k.mute = changes[k.n]
        BY <1>1, <2>1, <3>1 DEF IInv, Changes
      <3>3. \A n \in Muter : mpc'[n] \in {"dispatch", "session", "done"} => mval'[n] = changes[n]
        BY <1>2, <2>1, <2>2 DEF IInv, Changes
      <3>4. \A n \in Muter : n > Last => mpc'[n] = "none"
        BY <1>2, <2>1 DEF IInv, Changes, Muter
      <3> QED BY <1>1, <2>1, <2>2, <3>2, <3>3, <3>4 DEF IInv, Changes, Last
    <2>10. LastChange'
      <3>1. ~overlapped => m.n = Last
        BY <1>2, OnlyLast DEF Through
      <3>2. ~overlapped => \A n \in Muter : n < Last => mpc'[n] \in {"done", "failed"}
        BY <1>2, <2>1, <3>1 DEF IInv, LastChange, Through, Muter
      <3>3. ~overlapped => info'.mute = changes[Last] /\ mpc'[Last] = "dispatch"
        BY <1>2, <2>1, <2>4, <3>1
      <3> QED BY <1>1, <3>2, <3>3 DEF LastChange, Last, Through
    <2> QED BY <2>6, <2>7, <2>8, <2>9, <2>10, Together
  <1> QED BY <1>3, <1>4 DEF SetIngressMute, GetTrackSdpInfoByIngressMid

LEMMA DispatchMuteTrackStep ==
  ASSUME IInv, NEW n \in Muter, DispatchMuteTrack(n)
  PROVE  IInv'
  <1>1. /\ mpc[n] = "dispatch" /\ (Step(n, "session") \/ Step(n, "failed"))
        /\ UNCHANGED <<server, channel, client, tracks, changes, mutes, mval, signal, history>>
    BY DEF DispatchMuteTrack, OnMuteTrack
  <1>2. PICK to \in {"session", "failed"} :
          /\ mpc' \in [Muter -> {"none", "dispatch", "session", "done", "failed"}]
          /\ \A k \in Muter : mpc'[k] = IF k = n THEN to ELSE mpc[k]
    BY <1>1, StepType
  <1>3. MessageInv' /\ Copies' /\ OfferedTitles'
    BY <1>1, MutingKept
  <1>4. Last \in Nat /\ n \in 1..Last
    BY <1>1 DEF IInv, Changes, Last, Muter
  <1>5. Changes'
    <2>1. \A m \in mutes : m.n # n
      BY <1>1 DEF IInv, Changes
    <2> QED BY <1>1, <1>2, <1>4, <2>1 DEF IInv, Changes, Last, Muter
  <1>6. LastChange'
    BY <1>1, <1>2, <1>4 DEF IInv, LastChange, Last, Through, Muter
  <1> QED BY <1>3, <1>5, <1>6, Together

\* The flag reaches the subscriber's copy, and a message the messenger.
LEMMA MuteTrackStep ==
  ASSUME IInv, NEW n \in Muter, MuteTrack(n)
  PROVE  IInv'
  <1>1. /\ mpc[n] = "session"
        /\ UNCHANGED <<channel, client, title, info, hub, changes, mutes, mval, signal, history>>
    BY DEF MuteTrack
  <1>2. Last \in Nat /\ n \in 1..Last /\ changes # <<>> /\ mval[n] \in BOOLEAN /\ mval[n] = changes[n]
    BY <1>1 DEF IInv, Changes, Last, Muter
  <1>3. \A m \in mutes : m.n # n
    BY <1>1 DEF IInv, Changes
  <1>4. CASE egress = NoInfo
    <2>1. Step(n, "failed") /\ UNCHANGED <<server, egress>>
      BY <1>4 DEF MuteTrack
    <2>2. /\ mpc' \in [Muter -> {"none", "dispatch", "session", "done", "failed"}]
          /\ \A k \in Muter : mpc'[k] = IF k = n THEN "failed" ELSE mpc[k]
      BY <2>1, StepType
    <2>3. MessageInv' /\ Copies' /\ OfferedTitles'
      BY <1>1, <2>1, MutingKept
    <2>4. Changes'
      BY <1>1, <1>2, <1>3, <2>2 DEF IInv, Changes, Last, Muter
    <2>5. LastChange'
      BY <1>1, <1>2, <2>1, <2>2 DEF IInv, LastChange, Last, Through, Muter
    <2> QED BY <2>3, <2>4, <2>5, Together
  <1>5. CASE egress # NoInfo
    <2>1. Step(n, "done") /\ egress' = Muted(egress, mval[n]) /\ SendMute(n, egress.mid, mval[n])
      BY <1>5 DEF MuteTrack
    <2>2. /\ mpc' \in [Muter -> {"none", "dispatch", "session", "done", "failed"}]
          /\ \A k \in Muter : mpc'[k] = IF k = n THEN "done" ELSE mpc[k]
      BY <2>1, StepType
    <2>3. /\ egress \in Info /\ egress' \in Info /\ egress'.purpose = egress.purpose
          /\ egress'.name = egress.name /\ egress'.mute = mval[n]
      BY <1>2, <2>1 DEF IInv, Copies, Info, Muted
    <2>4. PICK m : /\ m \in Message /\ m.type = "mute"
                   /\ spc' = [spc EXCEPT ![n] = "send"] /\ smsg' = [smsg EXCEPT ![n] = m]
                   /\ UNCHANGED <<wpc, wmsg>>
      <3>1. n \in Nat /\ egress.mid \in BOOLEAN
        BY <1>2, <2>3 DEF Info
      <3> QED BY <1>2, <2>1, <3>1, MuteType DEF SendMute, Enter
    <2>5. /\ \A x \in Sender : smsg'[x] = IF x = n THEN m ELSE smsg[x]
          /\ \A x \in Sender : spc'[x] = IF x = n THEN "send" ELSE spc[x]
          /\ spc' \in [Sender -> {"idle", "send"}] /\ smsg' \in [Sender -> Message]
      BY <2>4, Senders DEF IInv, MessageTypes
    <2>6. m # NoMsg /\ ~IsOffer(m)
      BY <2>4, NoMsgType DEF IsOffer
    <2>7. MessageTypes'
      <3>1. \A x \in Sender : (spc'[x] = "idle") <=> (smsg'[x] = NoMsg)
        BY <2>5, <2>6 DEF IInv, MessageTypes
      <3> QED BY <1>1, <2>4, <2>5, <3>1 DEF IInv, MessageTypes
    <2>8. smsg'[Negotiator] = smsg[Negotiator]
      BY <2>5, Senders
    <2>9. MessageKinds'
      BY <1>1, <2>4, <2>5, <2>8, Senders DEF IInv, MessageKinds
    <2>10. OneInFlight' /\ CurrentInFlight'
      BY <1>1, <2>4, <2>8 DEF IInv, OneInFlight, CurrentInFlight, IsOffer, NotSending, NotTaken,
        NotOnTheWay, NotRead, NotAnswered, NotReturned
    <2>11. Negotiation' /\ Agreement'
      BY <1>1 DEF IInv, Negotiation, Agreement
    <2>12. Copies'
      BY <1>1, <1>2, <1>5, <2>3 DEF IInv, Copies, Copy
    <2>13. OfferedTitles'
      <3>1. \A k \in Sent' : k \in Sent \/ ~IsOffer(k)
        BY <1>1, <2>4, <2>5, <2>6 DEF Sent
      <3> QED BY <1>1, <3>1 DEF IInv, OfferedTitles, OfferedTitle, IsOffer
    <2>14. Changes'
      BY <1>1, <1>2, <1>3, <2>2 DEF IInv, Changes, Last, Muter
    <2>15. LastChange'
      <3>1. ~overlapped => n = Last
        BY <1>1, <1>2, OnlyLast DEF Through
      <3>2. ~overlapped => \A k \in Muter : k < Last => mpc'[k] \in {"done", "failed"}
        BY <1>2, <2>2 DEF IInv, LastChange, Through
      <3>3. ~overlapped => info'.mute = changes[Last] /\ egress'.mute = changes[Last]
        BY <1>1, <1>2, <2>3, <3>1 DEF IInv, LastChange
      <3> QED BY <1>1, <3>2, <3>3 DEF LastChange, Last, Through
    <2> QED BY <2>7, <2>9, <2>10, <2>11, <2>12, <2>13, <2>14, <2>15, Together DEF MessageInv
  <1> QED BY <1>4, <1>5

-----------------------------------------------------------------------------
(* Negotiation. *)

\* setOfferer changes what answers are compared with, and no message.
LEMMA SetOffererStep ==
  ASSUME IInv, SetOfferer
  PROVE  IInv'
  <1>1. /\ offerer' \in {"nil", "set", "ready"} /\ (number' = number \/ number' = 0)
        /\ UNCHANGED <<server, channel, client, tracks, muting, signaling, needed, npc, offered, early, history>>
    BY DEF SetOfferer
  <1>2. MessageTypes' /\ MessageKinds'
    BY <1>1 DEF IInv, MessageTypes, MessageKinds
  <1>3. Negotiation' /\ Agreement'
    BY <1>1 DEF IInv, Negotiation, Agreement
  <1>4. OneInFlight' /\ CurrentInFlight'
    BY <1>1 DEF IInv, OneInFlight, CurrentInFlight, IsOffer, NotSending, NotTaken, NotOnTheWay,
      NotRead, NotAnswered, NotReturned
  <1>5. Copies' /\ OfferedTitles'
    <2>1. \A m \in Sent' : m \in Sent \/ ~IsOffer(m)
      BY <1>1 DEF Sent
    <2> QED BY <1>1, <2>1, TitlesKept
  <1>6. Changes' /\ LastChange'
    <2>1. egress' = NoInfo \/ (egress # NoInfo /\ egress'.mute = egress.mute)
      BY <1>1
    <2> QED BY <1>1, <2>1, MutesKept
  <1> QED BY <1>2, <1>3, <1>4, <1>5, <1>6, Together DEF MessageInv

\* Nothing is under way when an offer is made.
LEMMA DoRenegotiationStep ==
  ASSUME IInv, DoRenegotiation
  PROVE  IInv'
  <1>1. /\ signaling = "stable" /\ offered < MaxOffers /\ needed' = FALSE
        /\ (signaling' = "have-local-offer" /\ npc' = "munge") \/ UNCHANGED <<signaling, npc>>
        /\ UNCHANGED <<server, channel, client, tracks, muting, numbering, history>>
    BY DEF DoRenegotiation
  <1>2. MessageTypes' /\ MessageKinds'
    BY <1>1 DEF IInv, MessageTypes, MessageKinds
  <1>3. Negotiation' /\ Agreement'
    BY <1>1 DEF IInv, Negotiation, Agreement
  <1>4. OneInFlight' /\ CurrentInFlight'
    BY <1>1 DEF IInv, OneInFlight, CurrentInFlight, IsOffer, NotSending, NotTaken, NotOnTheWay,
      NotRead, NotAnswered, NotReturned
  <1>5. Copies' /\ OfferedTitles'
    <2>1. \A m \in Sent' : m \in Sent \/ ~IsOffer(m)
      BY <1>1 DEF Sent
    <2> QED BY <1>1, <2>1, TitlesKept
  <1>6. Changes' /\ LastChange'
    <2>1. egress' = NoInfo \/ (egress # NoInfo /\ egress'.mute = egress.mute)
      BY <1>1
    <2> QED BY <1>1, <2>1, MutesKept
  <1> QED BY <1>2, <1>3, <1>4, <1>5, <1>6, Together DEF MessageInv

\* The offer carries the title of the copy, written again.
LEMMA OfferTracksStep ==
  ASSUME IInv, OfferTracks
  PROVE  IInv'
  <1>1. /\ npc = "munge" /\ npc' = "idle" /\ number' = number + 1 /\ offered' = offered + 1
        /\ egress' = (IF egress = NoInfo THEN NoInfo ELSE [egress EXCEPT !.mid = TRUE])
        /\ UNCHANGED <<channel, client, title, info, hub, muting, signaling, needed, offerer, history>>
        /\ SendOffer(number + 1, offered + 1, IF egress = NoInfo THEN <<>> ELSE BuildSdpInformation(egress))
    BY DEF OfferTracks, NextOffer
  <1>2. /\ signaling = "have-local-offer" /\ number \in Nat /\ offered \in Nat
        /\ number <= offered /\ offered < MaxOffers
        /\ NotSending /\ NotTaken /\ NotOnTheWay /\ NotRead /\ NotAnswered /\ NotReturned
    BY <1>1 DEF IInv, Negotiation, CurrentInFlight
  <1>3. PICK t : t = IF egress = NoInfo THEN <<>> ELSE BuildSdpInformation(egress)
    OBVIOUS
  <1>4. /\ t \in Seq(Word)
        /\ t # <<>> =>
             /\ info # NoInfo
             /\ Len(title) = 3 => t[1] = title[1] /\ t[3] = title[3] /\ (changes = <<>> => t = title)
    <2>1. CASE egress = NoInfo
      BY <1>3, <2>1, EmptyTitle
    <2>2. CASE egress # NoInfo
      <3>1. /\ egress \in Info /\ info # NoInfo /\ title \in Titles
            /\ egress.purpose = ParseSdpInformation(title).purpose
            /\ egress.name = ParseSdpInformation(title).name
            /\ changes = <<>> => egress.mute = ParseSdpInformation(title).mute
        BY <2>2 DEF IInv, Copies, Copy
      <3> QED BY <1>3, <2>2, <3>1, Rebuilt
    <2> QED BY <2>1, <2>2
  <1>5. PICK m : /\ m \in Message /\ m.type = "offer" /\ m.nth = offered + 1 /\ m.title = t
                 /\ spc' = [spc EXCEPT ![Negotiator] = "send"] /\ smsg' = [smsg EXCEPT ![Negotiator] = m]
                 /\ UNCHANGED <<wpc, wmsg>>
    <2> PICK n \in Nat : n = number + 1
      BY <1>2
    <2> PICK k \in Nat : k = offered + 1
      BY <1>2
    <2>1. SendOffer(n, k, t)
      BY <1>1, <1>3
    <2>2. PICK m : m = [NoMsg EXCEPT !.type = "offer", !.number = n, !.nth = k, !.title = t]
      OBVIOUS
    <2>3. m \in Message /\ m.type = "offer" /\ m.nth = k /\ m.title = t
      <3>1. t \in Seq(Word)
        BY <1>4
      <3> QED BY <3>1, <2>2 DEF NoMsg, Message
    <2>4. Enter(Negotiator, m)
      BY <2>1, <2>2 DEF SendOffer
    <2> QED BY <2>3, <2>4 DEF Enter
  <1>6. /\ \A x \in Sender : smsg'[x] = IF x = Negotiator THEN m ELSE smsg[x]
        /\ \A x \in Sender : spc'[x] = IF x = Negotiator THEN "send" ELSE spc[x]
        /\ spc' \in [Sender -> {"idle", "send"}] /\ smsg' \in [Sender -> Message]
    BY <1>5, Senders DEF IInv, MessageTypes
  <1>7. m # NoMsg /\ smsg'[Negotiator] = m
    BY <1>5, <1>6, NoMsgType, Senders
  <1>8. MessageTypes'
    <2>1. \A x \in Sender : (spc'[x] = "idle") <=> (smsg'[x] = NoMsg)
      BY <1>6, <1>7 DEF IInv, MessageTypes
    <2> QED BY <1>1, <1>5, <1>6, <2>1 DEF IInv, MessageTypes
  <1>9. MessageKinds'
    BY <1>1, <1>5, <1>6, <1>7, Senders DEF IInv, MessageKinds
  <1>10. NotTaken' /\ NotOnTheWay' /\ NotRead' /\ NotAnswered' /\ NotReturned'
    BY <1>1, <1>2, <1>5 DEF IsOffer, NotTaken, NotOnTheWay, NotRead, NotAnswered, NotReturned
  <1>11. OneInFlight'
    BY <1>10 DEF OneInFlight, NotOnTheWay, NotReturned, IsOffer
  <1>12. CurrentInFlight'
    BY <1>1, <1>2, <1>5, <1>7, <1>10 DEF CurrentInFlight, NotOnTheWay, NotReturned, IsOffer
  <1>13. Negotiation' /\ Agreement'
    BY <1>1, <1>2 DEF IInv, Negotiation, Agreement
  <1>14. Copies' /\ egress' \in Info
    <2>1. CASE egress = NoInfo
      BY <1>1, <2>1 DEF IInv, Copies, Copy
    <2>2. CASE egress # NoInfo
      <3>1. /\ egress' \in Info /\ egress'.purpose = egress.purpose /\ egress'.name = egress.name
            /\ egress'.mute = egress.mute
        BY <1>1, <2>2 DEF IInv, Copies, Info
      <3> QED BY <1>1, <2>2, <3>1 DEF IInv, Copies, Copy
    <2> QED BY <2>1, <2>2
  <1>15. OfferedTitles'
    <2>1. \A k \in Sent' : k \in Sent \/ k = m
      BY <1>1, <1>5, <1>6 DEF Sent
    <2>2. OfferedTitle(m)
      BY <1>4, <1>5 DEF OfferedTitle
    <2> QED BY <1>1, <2>1, <2>2 DEF IInv, OfferedTitles, OfferedTitle, IsOffer
  <1>16. Changes' /\ LastChange'
    <2>1. egress' = NoInfo \/ (egress # NoInfo /\ egress'.mute = egress.mute)
      BY <1>1 DEF IInv, Copies, Info
    <2> QED BY <1>1, <2>1, MutesKept
  <1> QED BY <1>8, <1>9, <1>11, <1>12, <1>13, <1>14, <1>15, <1>16, Together DEF MessageInv

\* An answer is the only message under way, and the offer it answers was applied.
LEMMA OnAnswerStep ==
  ASSUME IInv, NEW m \in toServer, OnAnswer(m)
  PROVE  IInv'
  <1>1. /\ toServer' = toServer \ {m}
        /\ signaling' = "stable" \/ signaling' = signaling
        /\ UNCHANGED <<server, client, toClient, tracks, muting, needed, npc, numbering, history>>
    BY DEF OnAnswer
  <1>2. remote = offered /\ toServer' = {} /\ npc = "idle" /\ ~NotReturned
    BY <1>1 DEF IInv, CurrentInFlight, OneInFlight, Negotiation, NotReturned
  <1>3. dropped' \in BOOLEAN
    BY DEF OnAnswer, IInv, MessageTypes
  <1>4. MessageTypes' /\ MessageKinds'
    BY <1>1, <1>3 DEF IInv, MessageTypes, MessageKinds
  <1>5. Negotiation' /\ Agreement'
    BY <1>1, <1>2 DEF IInv, Negotiation, Agreement
  <1>6. /\ NotSending /\ NotTaken /\ NotOnTheWay /\ NotRead /\ NotAnswered
        /\ NotSending' /\ NotTaken' /\ NotOnTheWay' /\ NotRead' /\ NotAnswered' /\ NotReturned'
    BY <1>1, <1>2 DEF IInv, OneInFlight, IsOffer, NotSending, NotTaken, NotOnTheWay, NotRead,
      NotAnswered, NotReturned
  <1>7. OneInFlight'
    BY <1>2, <1>6 DEF OneInFlight, NotOnTheWay, IsOffer
  <1>8. CurrentInFlight'
    BY <1>1, <1>2, <1>6 DEF CurrentInFlight, NotOnTheWay, IsOffer
  <1>9. Copies' /\ OfferedTitles'
    <2>1. \A k \in Sent' : k \in Sent \/ ~IsOffer(k)
      BY <1>1 DEF Sent
    <2> QED BY <1>1, <2>1, TitlesKept
  <1>10. Changes' /\ LastChange'
    <2>1. egress' = NoInfo \/ (egress # NoInfo /\ egress'.mute = egress.mute)
      BY <1>1
    <2> QED BY <1>1, <2>1, MutesKept
  <1> QED BY <1>4, <1>5, <1>7, <1>8, <1>9, <1>10, Together DEF MessageInv

-----------------------------------------------------------------------------
(* The invariant and the theorems. *)

LEMMA InitInv == Init => IInv
  <1> SUFFICES ASSUME Init PROVE IInv
    OBVIOUS
  <1>1. MessageTypes /\ MessageKinds
    BY NoMsgType, Senders DEF Init, InitMessenger, MessageTypes, MessageKinds
  <1>2. Negotiation /\ Agreement
    <2>1. 0 \in 0..MaxOffers
      OBVIOUS
    <2>2. needed \in BOOLEAN
      BY DEF Init
    <2> QED BY <2>1, <2>2 DEF Init, InitMessenger, Negotiation, Agreement
  <1>3. NotSending /\ NotTaken /\ NotOnTheWay /\ NotRead /\ NotAnswered /\ NotReturned
    BY NoMsgType, Senders DEF Init, InitMessenger, IsOffer, NotSending, NotTaken, NotOnTheWay,
      NotRead, NotAnswered, NotReturned
  <1>4. OneInFlight /\ CurrentInFlight
    BY <1>3 DEF OneInFlight, CurrentInFlight, NotOnTheWay, NotReturned, IsOffer
  <1>5. Copies
    BY NoInfoType DEF Init, Copies, Copy
  <1>6. OfferedTitles
    BY NoMsgType DEF Init, InitMessenger, OfferedTitles, OfferedTitle, Sent, IsOffer
  <1>7. Changes
    <2>1. changes = <<>> /\ changes \in Seq(BOOLEAN) /\ Last = 0
      BY DEF Init, Last
    <2>2. /\ mpc \in [Muter -> {"none", "dispatch", "session", "done", "failed"}]
          /\ \A n \in Muter : mpc[n] = "none"
      BY DEF Init
    <2>3. mval \in [Muter -> BOOLEAN] /\ overlapped \in BOOLEAN /\ fresh \in BOOLEAN
      BY DEF Init
    <2>4. ~fresh /\ Last <= MaxMutes
      BY <2>1 DEF Init
    <2> QED BY <2>1, <2>2, <2>3, <2>4 DEF Init, Changes
  <1>8. LastChange
    BY DEF Init, LastChange, Last, Muter
  <1> QED BY <1>1, <1>2, <1>4, <1>5, <1>6, <1>7, <1>8 DEF IInv

LEMMA StutterInv ==
  ASSUME IInv, UNCHANGED vars
  PROVE  IInv'
  <1>1. UNCHANGED <<server, channel, client, tracks, muting, signal, history>>
    BY DEF vars
  <1>2. MessageInv'
    <2>1. needed' \in BOOLEAN
      BY <1>1 DEF IInv, Negotiation
    <2> QED BY <1>1, <2>1, MessagesKept
  <1>3. \A m \in Sent' : m \in Sent \/ ~IsOffer(m)
    BY <1>1 DEF Sent
  <1> QED BY <1>1, <1>2, <1>3, TransportKept

LEMMA NextInv == IInv /\ [Next]_vars => IInv'
  <1> SUFFICES ASSUME IInv, [Next]_vars PROVE IInv'
    OBVIOUS
  <1>1. CASE TransportStep
    BY <1>1, TransportKeeps
  <1>2. CASE \E t \in Titles : Publish(t)
    BY <1>2, PublishStep
  <1>3. CASE OnTrack \/ AddTrack \/ RemoveTrack
    BY <1>3, OnTrackStep, AddTrackStep, RemoveTrackStep
  <1>4. CASE \E b \in BOOLEAN : Press(b)
    BY <1>4, PressStep
  <1>5. CASE \E m \in mutes : LoseMute(m) \/ SetIngressMute(m)
    BY <1>5, LoseMuteStep, SetIngressMuteStep
  <1>6. CASE \E n \in Muter : DispatchMuteTrack(n) \/ MuteTrack(n)
    BY <1>6, DispatchMuteTrackStep, MuteTrackStep
  <1>7. CASE SetOfferer \/ DoRenegotiation \/ OfferTracks
    BY <1>7, SetOffererStep, DoRenegotiationStep, OfferTracksStep
  <1>8. CASE \E m \in toServer : OnAnswer(m)
    BY <1>8, OnAnswerStep
  <1>9. CASE UNCHANGED vars
    BY <1>9, StutterInv
  <1> QED BY <1>1, <1>2, <1>3, <1>4, <1>5, <1>6, <1>7, <1>8, <1>9 DEF Next

\* The invariant is inductive.
THEOREM Inductive == Spec => []IInv
  BY InitInv, NextInv, PTL DEF Spec

\* What a publisher says about its track in the title of its offer reaches the
\* subscribers unchanged: it is parsed, copied to the hub and to the endpoint, and
\* written again into every renegotiation offer; only changes of the mute flag show.
THEOREM TitlesCorrect == Spec => []TitlesOK
  <1>1. IInv => TitlesOK
    <2> SUFFICES ASSUME IInv PROVE TitlesOK
      OBVIOUS
    <2>1. MessengerTypeOK
      BY DEF IInv, MessageTypes, MessageKinds, Negotiation, MessengerTypeOK
    <2>2. \A i \in {info, hub, egress} : i.purpose \in 0..2 /\ i.mute \in BOOLEAN
      BY DEF IInv, Copies, Info
    <2>3. \A m \in mutes : m.n \in DOMAIN changes /\ mpc[m.n] = "none"
      BY DEF IInv, Changes, Last, Muter
    <2>4. /\ \A n \in Muter : mpc[n] \in {"none", "dispatch", "session", "done", "failed"}
          /\ title = <<>> \/ title \in Titles
      BY DEF IInv, Changes, Copies
    <2>5. TypeOK
      BY <2>1, <2>2, <2>3, <2>4 DEF TypeOK, IInv, Negotiation
    <2>6. TitleKept
      BY DEF IInv, OfferedTitles, OfferedTitle, IsOffer, TitleKept
    <2> QED BY <2>5, <2>6 DEF TitlesOK
  <1> QED BY <1>1, Inductive, PTL

\* The last change of the mute flag that the publisher made, and that no other one
\* overtook, is in the subscriber's endpoint when muteTrack is through, although it
\* passes two goroutines and a copy on its way.
THEOREM LastMuteCorrect == Spec => []LastMuteApplied
  <1>1. IInv => LastMuteApplied
    <2> SUFFICES ASSUME IInv PROVE LastMuteApplied
      OBVIOUS
    <2>1. fresh => Len(changes) > 0
      BY DEF IInv, Changes, Last
    <2> QED BY <2>1 DEF IInv, LastChange, LastMuteApplied, Last
  <1> QED BY <1>1, Inductive, PTL

\* Whenever the connection is stable the client has applied the offer the server sent
\* last, although the data channel loses and reorders messages and setOfferer sets the
\* number back at any moment: no offer is made before the one before is answered.
THEOREM AgreementCorrect == Spec => []Agreement
  <1>1. IInv => Agreement
    BY DEF IInv
  <1> QED BY <1>1, Inductive, PTL
=============================================================================
