------------------------------ MODULE HubProofs ------------------------------
(***************************************************************************)
(* Proofs about the hub, for any number of sessions and tracks.             *)
(*                                                                          *)
(* Hub and fetching goroutine both check for a sender and then add one, and *)
(* no lock covers both of them.  What keeps them apart is that a track is   *)
(* added once: the snapshot holds it only when the hub is through with it.  *)
(***************************************************************************)
EXTENDS Hub, TLAPS

\* What the hub goroutine holds in each of its states.
HubShape ==
  /\ Iterating => track \in Track /\ kind \in {"add", "remove"}
  /\ hub \in {"deliver", "push"} => to \in Session /\ track \in Foreign(to)
  /\ hub = "reply" => to \in Session
  /\ hub \in {"idle", "iter", "returned"} => to = NoSession
  /\ hub = "push" => kind = "add"

\* A track the hub has not taken is nowhere; one it is adding is in no snapshot.
AddedOnce ==
  /\ \A t \in Track : adding[t] # "done" =>
       t \notin tracks /\ \A s \in Session : t \notin list[s] /\ senders[s][t] = 0
  /\ Iterating /\ kind = "add" =>
       adding[track] = "done" /\ track \in tracks /\ \A s \in Session : track \notin list[s]
  /\ Iterating /\ kind = "remove" => track \notin tracks

\* Between check and add nobody else adds the track.
PushIsFirst ==
  /\ hub = "push" => senders[to][track] = 0
  /\ \A s \in Session : fetch[s] = "push" => pick[s] \in list[s] /\ senders[s][pick[s]] = 0

\* A list is there only while its tracks are added, and has no track of the session.
ListsForeign ==
  \A s \in Session :
    /\ list[s] \subseteq Foreign(s)
    /\ fetch[s] \notin {"add", "push"} => list[s] = {}

\* How far the fetch can be in each phase of the endpoint, and when it may send.
Phases ==
  \A s \in Session :
    /\ phase[s] # "none" /\ ~Done(s) => s \in registered
    /\ fetch[s] \in {"request", "receive", "add", "push", "done"} => phase[s] \in {"open", "ready", "busy"}
    /\ \/ phase[s] \in {"none", "locked"}
       \/ phase[s] = "open" /\ fetch[s] \notin {"add", "push", "done"}
       => \A t \in Track : senders[s][t] = 0

\* The event the hub works on has yet to reach s.
Pending(s, t) == Iterating /\ track = t /\ (s \in todo \/ to = s)

\* What a session sends or is about to send is a track of the hub.
SendsOnlyCurrent ==
  \A s \in Session : ~Done(s) =>
    \A t \in Foreign(s) \ missed[s] :
      senders[s][t] > 0 \/ t \in list[s] => t \in tracks \/ (kind = "remove" /\ Pending(s, t))

\* After the snapshot every track of the hub is sent or on its way.
SendsAllCurrent ==
  \A s \in Session : ~Done(s) /\ fetch[s] \in {"add", "push", "done"} =>
    \A t \in Foreign(s) \ missed[s] :
      t \in tracks => senders[s][t] > 0 \/ t \in list[s] \/ (kind = "add" /\ Pending(s, t))

\* The inductive invariant.
IInv ==
  /\ TypeOK
  /\ HubShape
  /\ NeverWaitsForGathering
  /\ AddedOnce
  /\ PushIsFirst
  /\ ListsForeign
  /\ OneSenderPerTrack
  /\ NoEcho
  /\ Phases
  /\ SendsOnlyCurrent
  /\ SendsAllCurrent
-----------------------------------------------------------------------------

USE HubAssumption DEF Running, hubVars, sessVars, pubVars, fetchVars

\* A sender more is still a number of senders.
LEMMA PushedType ==
  ASSUME TypeOK, NEW s \in Session, NEW t \in Track
  PROVE  Pushed(s, t) \in [Session -> [Track -> Nat]]
  <1>1. senders[s] \in [Track -> Nat]
    BY DEF TypeOK
  <1>2. [senders[s] EXCEPT ![t] = @ + 1] \in [Track -> Nat]
    BY <1>1
  <1> QED BY <1>2 DEF Pushed, TypeOK

\* onTrack dispatches a track the hub has not seen.
LEMMA OnTrackStep ==
  ASSUME IInv, NEW t \in Track, OnTrack(t)
  PROVE  IInv'
  <1>1. TypeOK'
    BY DEF OnTrack, IInv, TypeOK, HubState, PhaseState, PubState, FetchState, HubShape
  <1>2. (HubShape /\ NeverWaitsForGathering)'
    BY DEF OnTrack, IInv, HubShape, NeverWaitsForGathering, TypeOK, Iterating, Foreign
  <1>3. (AddedOnce /\ PushIsFirst /\ ListsForeign)'
    BY DEF OnTrack, IInv, AddedOnce, PushIsFirst, ListsForeign, TypeOK, HubShape,
      Iterating, Foreign
  <1>4. (OneSenderPerTrack /\ NoEcho)'
    BY DEF OnTrack, IInv, OneSenderPerTrack, NoEcho, TypeOK, HubShape, PushIsFirst,
      ListsForeign, Iterating, Foreign
  <1>5. Phases'
    BY DEF OnTrack, IInv, Phases, TypeOK, HubShape, NeverWaitsForGathering, PushIsFirst,
      ListsForeign, Done
  <1>6. (SendsOnlyCurrent /\ SendsAllCurrent)'
    BY DEF OnTrack, IInv, SendsOnlyCurrent, SendsAllCurrent, TypeOK, HubShape,
      AddedOnce, PushIsFirst, ListsForeign, OneSenderPerTrack, Phases, Pending,
      Iterating, Foreign, Done
  <1> QED BY <1>1, <1>2, <1>3, <1>4, <1>5, <1>6 DEF IInv

\* The writer of a track ends.
LEMMA WriterEndsStep ==
  ASSUME IInv, NEW t \in Track, WriterEnds(t)
  PROVE  IInv'
  <1>1. TypeOK'
    BY DEF WriterEnds, IInv, TypeOK, HubState, PhaseState, PubState, FetchState,
      HubShape
  <1>2. (HubShape /\ NeverWaitsForGathering)'
    BY DEF WriterEnds, IInv, HubShape, NeverWaitsForGathering, TypeOK, Iterating,
      Foreign
  <1>3. (AddedOnce /\ PushIsFirst /\ ListsForeign)'
    BY DEF WriterEnds, IInv, AddedOnce, PushIsFirst, ListsForeign, TypeOK, HubShape,
      Iterating, Foreign
  <1>4. (OneSenderPerTrack /\ NoEcho)'
    BY DEF WriterEnds, IInv, OneSenderPerTrack, NoEcho, TypeOK, HubShape, PushIsFirst,
      ListsForeign, Iterating, Foreign
  <1>5. Phases'
    BY DEF WriterEnds, IInv, Phases, TypeOK, HubShape, NeverWaitsForGathering,
      PushIsFirst, ListsForeign, Done
  <1>6. (SendsOnlyCurrent /\ SendsAllCurrent)'
    BY DEF WriterEnds, IInv, SendsOnlyCurrent, SendsAllCurrent, TypeOK, HubShape,
      AddedOnce, PushIsFirst, ListsForeign, OneSenderPerTrack, Phases, Pending,
      Iterating, Foreign, Done
  <1> QED BY <1>1, <1>2, <1>3, <1>4, <1>5, <1>6 DEF IInv

\* An addition that is dropped leaves the track nowhere.
LEMMA DropAddStep ==
  ASSUME IInv, NEW t \in Track, DropAdd(t)
  PROVE  IInv'
  <1>1. TypeOK'
    BY DEF DropAdd, IInv, TypeOK, HubState, PhaseState, PubState, FetchState, HubShape
  <1>2. (HubShape /\ NeverWaitsForGathering)'
    BY DEF DropAdd, IInv, HubShape, NeverWaitsForGathering, TypeOK, Iterating, Foreign
  <1>3. (AddedOnce /\ PushIsFirst /\ ListsForeign)'
    BY DEF DropAdd, IInv, AddedOnce, PushIsFirst, ListsForeign, TypeOK, HubShape,
      Iterating, Foreign
  <1>4. (OneSenderPerTrack /\ NoEcho)'
    BY DEF DropAdd, IInv, OneSenderPerTrack, NoEcho, TypeOK, HubShape, PushIsFirst,
      ListsForeign, Iterating, Foreign
  <1>5. Phases'
    BY DEF DropAdd, IInv, Phases, TypeOK, HubShape, NeverWaitsForGathering, PushIsFirst,
      ListsForeign, Done
  <1>6. (SendsOnlyCurrent /\ SendsAllCurrent)'
    BY DEF DropAdd, IInv, SendsOnlyCurrent, SendsAllCurrent, TypeOK, HubShape,
      AddedOnce, PushIsFirst, ListsForeign, OneSenderPerTrack, Phases, Pending,
      Iterating, Foreign, Done
  <1> QED BY <1>1, <1>2, <1>3, <1>4, <1>5, <1>6 DEF IInv

\* A removal that is dropped leaves everything as it was.
LEMMA DropRemoveStep ==
  ASSUME IInv, NEW t \in Track, DropRemove(t)
  PROVE  IInv'
  <1>1. TypeOK'
    BY DEF DropRemove, IInv, TypeOK, HubState, PhaseState, PubState, FetchState,
      HubShape
  <1>2. (HubShape /\ NeverWaitsForGathering)'
    BY DEF DropRemove, IInv, HubShape, NeverWaitsForGathering, TypeOK, Iterating,
      Foreign
  <1>3. (AddedOnce /\ PushIsFirst /\ ListsForeign)'
    BY DEF DropRemove, IInv, AddedOnce, PushIsFirst, ListsForeign, TypeOK, HubShape,
      Iterating, Foreign
  <1>4. (OneSenderPerTrack /\ NoEcho)'
    BY DEF DropRemove, IInv, OneSenderPerTrack, NoEcho, TypeOK, HubShape, PushIsFirst,
      ListsForeign, Iterating, Foreign
  <1>5. Phases'
    BY DEF DropRemove, IInv, Phases, TypeOK, HubShape, NeverWaitsForGathering,
      PushIsFirst, ListsForeign, Done
  <1>6. (SendsOnlyCurrent /\ SendsAllCurrent)'
    BY DEF DropRemove, IInv, SendsOnlyCurrent, SendsAllCurrent, TypeOK, HubShape,
      AddedOnce, PushIsFirst, ListsForeign, OneSenderPerTrack, Phases, Pending,
      Iterating, Foreign, Done
  <1> QED BY <1>1, <1>2, <1>3, <1>4, <1>5, <1>6 DEF IInv

\* The hub takes an addition: it is pending for every registered session.
LEMMA TakeAddStep ==
  ASSUME IInv, NEW t \in Track, TakeAdd(t)
  PROVE  IInv'
  <1>1. TypeOK'
    BY DEF TakeAdd, StartIter, Receptive, IInv, TypeOK, HubState, PhaseState, PubState,
      FetchState, HubShape
  <1>2. (HubShape /\ NeverWaitsForGathering)'
    BY DEF TakeAdd, StartIter, Receptive, IInv, HubShape, NeverWaitsForGathering,
      TypeOK, Iterating, Foreign
  <1>3. (AddedOnce /\ PushIsFirst /\ ListsForeign)'
    BY DEF TakeAdd, StartIter, Receptive, IInv, AddedOnce, PushIsFirst, ListsForeign,
      TypeOK, HubShape, Iterating, Foreign
  <1>4. (OneSenderPerTrack /\ NoEcho)'
    BY DEF TakeAdd, StartIter, Receptive, IInv, OneSenderPerTrack, NoEcho, TypeOK,
      HubShape, PushIsFirst, ListsForeign, Iterating, Foreign
  <1>5. Phases'
    BY DEF TakeAdd, StartIter, Receptive, IInv, Phases, TypeOK, HubShape,
      NeverWaitsForGathering, PushIsFirst, ListsForeign, Done
  <1>6. (SendsOnlyCurrent /\ SendsAllCurrent)'
    <2>1. CASE t \in Main /\ ~HasSender
      BY <2>1 DEF TakeAdd, IInv, SendsOnlyCurrent, SendsAllCurrent, Pending, Iterating, Foreign, Done
    <2>2. CASE ~(t \in Main /\ ~HasSender)
      <3>1. SendsOnlyCurrent'
        BY <2>2 DEF TakeAdd, StartIter, Receptive, IInv, TypeOK, HubShape, SendsOnlyCurrent,
          ListsForeign, Phases, Pending, Iterating, Foreign, Done
      <3>2. SendsAllCurrent'
        BY <2>2 DEF TakeAdd, StartIter, Receptive, IInv, TypeOK, HubShape, SendsAllCurrent,
          Phases, Pending, Iterating, Foreign, Done
      <3> QED BY <3>1, <3>2
    <2> QED BY <2>1, <2>2
  <1> QED BY <1>1, <1>2, <1>3, <1>4, <1>5, <1>6 DEF IInv

\* The hub takes a removal: whoever has the track is registered, so it is pending there.
LEMMA TakeRemoveStep ==
  ASSUME IInv, NEW t \in Track, TakeRemove(t)
  PROVE  IInv'
  <1>1. TypeOK'
    BY DEF TakeRemove, StartIter, Receptive, IInv, TypeOK, HubState, PhaseState,
      PubState, FetchState, HubShape
  <1>2. (HubShape /\ NeverWaitsForGathering)'
    BY DEF TakeRemove, StartIter, Receptive, IInv, HubShape, NeverWaitsForGathering,
      TypeOK, Iterating, Foreign
  <1>3. (AddedOnce /\ PushIsFirst /\ ListsForeign)'
    BY DEF TakeRemove, StartIter, Receptive, IInv, AddedOnce, PushIsFirst, ListsForeign,
      TypeOK, HubShape, Iterating, Foreign
  <1>4. (OneSenderPerTrack /\ NoEcho)'
    BY DEF TakeRemove, StartIter, Receptive, IInv, OneSenderPerTrack, NoEcho, TypeOK,
      HubShape, PushIsFirst, ListsForeign, Iterating, Foreign
  <1>5. Phases'
    BY DEF TakeRemove, StartIter, Receptive, IInv, Phases, TypeOK, HubShape,
      NeverWaitsForGathering, PushIsFirst, ListsForeign, Done
  <1>6. (SendsOnlyCurrent /\ SendsAllCurrent)'
    <2>1. CASE t \in Main /\ ~HasSender
      BY <2>1 DEF TakeRemove, IInv, SendsOnlyCurrent, SendsAllCurrent, Pending, Iterating, Foreign, Done
    <2>2. CASE ~(t \in Main /\ ~HasSender)
      <3>1. SendsOnlyCurrent'
        <4> SUFFICES ASSUME NEW s \in Session, ~Done(s),
                            NEW u \in Foreign(s) \ missed[s], senders[s][u] > 0 \/ u \in list[s]
                     PROVE  u \in tracks' \/ (kind' = "remove" /\ Pending(s, u)')
          BY DEF TakeRemove, SendsOnlyCurrent, Foreign, Done
        <4>1. u \in tracks
          BY DEF TakeRemove, Receptive, IInv, SendsOnlyCurrent, Pending, Iterating
        <4>2. CASE u # t
          BY <2>2, <4>1, <4>2 DEF TakeRemove
        <4>3. CASE u = t
          <5>1. phase[s] # "none"
            <6>1. CASE u \in list[s]
              <7>1. fetch[s] \in {"add", "push"}
                BY <6>1 DEF IInv, ListsForeign
              <7> QED BY <7>1 DEF IInv, Phases
            <6>2. CASE senders[s][u] > 0
              BY <6>2 DEF IInv, TypeOK, Phases, Foreign
            <6> QED BY <6>1, <6>2
          <5>2. s \in registered
            BY <5>1 DEF IInv, Phases
          <5> QED BY <2>2, <4>3, <5>2 DEF TakeRemove, StartIter, Pending, Iterating
        <4> QED BY <4>2, <4>3
      <3>2. SendsAllCurrent'
        BY <2>2 DEF TakeRemove, StartIter, Receptive, IInv, TypeOK, HubShape, SendsAllCurrent,
          Phases, Pending, Iterating, Foreign, Done
      <3> QED BY <3>1, <3>2
    <2> QED BY <2>1, <2>2
  <1> QED BY <1>1, <1>2, <1>3, <1>4, <1>5, <1>6 DEF IInv

\* The hub visits a session: what it skips is missed or was not there.
LEMMA VisitStep ==
  ASSUME IInv, NEW s \in Session, Visit(s)
  PROVE  IInv'
  <1>1. TypeOK'
    <2>1. LostBySkip(s) \subseteq Track
      BY DEF LostBySkip, Foreign
    <2>2. missed' = missed \/ missed' = [missed EXCEPT ![s] = missed[s] \cup LostBySkip(s)]
      BY DEF Visit
    <2>3. missed[s] \cup LostBySkip(s) \in SUBSET Track
      BY <2>1 DEF IInv, TypeOK
    <2>4. missed' \in [Session -> SUBSET Track]
      BY <2>2, <2>3 DEF IInv, TypeOK
    <2> QED BY <2>4 DEF Visit, IInv, TypeOK, HubState, PhaseState, PubState, FetchState
  <1>2. (HubShape /\ NeverWaitsForGathering)'
    BY DEF Visit, InitComplete, LostBySkip, IInv, HubShape, NeverWaitsForGathering,
      TypeOK, Iterating, Foreign
  <1>3. (AddedOnce /\ PushIsFirst /\ ListsForeign)'
    BY DEF Visit, InitComplete, LostBySkip, IInv, AddedOnce, PushIsFirst, ListsForeign,
      TypeOK, HubShape, Iterating, Foreign
  <1>4. (OneSenderPerTrack /\ NoEcho)'
    BY DEF Visit, InitComplete, LostBySkip, IInv, OneSenderPerTrack, NoEcho, TypeOK,
      HubShape, PushIsFirst, ListsForeign, Iterating, Foreign
  <1>5. Phases'
    BY DEF Visit, InitComplete, LostBySkip, IInv, Phases, TypeOK, HubShape,
      NeverWaitsForGathering, PushIsFirst, ListsForeign, Done
  <1>6. (SendsOnlyCurrent /\ SendsAllCurrent)'
    <2> USE DEF IInv, TypeOK, HubShape, Pending, Iterating, Foreign, Done
    <2>1. CASE InitComplete(s) /\ track \in Foreign(s) /\ hub' = "deliver" /\ to' = s /\ UNCHANGED missed
      BY <2>1 DEF Visit, SendsOnlyCurrent, SendsAllCurrent
    <2>2. CASE /\ ~InitComplete(s) \/ track \notin Foreign(s) \/ Done(s)
               /\ missed' = [missed EXCEPT ![s] = @ \cup LostBySkip(s)]
               /\ UNCHANGED <<hub, to>>
      <3>1. ASSUME NEW r \in Session, r # s
            PROVE  missed'[r] = missed[r] /\ \A t \in Track : Pending(r, t)' <=> Pending(r, t)
        BY <2>2, <3>1 DEF Visit
      <3>2. ASSUME ~Done(s), track \in Foreign(s) \ missed'[s]
            PROVE  /\ fetch[s] \notin {"add", "push", "done"}
                   /\ kind = "remove" => senders[s][track] = 0 /\ track \notin list[s]
        <4>1. phase[s] \in PhaseState \ {"ready"} /\ track \in Foreign(s)
          BY <2>2, <3>2 DEF InitComplete
        <4>2. track \in Track /\ track \notin LostBySkip(s)
          BY <2>2, <3>2 DEF Visit
        <4>3. /\ ~(phase[s] \in {"open", "busy"} /\ fetch[s] \in {"add", "push", "done"})
              /\ ~(phase[s] = "busy" /\ kind = "remove")
          BY <4>1, <4>2 DEF LostBySkip
        <4>4. fetch[s] \notin {"add", "push", "done"}
          BY <4>1, <4>3 DEF Phases
        <4>5. kind = "remove" => senders[s][track] = 0
          BY <4>1, <4>2, <4>3, <4>4 DEF Phases, PhaseState
        <4> QED BY <4>4, <4>5 DEF ListsForeign
      <3>3. SendsOnlyCurrent'
        BY <2>2, <3>1, <3>2 DEF Visit, SendsOnlyCurrent
      <3>4. SendsAllCurrent'
        BY <2>2, <3>1, <3>2 DEF Visit, SendsAllCurrent
      <3> QED BY <3>3, <3>4
    <2> QED BY <2>1, <2>2 DEF Visit
  <1> QED BY <1>1, <1>2, <1>3, <1>4, <1>5, <1>6 DEF IInv

\* The hub looks for a sender.
LEMMA AddTrackStep ==
  ASSUME IInv, AddTrack
  PROVE  IInv'
  <1>1. TypeOK'
    BY DEF AddTrack, Delivered, IInv, TypeOK, HubState, PhaseState, PubState,
      FetchState, HubShape
  <1>2. (HubShape /\ NeverWaitsForGathering)'
    BY DEF AddTrack, Delivered, IInv, HubShape, NeverWaitsForGathering, TypeOK,
      Iterating, Foreign
  <1>3. (AddedOnce /\ PushIsFirst /\ ListsForeign)'
    BY DEF AddTrack, Delivered, IInv, AddedOnce, PushIsFirst, ListsForeign, TypeOK,
      HubShape, Iterating, Foreign
  <1>4. (OneSenderPerTrack /\ NoEcho)'
    BY DEF AddTrack, Delivered, IInv, OneSenderPerTrack, NoEcho, TypeOK, HubShape,
      PushIsFirst, ListsForeign, Iterating, Foreign
  <1>5. Phases'
    BY DEF AddTrack, Delivered, IInv, Phases, TypeOK, HubShape, NeverWaitsForGathering,
      PushIsFirst, ListsForeign, Done
  <1>6. (SendsOnlyCurrent /\ SendsAllCurrent)'
    BY DEF AddTrack, Delivered, IInv, SendsOnlyCurrent, SendsAllCurrent, TypeOK,
      HubShape, AddedOnce, PushIsFirst, ListsForeign, OneSenderPerTrack, Phases,
      Pending, Iterating, Foreign, Done
  <1> QED BY <1>1, <1>2, <1>3, <1>4, <1>5, <1>6 DEF IInv

\* The hub adds the sender.
LEMMA PushTrackStep ==
  ASSUME IInv, PushTrack
  PROVE  IInv'
  <1>1. TypeOK'
    <2>1. to \in Session /\ track \in Track
      BY DEF PushTrack, IInv, HubShape, Iterating
    <2>2. senders' \in [Session -> [Track -> Nat]]
      BY <2>1, PushedType DEF PushTrack, IInv
    <2> QED BY <2>2 DEF PushTrack, Delivered, IInv, TypeOK, HubState
  <1>2. (HubShape /\ NeverWaitsForGathering)'
    BY DEF PushTrack, Delivered, Pushed, IInv, HubShape, NeverWaitsForGathering, TypeOK,
      Iterating, Foreign
  <1>3. (AddedOnce /\ PushIsFirst /\ ListsForeign)'
    BY DEF PushTrack, Delivered, Pushed, IInv, AddedOnce, PushIsFirst, ListsForeign,
      TypeOK, HubShape, Iterating, Foreign
  <1>4. (OneSenderPerTrack /\ NoEcho)'
    BY DEF PushTrack, Delivered, Pushed, IInv, OneSenderPerTrack, NoEcho, TypeOK,
      HubShape, PushIsFirst, ListsForeign, Iterating, Foreign
  <1>5. Phases'
    BY DEF PushTrack, Delivered, Pushed, IInv, Phases, TypeOK, HubShape,
      NeverWaitsForGathering, PushIsFirst, ListsForeign, Done
  <1>6. (SendsOnlyCurrent /\ SendsAllCurrent)'
    BY DEF PushTrack, Delivered, Pushed, IInv, SendsOnlyCurrent, SendsAllCurrent,
      TypeOK, HubShape, AddedOnce, PushIsFirst, ListsForeign, OneSenderPerTrack, Phases,
      Pending, Iterating, Foreign, Done
  <1> QED BY <1>1, <1>2, <1>3, <1>4, <1>5, <1>6 DEF IInv

\* The hub removes the sender; a track still in the list is missed.
LEMMA RemoveTrackStep ==
  ASSUME IInv, RemoveTrack
  PROVE  IInv'
  <1>1. TypeOK'
    <2>1. to \in Session /\ track \in Track
      BY DEF RemoveTrack, IInv, HubShape, Iterating
    <2>2. senders' \in [Session -> [Track -> Nat]]
      <3>1. senders[to] \in [Track -> Nat]
        BY <2>1 DEF IInv, TypeOK
      <3>2. senders[to][track] > 0 => [senders[to] EXCEPT ![track] = @ - 1] \in [Track -> Nat]
        BY <2>1, <3>1
      <3> QED BY <2>1, <3>2 DEF RemoveTrack, IInv, TypeOK
    <2>3. missed' \in [Session -> SUBSET Track]
      BY <2>1 DEF RemoveTrack, IInv, TypeOK
    <2> QED BY <2>2, <2>3 DEF RemoveTrack, Delivered, IInv, TypeOK, HubState
  <1>2. (HubShape /\ NeverWaitsForGathering)'
    BY DEF RemoveTrack, Delivered, IInv, HubShape, NeverWaitsForGathering, TypeOK,
      Iterating, Foreign
  <1>3. (AddedOnce /\ PushIsFirst /\ ListsForeign)'
    BY DEF RemoveTrack, Delivered, IInv, AddedOnce, PushIsFirst, ListsForeign, TypeOK,
      HubShape, Iterating, Foreign
  <1>4. (OneSenderPerTrack /\ NoEcho)'
    BY DEF RemoveTrack, Delivered, IInv, OneSenderPerTrack, NoEcho, TypeOK, HubShape,
      PushIsFirst, ListsForeign, Iterating, Foreign
  <1>5. Phases'
    BY DEF RemoveTrack, Delivered, IInv, Phases, TypeOK, HubShape,
      NeverWaitsForGathering, PushIsFirst, ListsForeign, Done
  <1>6. (SendsOnlyCurrent /\ SendsAllCurrent)'
    BY DEF RemoveTrack, Delivered, IInv, SendsOnlyCurrent, SendsAllCurrent, TypeOK,
      HubShape, AddedOnce, PushIsFirst, ListsForeign, OneSenderPerTrack, Phases,
      Pending, Iterating, Foreign, Done
  <1> QED BY <1>1, <1>2, <1>3, <1>4, <1>5, <1>6 DEF IInv

\* The event has reached everybody.
LEMMA IterDoneStep ==
  ASSUME IInv, IterDone
  PROVE  IInv'
  <1>1. TypeOK'
    BY DEF IterDone, Idle, IInv, TypeOK, HubState, PhaseState, PubState, FetchState,
      HubShape
  <1>2. (HubShape /\ NeverWaitsForGathering)'
    BY DEF IterDone, Idle, IInv, HubShape, NeverWaitsForGathering, TypeOK, Iterating,
      Foreign
  <1>3. (AddedOnce /\ PushIsFirst /\ ListsForeign)'
    BY DEF IterDone, Idle, IInv, AddedOnce, PushIsFirst, ListsForeign, TypeOK, HubShape,
      Iterating, Foreign
  <1>4. (OneSenderPerTrack /\ NoEcho)'
    BY DEF IterDone, Idle, IInv, OneSenderPerTrack, NoEcho, TypeOK, HubShape,
      PushIsFirst, ListsForeign, Iterating, Foreign
  <1>5. Phases'
    BY DEF IterDone, Idle, IInv, Phases, TypeOK, HubShape, NeverWaitsForGathering,
      PushIsFirst, ListsForeign, Done
  <1>6. (SendsOnlyCurrent /\ SendsAllCurrent)'
    BY DEF IterDone, Idle, IInv, SendsOnlyCurrent, SendsAllCurrent, TypeOK, HubShape,
      AddedOnce, PushIsFirst, ListsForeign, OneSenderPerTrack, Phases, Pending,
      Iterating, Foreign, Done
  <1> QED BY <1>1, <1>2, <1>3, <1>4, <1>5, <1>6 DEF IInv

\* The snapshot holds tracks the hub is through with.
LEMMA ReplyStep ==
  ASSUME IInv, Reply
  PROVE  IInv'
  <1>1. TypeOK'
    BY DEF Reply, Idle, IInv, TypeOK, HubState, PhaseState, PubState, FetchState,
      HubShape
  <1>2. (HubShape /\ NeverWaitsForGathering)'
    BY DEF Reply, Idle, IInv, HubShape, NeverWaitsForGathering, TypeOK, Iterating,
      Foreign
  <1>3. (AddedOnce /\ PushIsFirst /\ ListsForeign)'
    BY DEF Reply, Idle, IInv, AddedOnce, PushIsFirst, ListsForeign, TypeOK, HubShape,
      Iterating, Foreign
  <1>4. (OneSenderPerTrack /\ NoEcho)'
    BY DEF Reply, Idle, IInv, OneSenderPerTrack, NoEcho, TypeOK, HubShape, PushIsFirst,
      ListsForeign, Iterating, Foreign
  <1>5. Phases'
    BY DEF Reply, Idle, IInv, Phases, TypeOK, HubShape, NeverWaitsForGathering,
      PushIsFirst, ListsForeign, Done
  <1>6. (SendsOnlyCurrent /\ SendsAllCurrent)'
    BY DEF Reply, Idle, IInv, SendsOnlyCurrent, SendsAllCurrent, TypeOK, HubShape,
      AddedOnce, PushIsFirst, ListsForeign, OneSenderPerTrack, Phases, Pending,
      Iterating, Foreign, Done
  <1> QED BY <1>1, <1>2, <1>3, <1>4, <1>5, <1>6 DEF IInv

\* Nobody received the snapshot.
LEMMA DropReplyStep ==
  ASSUME IInv, DropReply
  PROVE  IInv'
  <1>1. TypeOK'
    BY DEF DropReply, Idle, IInv, TypeOK, HubState, PhaseState, PubState, FetchState,
      HubShape
  <1>2. (HubShape /\ NeverWaitsForGathering)'
    BY DEF DropReply, Idle, IInv, HubShape, NeverWaitsForGathering, TypeOK, Iterating,
      Foreign
  <1>3. (AddedOnce /\ PushIsFirst /\ ListsForeign)'
    BY DEF DropReply, Idle, IInv, AddedOnce, PushIsFirst, ListsForeign, TypeOK,
      HubShape, Iterating, Foreign
  <1>4. (OneSenderPerTrack /\ NoEcho)'
    BY DEF DropReply, Idle, IInv, OneSenderPerTrack, NoEcho, TypeOK, HubShape,
      PushIsFirst, ListsForeign, Iterating, Foreign
  <1>5. Phases'
    BY DEF DropReply, Idle, IInv, Phases, TypeOK, HubShape, NeverWaitsForGathering,
      PushIsFirst, ListsForeign, Done
  <1>6. (SendsOnlyCurrent /\ SendsAllCurrent)'
    BY DEF DropReply, Idle, IInv, SendsOnlyCurrent, SendsAllCurrent, TypeOK, HubShape,
      AddedOnce, PushIsFirst, ListsForeign, OneSenderPerTrack, Phases, Pending,
      Iterating, Foreign, Done
  <1> QED BY <1>1, <1>2, <1>3, <1>4, <1>5, <1>6 DEF IInv

\* The hub ends.
LEMMA HubReturnStep ==
  ASSUME IInv, HubReturn
  PROVE  IInv'
  <1>1. TypeOK'
    BY DEF HubReturn, IInv, TypeOK, HubState, PhaseState, PubState, FetchState, HubShape
  <1>2. (HubShape /\ NeverWaitsForGathering)'
    BY DEF HubReturn, IInv, HubShape, NeverWaitsForGathering, TypeOK, Iterating, Foreign
  <1>3. (AddedOnce /\ PushIsFirst /\ ListsForeign)'
    BY DEF HubReturn, IInv, AddedOnce, PushIsFirst, ListsForeign, TypeOK, HubShape,
      Iterating, Foreign
  <1>4. (OneSenderPerTrack /\ NoEcho)'
    BY DEF HubReturn, IInv, OneSenderPerTrack, NoEcho, TypeOK, HubShape, PushIsFirst,
      ListsForeign, Iterating, Foreign
  <1>5. Phases'
    BY DEF HubReturn, IInv, Phases, TypeOK, HubShape, NeverWaitsForGathering,
      PushIsFirst, ListsForeign, Done
  <1>6. (SendsOnlyCurrent /\ SendsAllCurrent)'
    BY DEF HubReturn, IInv, SendsOnlyCurrent, SendsAllCurrent, TypeOK, HubShape,
      AddedOnce, PushIsFirst, ListsForeign, OneSenderPerTrack, Phases, Pending,
      Iterating, Foreign, Done
  <1> QED BY <1>1, <1>2, <1>3, <1>4, <1>5, <1>6 DEF IInv

\* A command begins to establish the egress endpoint.
LEMMA BeginEgressStep ==
  ASSUME IInv, NEW s \in Session, BeginEgress(s)
  PROVE  IInv'
  <1>1. TypeOK'
    BY DEF BeginEgress, SequencerFree, IInv, TypeOK, HubState, PhaseState, PubState,
      FetchState, HubShape
  <1>2. (HubShape /\ NeverWaitsForGathering)'
    BY DEF BeginEgress, SequencerFree, IInv, HubShape, NeverWaitsForGathering, TypeOK,
      Iterating, Foreign
  <1>3. (AddedOnce /\ PushIsFirst /\ ListsForeign)'
    BY DEF BeginEgress, IInv, AddedOnce, PushIsFirst, ListsForeign, Phases, TypeOK, Iterating,
      Foreign
  <1>4. (OneSenderPerTrack /\ NoEcho)'
    BY DEF BeginEgress, SequencerFree, IInv, OneSenderPerTrack, NoEcho, TypeOK,
      HubShape, PushIsFirst, ListsForeign, Iterating, Foreign
  <1>5. Phases'
    BY DEF BeginEgress, SequencerFree, IInv, Phases, TypeOK, HubShape,
      NeverWaitsForGathering, PushIsFirst, ListsForeign, Done
  <1>6. (SendsOnlyCurrent /\ SendsAllCurrent)'
    BY DEF BeginEgress, SequencerFree, IInv, SendsOnlyCurrent, SendsAllCurrent, TypeOK,
      HubShape, AddedOnce, PushIsFirst, ListsForeign, OneSenderPerTrack, Phases,
      Pending, Iterating, Foreign, Done
  <1> QED BY <1>1, <1>2, <1>3, <1>4, <1>5, <1>6 DEF IInv

\* It fails.
LEMMA EstablishFailsStep ==
  ASSUME IInv, NEW s \in Session, EstablishFails(s)
  PROVE  IInv'
  <1>1. TypeOK'
    BY DEF EstablishFails, IInv, TypeOK, HubState, PhaseState, PubState, FetchState,
      HubShape
  <1>2. (HubShape /\ NeverWaitsForGathering)'
    BY DEF EstablishFails, IInv, HubShape, NeverWaitsForGathering, TypeOK, Iterating,
      Foreign
  <1>3. (AddedOnce /\ PushIsFirst /\ ListsForeign)'
    BY DEF EstablishFails, IInv, AddedOnce, PushIsFirst, ListsForeign, Phases, TypeOK, Iterating,
      Foreign
  <1>4. (OneSenderPerTrack /\ NoEcho)'
    BY DEF EstablishFails, IInv, OneSenderPerTrack, NoEcho, TypeOK, HubShape,
      PushIsFirst, ListsForeign, Iterating, Foreign
  <1>5. Phases'
    BY DEF EstablishFails, IInv, Phases, TypeOK, HubShape, NeverWaitsForGathering,
      PushIsFirst, ListsForeign, Done
  <1>6. (SendsOnlyCurrent /\ SendsAllCurrent)'
    BY DEF EstablishFails, IInv, SendsOnlyCurrent, SendsAllCurrent, TypeOK, HubShape,
      AddedOnce, PushIsFirst, ListsForeign, OneSenderPerTrack, Phases, Pending,
      Iterating, Foreign, Done
  <1> QED BY <1>1, <1>2, <1>3, <1>4, <1>5, <1>6 DEF IInv

\* The endpoint may fetch, but nobody sends to it yet.
LEMMA SetInitCompleteStep ==
  ASSUME IInv, NEW s \in Session, SetInitComplete(s)
  PROVE  IInv'
  <1>1. TypeOK'
    BY DEF SetInitComplete, IInv, TypeOK, HubState, PhaseState, PubState, FetchState,
      HubShape
  <1>2. (HubShape /\ NeverWaitsForGathering)'
    BY DEF SetInitComplete, IInv, HubShape, NeverWaitsForGathering, TypeOK, Iterating,
      Foreign
  <1>3. (AddedOnce /\ PushIsFirst /\ ListsForeign)'
    BY DEF SetInitComplete, IInv, AddedOnce, PushIsFirst, ListsForeign, TypeOK,
      HubShape, Iterating, Foreign
  <1>4. (OneSenderPerTrack /\ NoEcho)'
    BY DEF SetInitComplete, IInv, OneSenderPerTrack, NoEcho, TypeOK, HubShape,
      PushIsFirst, ListsForeign, Iterating, Foreign
  <1>5. Phases'
    BY DEF SetInitComplete, IInv, Phases, TypeOK, HubShape, NeverWaitsForGathering,
      PushIsFirst, ListsForeign, Done
  <1>6. (SendsOnlyCurrent /\ SendsAllCurrent)'
    BY DEF SetInitComplete, IInv, SendsOnlyCurrent, SendsAllCurrent, TypeOK, HubShape,
      AddedOnce, PushIsFirst, ListsForeign, OneSenderPerTrack, Phases, Pending,
      Iterating, Foreign, Done
  <1> QED BY <1>1, <1>2, <1>3, <1>4, <1>5, <1>6 DEF IInv

\* The endpoint is ready.
LEMMA EgressReturnsStep ==
  ASSUME IInv, NEW s \in Session, EgressReturns(s)
  PROVE  IInv'
  <1>1. TypeOK'
    BY DEF EgressReturns, IInv, TypeOK, HubState, PhaseState, PubState, FetchState,
      HubShape
  <1>2. (HubShape /\ NeverWaitsForGathering)'
    BY DEF EgressReturns, IInv, HubShape, NeverWaitsForGathering, TypeOK, Iterating,
      Foreign
  <1>3. (AddedOnce /\ PushIsFirst /\ ListsForeign)'
    BY DEF EgressReturns, IInv, AddedOnce, PushIsFirst, ListsForeign, TypeOK, HubShape,
      Iterating, Foreign
  <1>4. (OneSenderPerTrack /\ NoEcho)'
    BY DEF EgressReturns, IInv, OneSenderPerTrack, NoEcho, TypeOK, HubShape,
      PushIsFirst, ListsForeign, Iterating, Foreign
  <1>5. Phases'
    BY DEF EgressReturns, IInv, Phases, TypeOK, HubShape, NeverWaitsForGathering,
      PushIsFirst, ListsForeign, Done
  <1>6. (SendsOnlyCurrent /\ SendsAllCurrent)'
    BY DEF EgressReturns, IInv, SendsOnlyCurrent, SendsAllCurrent, TypeOK, HubShape,
      AddedOnce, PushIsFirst, ListsForeign, OneSenderPerTrack, Phases, Pending,
      Iterating, Foreign, Done
  <1> QED BY <1>1, <1>2, <1>3, <1>4, <1>5, <1>6 DEF IInv

\* Another command takes the mutex ...
LEMMA RefusedCommandStep ==
  ASSUME IInv, NEW s \in Session, RefusedCommand(s)
  PROVE  IInv'
  <1>1. TypeOK'
    BY DEF RefusedCommand, SequencerFree, IInv, TypeOK, HubState, PhaseState, PubState,
      FetchState, HubShape
  <1>2. (HubShape /\ NeverWaitsForGathering)'
    BY DEF RefusedCommand, SequencerFree, IInv, HubShape, NeverWaitsForGathering,
      TypeOK, Iterating, Foreign
  <1>3. (AddedOnce /\ PushIsFirst /\ ListsForeign)'
    BY DEF RefusedCommand, SequencerFree, IInv, AddedOnce, PushIsFirst, ListsForeign,
      TypeOK, HubShape, Iterating, Foreign
  <1>4. (OneSenderPerTrack /\ NoEcho)'
    BY DEF RefusedCommand, SequencerFree, IInv, OneSenderPerTrack, NoEcho, TypeOK,
      HubShape, PushIsFirst, ListsForeign, Iterating, Foreign
  <1>5. Phases'
    BY DEF RefusedCommand, SequencerFree, IInv, Phases, TypeOK, HubShape,
      NeverWaitsForGathering, PushIsFirst, ListsForeign, Done
  <1>6. (SendsOnlyCurrent /\ SendsAllCurrent)'
    BY DEF RefusedCommand, SequencerFree, IInv, SendsOnlyCurrent, SendsAllCurrent,
      TypeOK, HubShape, AddedOnce, PushIsFirst, ListsForeign, OneSenderPerTrack, Phases,
      Pending, Iterating, Foreign, Done
  <1> QED BY <1>1, <1>2, <1>3, <1>4, <1>5, <1>6 DEF IInv

\* ... and gives it back.
LEMMA RefusedReturnsStep ==
  ASSUME IInv, NEW s \in Session, RefusedReturns(s)
  PROVE  IInv'
  <1>1. TypeOK'
    BY DEF RefusedReturns, IInv, TypeOK, HubState, PhaseState, PubState, FetchState,
      HubShape
  <1>2. (HubShape /\ NeverWaitsForGathering)'
    BY DEF RefusedReturns, IInv, HubShape, NeverWaitsForGathering, TypeOK, Iterating,
      Foreign
  <1>3. (AddedOnce /\ PushIsFirst /\ ListsForeign)'
    BY DEF RefusedReturns, IInv, AddedOnce, PushIsFirst, ListsForeign, TypeOK, HubShape,
      Iterating, Foreign
  <1>4. (OneSenderPerTrack /\ NoEcho)'
    BY DEF RefusedReturns, IInv, OneSenderPerTrack, NoEcho, TypeOK, HubShape,
      PushIsFirst, ListsForeign, Iterating, Foreign
  <1>5. Phases'
    BY DEF RefusedReturns, IInv, Phases, TypeOK, HubShape, NeverWaitsForGathering,
      PushIsFirst, ListsForeign, Done
  <1>6. (SendsOnlyCurrent /\ SendsAllCurrent)'
    BY DEF RefusedReturns, IInv, SendsOnlyCurrent, SendsAllCurrent, TypeOK, HubShape,
      AddedOnce, PushIsFirst, ListsForeign, OneSenderPerTrack, Phases, Pending,
      Iterating, Foreign, Done
  <1> QED BY <1>1, <1>2, <1>3, <1>4, <1>5, <1>6 DEF IInv

\* A session is registered.
LEMMA RegisterStep ==
  ASSUME IInv, NEW s \in Session, Register(s)
  PROVE  IInv'
  <1>1. TypeOK'
    BY DEF Register, IInv, TypeOK, HubState, PhaseState, PubState, FetchState, HubShape
  <1>2. (HubShape /\ NeverWaitsForGathering)'
    BY DEF Register, IInv, HubShape, NeverWaitsForGathering, TypeOK, Iterating, Foreign
  <1>3. (AddedOnce /\ PushIsFirst /\ ListsForeign)'
    BY DEF Register, IInv, AddedOnce, PushIsFirst, ListsForeign, TypeOK, HubShape,
      Iterating, Foreign
  <1>4. (OneSenderPerTrack /\ NoEcho)'
    BY DEF Register, IInv, OneSenderPerTrack, NoEcho, TypeOK, HubShape, PushIsFirst,
      ListsForeign, Iterating, Foreign
  <1>5. Phases'
    BY DEF Register, IInv, Phases, TypeOK, HubShape, NeverWaitsForGathering,
      PushIsFirst, ListsForeign, Done
  <1>6. (SendsOnlyCurrent /\ SendsAllCurrent)'
    BY DEF Register, IInv, SendsOnlyCurrent, SendsAllCurrent, TypeOK, HubShape,
      AddedOnce, PushIsFirst, ListsForeign, OneSenderPerTrack, Phases, Pending,
      Iterating, Foreign, Done
  <1> QED BY <1>1, <1>2, <1>3, <1>4, <1>5, <1>6 DEF IInv

\* A session leaves: its context is done.
LEMMA LeaveStep ==
  ASSUME IInv, NEW s \in Session, Leave(s)
  PROVE  IInv'
  <1>1. TypeOK'
    BY DEF Leave, IInv, TypeOK, HubState, PhaseState, PubState, FetchState, HubShape
  <1>2. (HubShape /\ NeverWaitsForGathering)'
    BY DEF Leave, IInv, HubShape, NeverWaitsForGathering, TypeOK, Iterating, Foreign
  <1>3. (AddedOnce /\ PushIsFirst /\ ListsForeign)'
    BY DEF Leave, IInv, AddedOnce, PushIsFirst, ListsForeign, TypeOK, HubShape,
      Iterating, Foreign
  <1>4. (OneSenderPerTrack /\ NoEcho)'
    BY DEF Leave, IInv, OneSenderPerTrack, NoEcho, TypeOK, HubShape, PushIsFirst,
      ListsForeign, Iterating, Foreign
  <1>5. Phases'
    BY DEF Leave, IInv, Phases, TypeOK, HubShape, NeverWaitsForGathering, PushIsFirst,
      ListsForeign, Done
  <1>6. (SendsOnlyCurrent /\ SendsAllCurrent)'
    BY DEF Leave, IInv, SendsOnlyCurrent, SendsAllCurrent, TypeOK, HubShape, AddedOnce,
      PushIsFirst, ListsForeign, OneSenderPerTrack, Phases, Pending, Iterating, Foreign,
      Done
  <1> QED BY <1>1, <1>2, <1>3, <1>4, <1>5, <1>6 DEF IInv

\* The lobby ends: every context is done.
LEMMA CloseLobbyStep ==
  ASSUME IInv, CloseLobby
  PROVE  IInv'
  <1>1. TypeOK'
    BY DEF CloseLobby, IInv, TypeOK, HubState, PhaseState, PubState, FetchState,
      HubShape
  <1>2. (HubShape /\ NeverWaitsForGathering)'
    BY DEF CloseLobby, IInv, HubShape, NeverWaitsForGathering, TypeOK, Iterating,
      Foreign
  <1>3. (AddedOnce /\ PushIsFirst /\ ListsForeign)'
    BY DEF CloseLobby, IInv, AddedOnce, PushIsFirst, ListsForeign, TypeOK, HubShape,
      Iterating, Foreign
  <1>4. (OneSenderPerTrack /\ NoEcho)'
    BY DEF CloseLobby, IInv, OneSenderPerTrack, NoEcho, TypeOK, HubShape, PushIsFirst,
      ListsForeign, Iterating, Foreign
  <1>5. Phases'
    BY DEF CloseLobby, IInv, Phases, TypeOK, HubShape, NeverWaitsForGathering,
      PushIsFirst, ListsForeign, Done
  <1>6. (SendsOnlyCurrent /\ SendsAllCurrent)'
    BY DEF CloseLobby, IInv, SendsOnlyCurrent, SendsAllCurrent, TypeOK, HubShape,
      AddedOnce, PushIsFirst, ListsForeign, OneSenderPerTrack, Phases, Pending,
      Iterating, Foreign, Done
  <1> QED BY <1>1, <1>2, <1>3, <1>4, <1>5, <1>6 DEF IInv

\* The fetch starts.
LEMMA FetchStartStep ==
  ASSUME IInv, NEW s \in Session, FetchStart(s)
  PROVE  IInv'
  <1>1. TypeOK'
    BY DEF FetchStart, IInv, TypeOK, HubState, PhaseState, PubState, FetchState,
      HubShape
  <1>2. (HubShape /\ NeverWaitsForGathering)'
    BY DEF FetchStart, IInv, HubShape, NeverWaitsForGathering, TypeOK, Iterating,
      Foreign
  <1>3. (AddedOnce /\ PushIsFirst /\ ListsForeign)'
    <2>1. \A r \in Session : fetch'[r] \in {"add", "push"} <=> fetch[r] \in {"add", "push"}
      BY DEF FetchStart, IInv, TypeOK
    <2>2. \A r \in Session : fetch'[r] = "push" <=> fetch[r] = "push"
      BY DEF FetchStart, IInv, TypeOK
    <2> QED BY <2>1, <2>2 DEF FetchStart, IInv, AddedOnce, PushIsFirst, ListsForeign, Iterating, Foreign
  <1>4. (OneSenderPerTrack /\ NoEcho)'
    BY DEF FetchStart, IInv, OneSenderPerTrack, NoEcho, TypeOK, HubShape, PushIsFirst,
      ListsForeign, Iterating, Foreign
  <1>5. Phases'
    <2>1. CASE phase[s] \in {"open", "ready", "busy"} /\ fetch' = [fetch EXCEPT ![s] = "request"]
      BY <2>1 DEF FetchStart, IInv, Phases, TypeOK, Done
    <2>2. CASE Done(s) /\ fetch' = [fetch EXCEPT ![s] = "failed"]
      BY <2>2 DEF FetchStart, IInv, Phases, TypeOK, Done
    <2> QED BY <2>1, <2>2 DEF FetchStart
  <1>6. (SendsOnlyCurrent /\ SendsAllCurrent)'
    BY DEF FetchStart, IInv, SendsOnlyCurrent, SendsAllCurrent, TypeOK, HubShape,
      AddedOnce, PushIsFirst, ListsForeign, OneSenderPerTrack, Phases, Pending,
      Iterating, Foreign, Done
  <1> QED BY <1>1, <1>2, <1>3, <1>4, <1>5, <1>6 DEF IInv

\* The hub takes the request for its tracks.
LEMMA FetchRequestStep ==
  ASSUME IInv, NEW s \in Session, FetchRequest(s)
  PROVE  IInv'
  <1>1. TypeOK'
    BY DEF FetchRequest, Receptive, IInv, TypeOK, HubState, PhaseState, PubState,
      FetchState, HubShape
  <1>2. (HubShape /\ NeverWaitsForGathering)'
    BY DEF FetchRequest, Receptive, IInv, HubShape, NeverWaitsForGathering, TypeOK,
      Iterating, Foreign
  <1>3. (AddedOnce /\ PushIsFirst /\ ListsForeign)'
    BY DEF FetchRequest, Receptive, IInv, AddedOnce, PushIsFirst, ListsForeign, TypeOK,
      HubShape, Iterating, Foreign
  <1>4. (OneSenderPerTrack /\ NoEcho)'
    BY DEF FetchRequest, Receptive, IInv, OneSenderPerTrack, NoEcho, TypeOK, HubShape,
      PushIsFirst, ListsForeign, Iterating, Foreign
  <1>5. Phases'
    BY DEF FetchRequest, Receptive, IInv, Phases, TypeOK, HubShape,
      NeverWaitsForGathering, PushIsFirst, ListsForeign, Done
  <1>6. (SendsOnlyCurrent /\ SendsAllCurrent)'
    BY DEF FetchRequest, Receptive, IInv, SendsOnlyCurrent, SendsAllCurrent, TypeOK,
      HubShape, AddedOnce, PushIsFirst, ListsForeign, OneSenderPerTrack, Phases,
      Pending, Iterating, Foreign, Done
  <1> QED BY <1>1, <1>2, <1>3, <1>4, <1>5, <1>6 DEF IInv

\* The request fails.
LEMMA FetchFailsStep ==
  ASSUME IInv, NEW s \in Session, FetchFails(s)
  PROVE  IInv'
  <1>1. TypeOK'
    BY DEF FetchFails, IInv, TypeOK, HubState, PhaseState, PubState, FetchState,
      HubShape
  <1>2. (HubShape /\ NeverWaitsForGathering)'
    BY DEF FetchFails, IInv, HubShape, NeverWaitsForGathering, TypeOK, Iterating,
      Foreign
  <1>3. (AddedOnce /\ PushIsFirst /\ ListsForeign)'
    BY DEF FetchFails, IInv, AddedOnce, PushIsFirst, ListsForeign, TypeOK, HubShape,
      Iterating, Foreign
  <1>4. (OneSenderPerTrack /\ NoEcho)'
    BY DEF FetchFails, IInv, OneSenderPerTrack, NoEcho, TypeOK, HubShape, PushIsFirst,
      ListsForeign, Iterating, Foreign
  <1>5. Phases'
    BY DEF FetchFails, IInv, Phases, TypeOK, HubShape, NeverWaitsForGathering,
      PushIsFirst, ListsForeign, Done
  <1>6. (SendsOnlyCurrent /\ SendsAllCurrent)'
    BY DEF FetchFails, IInv, SendsOnlyCurrent, SendsAllCurrent, TypeOK, HubShape,
      AddedOnce, PushIsFirst, ListsForeign, OneSenderPerTrack, Phases, Pending,
      Iterating, Foreign, Done
  <1> QED BY <1>1, <1>2, <1>3, <1>4, <1>5, <1>6 DEF IInv

\* The fetch looks for a sender.
LEMMA FetchCheckStep ==
  ASSUME IInv, NEW s \in Session, NEW t \in Track, FetchCheck(s, t)
  PROVE  IInv'
  <1>1. TypeOK'
    <2>1. CASE senders[s][t] > 0 /\ list' = [list EXCEPT ![s] = @ \ {t}] /\ UNCHANGED <<fetch, pick>>
      <3>1. list[s] \ {t} \in SUBSET Track
        BY DEF IInv, TypeOK
      <3>2. list' \in [Session -> SUBSET Track]
        BY <2>1, <3>1 DEF IInv, TypeOK
      <3> QED BY <2>1, <3>2 DEF FetchCheck, Running, IInv, TypeOK
    <2>2. CASE /\ ~(senders[s][t] > 0) /\ fetch' = [fetch EXCEPT ![s] = "push"]
               /\ pick' = [pick EXCEPT ![s] = t] /\ UNCHANGED list
      <3>1. fetch' \in [Session -> FetchState] /\ pick' \in [Session -> Track \cup {NoTrack}]
        BY <2>2 DEF IInv, TypeOK, FetchState
      <3> QED BY <2>2, <3>1 DEF FetchCheck, Running, IInv, TypeOK
    <2> QED BY <2>1, <2>2 DEF FetchCheck
  <1>2. (HubShape /\ NeverWaitsForGathering)'
    BY DEF FetchCheck, IInv, HubShape, NeverWaitsForGathering, TypeOK, Iterating,
      Foreign
  <1>3. (AddedOnce /\ PushIsFirst /\ ListsForeign)'
    <2>1. CASE senders[s][t] > 0 /\ list' = [list EXCEPT ![s] = @ \ {t}] /\ UNCHANGED <<fetch, pick>>
      BY <2>1 DEF FetchCheck, IInv, TypeOK, AddedOnce, PushIsFirst, ListsForeign, Iterating, Foreign
    <2>2. CASE /\ ~(senders[s][t] > 0) /\ fetch' = [fetch EXCEPT ![s] = "push"]
               /\ pick' = [pick EXCEPT ![s] = t] /\ UNCHANGED list
      BY <2>2 DEF FetchCheck, IInv, TypeOK, AddedOnce, PushIsFirst, ListsForeign, Iterating, Foreign
    <2> QED BY <2>1, <2>2 DEF FetchCheck
  <1>4. (OneSenderPerTrack /\ NoEcho)'
    BY DEF FetchCheck, IInv, OneSenderPerTrack, NoEcho, TypeOK, HubShape, PushIsFirst,
      ListsForeign, Iterating, Foreign
  <1>5. Phases'
    BY DEF FetchCheck, IInv, Phases, TypeOK, HubShape, NeverWaitsForGathering,
      PushIsFirst, ListsForeign, Done
  <1>6. (SendsOnlyCurrent /\ SendsAllCurrent)'
    <2>1. CASE senders[s][t] > 0 /\ list' = [list EXCEPT ![s] = @ \ {t}] /\ UNCHANGED <<fetch, pick>>
      BY <2>1 DEF FetchCheck, IInv, TypeOK, SendsOnlyCurrent, SendsAllCurrent, Pending, Iterating,
        Foreign, Done
    <2>2. CASE /\ ~(senders[s][t] > 0) /\ fetch' = [fetch EXCEPT ![s] = "push"]
               /\ pick' = [pick EXCEPT ![s] = t] /\ UNCHANGED list
      BY <2>2 DEF FetchCheck, IInv, TypeOK, SendsOnlyCurrent, SendsAllCurrent, Pending, Iterating,
        Foreign, Done
    <2> QED BY <2>1, <2>2 DEF FetchCheck
  <1> QED BY <1>1, <1>2, <1>3, <1>4, <1>5, <1>6 DEF IInv

\* The fetch adds the sender: the hub is not adding the same track.
LEMMA FetchPushStep ==
  ASSUME IInv, NEW s \in Session, FetchPush(s)
  PROVE  IInv'
  <1>1. TypeOK'
    <2>1. pick[s] \in Track
      BY DEF FetchPush, IInv, TypeOK, PushIsFirst
    <2>2. senders' \in [Session -> [Track -> Nat]]
      BY <2>1, PushedType DEF FetchPush, IInv
    <2>3. list' \in [Session -> SUBSET Track]
      BY DEF FetchPush, IInv, TypeOK
    <2> QED BY <2>2, <2>3 DEF FetchPush, IInv, TypeOK, FetchState
  <1>2. (HubShape /\ NeverWaitsForGathering)'
    BY DEF FetchPush, Pushed, IInv, HubShape, NeverWaitsForGathering, TypeOK, Iterating,
      Foreign
  <1>3. (AddedOnce /\ PushIsFirst /\ ListsForeign)'
    BY DEF FetchPush, Pushed, IInv, AddedOnce, PushIsFirst, ListsForeign, TypeOK,
      HubShape, Iterating, Foreign
  <1>4. (OneSenderPerTrack /\ NoEcho)'
    BY DEF FetchPush, Pushed, IInv, OneSenderPerTrack, NoEcho, TypeOK, HubShape,
      PushIsFirst, ListsForeign, Iterating, Foreign
  <1>5. Phases'
    BY DEF FetchPush, Pushed, IInv, Phases, TypeOK, HubShape, NeverWaitsForGathering,
      PushIsFirst, ListsForeign, Done
  <1>6. (SendsOnlyCurrent /\ SendsAllCurrent)'
    BY DEF FetchPush, Pushed, IInv, SendsOnlyCurrent, SendsAllCurrent, TypeOK, HubShape,
      AddedOnce, PushIsFirst, ListsForeign, OneSenderPerTrack, Phases, Pending,
      Iterating, Foreign, Done
  <1> QED BY <1>1, <1>2, <1>3, <1>4, <1>5, <1>6 DEF IInv

\* The fetch ends.
LEMMA FetchDoneStep ==
  ASSUME IInv, NEW s \in Session, FetchDone(s)
  PROVE  IInv'
  <1>1. TypeOK'
    BY DEF FetchDone, IInv, TypeOK, HubState, PhaseState, PubState, FetchState, HubShape
  <1>2. (HubShape /\ NeverWaitsForGathering)'
    BY DEF FetchDone, IInv, HubShape, NeverWaitsForGathering, TypeOK, Iterating, Foreign
  <1>3. (AddedOnce /\ PushIsFirst /\ ListsForeign)'
    BY DEF FetchDone, IInv, AddedOnce, PushIsFirst, ListsForeign, TypeOK, HubShape,
      Iterating, Foreign
  <1>4. (OneSenderPerTrack /\ NoEcho)'
    BY DEF FetchDone, IInv, OneSenderPerTrack, NoEcho, TypeOK, HubShape, PushIsFirst,
      ListsForeign, Iterating, Foreign
  <1>5. Phases'
    BY DEF FetchDone, IInv, Phases, TypeOK, HubShape, NeverWaitsForGathering,
      PushIsFirst, ListsForeign, Done
  <1>6. (SendsOnlyCurrent /\ SendsAllCurrent)'
    BY DEF FetchDone, IInv, SendsOnlyCurrent, SendsAllCurrent, TypeOK, HubShape,
      AddedOnce, PushIsFirst, ListsForeign, OneSenderPerTrack, Phases, Pending,
      Iterating, Foreign, Done
  <1> QED BY <1>1, <1>2, <1>3, <1>4, <1>5, <1>6 DEF IInv

-----------------------------------------------------------------------------
LEMMA InitInv == Init => IInv
  <1> SUFFICES ASSUME Init PROVE IInv
    OBVIOUS
  <1>1. TypeOK
    BY DEF Init, TypeOK, HubState, PhaseState, PubState, FetchState
  <1>2. HubShape /\ NeverWaitsForGathering /\ AddedOnce /\ PushIsFirst
    BY DEF Init, HubShape, NeverWaitsForGathering, AddedOnce, PushIsFirst, Iterating
  <1>3. ListsForeign /\ OneSenderPerTrack /\ NoEcho /\ Phases
    BY DEF Init, ListsForeign, OneSenderPerTrack, NoEcho, Phases
  <1>4. SendsOnlyCurrent /\ SendsAllCurrent
    BY DEF Init, SendsOnlyCurrent, SendsAllCurrent, Foreign
  <1> QED BY <1>1, <1>2, <1>3, <1>4 DEF IInv

LEMMA NextInv == IInv /\ [Next]_vars => IInv'
  <1> SUFFICES ASSUME IInv, [Next]_vars PROVE IInv'
    OBVIOUS
  <1>1. CASE UNCHANGED vars
    BY <1>1 DEF vars, IInv, TypeOK, HubShape, NeverWaitsForGathering, AddedOnce,
      PushIsFirst, ListsForeign, OneSenderPerTrack, NoEcho, Phases, SendsOnlyCurrent,
      SendsAllCurrent, Pending, Iterating, Foreign, Done
  <1>2. CASE \E t \in Track : PublisherStep(t)
    BY <1>2, OnTrackStep, WriterEndsStep, DropAddStep, DropRemoveStep, TakeAddStep,
      TakeRemoveStep DEF PublisherStep
  <1>3. CASE HubStep
    BY <1>3, VisitStep, AddTrackStep, PushTrackStep, RemoveTrackStep, IterDoneStep,
      ReplyStep, DropReplyStep, HubReturnStep DEF HubStep
  <1>4. CASE \E s \in Session : CommandStep(s) \/ SequencerStep(s)
    BY <1>4, EstablishFailsStep, SetInitCompleteStep, EgressReturnsStep, RefusedReturnsStep,
      BeginEgressStep, RefusedCommandStep, RegisterStep, LeaveStep DEF CommandStep, SequencerStep
  <1>5. CASE \E s \in Session : FetchStep(s)
    BY <1>5, FetchStartStep, FetchRequestStep, FetchFailsStep, FetchCheckStep,
      FetchPushStep, FetchDoneStep DEF FetchStep
  <1>6. CASE CloseLobby
    BY <1>6, CloseLobbyStep
  <1> QED BY <1>1, <1>2, <1>3, <1>4, <1>5, <1>6 DEF Next

LEMMA Inductive == Spec => []IInv
  BY InitInv, NextInv, PTL DEF Spec

-----------------------------------------------------------------------------
\* Every egress connection sends a track at most once and never back to the session
\* it comes from, although hub and fetching goroutine both run Endpoint.AddTrack with
\* no lock in common (hasTrack, then AddTrack); and every variable has its type.
THEOREM SendersCorrect == Spec => []SendersOK
  <1>1. IInv => SendersOK
    BY DEF IInv, SendersOK
  <1> QED BY <1>1, Inductive, PTL

\* The hub never waits for a session that gathers candidates, though initComplete is
\* not checked under the lock that Session.addTrack takes.
THEOREM NeverWaitsCorrect == Spec => []NeverWaitsForGathering
  <1>1. IInv => NeverWaitsForGathering
    BY DEF IInv
  <1> QED BY <1>1, Inductive, PTL

\* When the hub is at rest, every session that has fetched its tracks sends those the
\* hub has and no others, but for the tracks the two named races made it miss.
THEOREM InStepCorrect == Spec => []InStepButMissed
  <1>1. IInv => InStepButMissed
    BY DEF IInv, TypeOK, InStepButMissed, ListsForeign, SendsOnlyCurrent, SendsAllCurrent,
      Pending, Iterating, Foreign
  <1> QED BY <1>1, Inductive, PTL
=============================================================================
