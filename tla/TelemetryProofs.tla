--------------------------- MODULE TelemetryProofs ---------------------------
(***************************************************************************)
(* Proofs about the statistics registry and the node graph, for any number  *)
(* of tracks and of synchronisation sources.                                *)
(*                                                                          *)
(* The graph is right as long as the fetching goroutine does not meet the   *)
(* hub in the map of nodes: it then still has the number it read when it    *)
(* writes the number back.                                                  *)
(***************************************************************************)
EXTENDS Telemetry, FiniteSetTheorems, TLAPS

\* Endpoints; tracks are fetched and nodes counted only for one that is ready.
LifeInv ==
  /\ open \subseteq Endpoint
  /\ built \in [Endpoint -> {"no", "new", "connected", "ready"}]
  /\ ended \in [Endpoint -> {"no", "left", "stopped", "closed"}]

\* Every track the egress connection sends has its worker, and nobody else has one.
WorkerInv ==
  /\ locked \subseteq Endpoint
  /\ registered \in [Endpoint -> SUBSET Source]
  /\ registered["egress"] \subseteq Track \X {"hub", "fetch"}
  /\ senders \subseteq Track
  /\ ended["egress"] = "no" =>
       \A t \in Track : t \in senders <=> \E who \in {"hub", "fetch"} : <<t, who>> \in registered["egress"]

\* The hub goroutine.
HubInv ==
  /\ hpc \in {"idle", "add", "remove", "count"}
  /\ htrack \in Track \cup {None} /\ (hpc = "idle" <=> htrack = None)

\* A track is added once.
TrackInv ==
  /\ tpc \in [Track -> {"none", "dispatch", "early", "live", "over"}]
  /\ adds \subseteq Track /\ removes \subseteq Track /\ tracks \subseteq Track
  /\ IsFiniteSet(tracks)
  /\ \A t \in adds : t \notin tracks
  /\ \A t \in Track : tpc[t] \in {"none", "dispatch", "early"} => t \notin adds /\ t \notin tracks

\* The fetching goroutine has the number of the node while it is in the map.
FetchInv ==
  /\ fpc \in {"none", "read", "write", "push"}
  /\ list \subseteq Track
  /\ inc \in [done : SUBSET Track, track : Track \cup {None}, node : Int]
  /\ raced \in BOOLEAN
  /\ nodes \in [Endpoint -> Int \cup {None}]
  /\ fpc = "write" => inc.track \in Track
  /\ fpc = "write" /\ ~raced => inc.node = NodeOf("egress")
  /\ built["egress"] # "ready" => fpc = "none" /\ nodes["egress"] = None

Id == {"hub"} \cup Endpoint

\* The number of tracks a node should show.
Shown(id) == IF id = "hub" THEN hubNode ELSE NodeOf(id)

\* A series has the labels of its node.
SeriesInv ==
  /\ hubNode \in Int
  /\ gauge \subseteq Id \X Int
  /\ ~raced => \A a \in gauge : a[2] = Shown(a[1])

\* An edge is drawn to every node; the fetching goroutine draws it first.
EdgeInv ==
  /\ edges \subseteq Endpoint
  /\ ~raced =>
       \A e \in Endpoint : e \in edges <=> (nodes[e] # None \/ (e = "egress" /\ fpc = "write"))

\* Hub and publisher are shown with the tracks the hub has.
CountInv ==
  /\ overtaken \in BOOLEAN
  /\ ~raced /\ ~overtaken => hubNode = Cardinality(tracks) /\ NodeOf("ingress") = Cardinality(tracks)

\* The inductive invariant.
IInv ==
  LifeInv /\ WorkerInv /\ HubInv /\ TrackInv /\ FetchInv /\ SeriesInv /\ EdgeInv /\ CountInv

-----------------------------------------------------------------------------
USE TelemetryAssumption DEF registry, graph, publisher, fetcher, life

(* What a step leaves alone. *)

LEMMA Endpoints == "ingress" \in Endpoint /\ "egress" \in Endpoint /\ "hub" \notin Endpoint
  BY DEF Endpoint

LEMMA LifeKept ==
  ASSUME LifeInv, UNCHANGED <<open, built, ended>>
  PROVE  LifeInv'
  BY DEF LifeInv

\* The registry may be left when the connection is taken down.
LEMMA WorkersKept ==
  ASSUME WorkerInv, UNCHANGED <<locked, registered, senders>>, ended'["egress"] = "no" => ended["egress"] = "no"
  PROVE  WorkerInv'
  BY DEF WorkerInv

LEMMA HubKept ==
  ASSUME HubInv, UNCHANGED <<hpc, htrack>>
  PROVE  HubInv'
  BY DEF HubInv

LEMMA TracksKept ==
  ASSUME TrackInv, UNCHANGED <<tpc, adds, removes, tracks>>
  PROVE  TrackInv'
  BY DEF TrackInv

LEMMA FetchKept ==
  ASSUME FetchInv, UNCHANGED <<fpc, list, inc, raced, nodes>>,
         built'["egress"] = built["egress"] \/ (built["egress"] # "ready")
  PROVE  FetchInv'
  BY DEF FetchInv, NodeOf

LEMMA SeriesKept ==
  ASSUME SeriesInv, UNCHANGED <<hubNode, nodes, raced>>, gauge' \subseteq gauge
  PROVE  SeriesInv'
  BY DEF SeriesInv, Shown, NodeOf

LEMMA EdgesKept ==
  ASSUME EdgeInv, UNCHANGED <<edges, nodes, raced>>, fpc' = fpc \/ (fpc # "write" /\ fpc' # "write")
  PROVE  EdgeInv'
  BY DEF EdgeInv

LEMMA CountsKept ==
  ASSUME CountInv, UNCHANGED <<overtaken, raced, hubNode, tracks>>, nodes'["ingress"] = nodes["ingress"]
  PROVE  CountInv'
  BY DEF CountInv, NodeOf

LEMMA GraphKept ==
  ASSUME IInv, UNCHANGED <<graph, raced, overtaken, tracks, fetcher, built>>
  PROVE  FetchInv' /\ SeriesInv' /\ EdgeInv' /\ CountInv'
  BY FetchKept, SeriesKept, EdgesKept, CountsKept DEF IInv

-----------------------------------------------------------------------------
(* The registry. *)

\* StartWorker for a track that is sent from now on.
LEMMA AddTrackKeeps ==
  ASSUME IInv, UNCHANGED ended, NEW t \in Track, NEW who \in {"hub", "fetch"}, AddTrack(t, who)
  PROVE  WorkerInv'
  <1>1. CASE t \in senders \/ ended["egress"] = "closed"
    BY <1>1, WorkersKept DEF IInv, AddTrack
  <1>2. CASE ~(t \in senders \/ ended["egress"] = "closed")
    <2>1. senders' = senders \cup {t} /\ StartWorker("egress", <<t, who>>)
      BY <1>2 DEF AddTrack
    <2>2. <<t, who>> \in Source /\ <<t, who>> \in Track \X {"hub", "fetch"}
      <3>1. <<t, who>> \in Track \X {"hub", "fetch"}
        OBVIOUS
      <3> QED BY <3>1, Zenon DEF Source
    <2>3. locked' \subseteq Endpoint
      BY <2>1, Endpoints DEF IInv, WorkerInv, StartWorker
    <2>4. PICK r : r = registered["egress"] \cup {<<t, who>>}
      OBVIOUS
    <2>5. registered' = [registered EXCEPT !["egress"] = r]
      BY <2>1, <2>4, Endpoints DEF IInv, WorkerInv, StartWorker
    <2>6. registered' \in [Endpoint -> SUBSET Source] /\ registered'["egress"] = r
      BY <2>2, <2>4, <2>5, Endpoints DEF IInv, WorkerInv
    <2>7. r \subseteq Track \X {"hub", "fetch"}
      BY <2>2, <2>4 DEF IInv, WorkerInv
    <2>8. \A u \in Track, w \in {"hub", "fetch"} :
            <<u, w>> \in r <=> <<u, w>> \in registered["egress"] \/ (u = t /\ w = who)
      BY <2>4
    <2>9. ended["egress"] = "no" =>
            \A u \in Track : u \in senders' <=> \E w \in {"hub", "fetch"} : <<u, w>> \in r
      BY <2>1, <2>8 DEF IInv, WorkerInv
    <2> QED BY <2>1, <2>3, <2>6, <2>7, <2>9 DEF IInv, WorkerInv
  <1> QED BY <1>1, <1>2

LEMMA OnTrackStep ==
  ASSUME IInv, NEW t \in Track, NEW x \in Ssrc[t], OnTrack(t, x)
  PROVE  IInv'
  <1>1. /\ tpc[t] = "none" /\ StartWorker("ingress", x) /\ tpc' = [tpc EXCEPT ![t] = "dispatch"]
        /\ UNCHANGED <<life, adds, removes, overtaken, hpc, htrack, tracks, senders, fetcher, graph, raced>>
    BY DEF OnTrack
  <1>2. WorkerInv'
    <2>1. x \in Source
      BY DEF Source
    <2>2. locked' \subseteq Endpoint
      BY <1>1, Endpoints DEF IInv, WorkerInv, StartWorker
    <2>3. registered' \in [Endpoint -> SUBSET Source] /\ registered'["egress"] = registered["egress"]
      BY <1>1, <2>1, Endpoints DEF IInv, WorkerInv, StartWorker
    <2> QED BY <1>1, <2>2, <2>3 DEF IInv, WorkerInv
  <1>3. TrackInv'
    <2>1. tpc' \in [Track -> {"none", "dispatch", "early", "live", "over"}]
      BY <1>1 DEF IInv, TrackInv
    <2>2. \A u \in Track : tpc'[u] = IF u = t THEN "dispatch" ELSE tpc[u]
      BY <1>1 DEF IInv, TrackInv
    <2> QED BY <1>1, <2>1, <2>2 DEF IInv, TrackInv
  <1> QED BY <1>1, <1>2, <1>3, LifeKept, HubKept, GraphKept DEF IInv

LEMMA DispatchStep ==
  ASSUME IInv, NEW t \in Track, DispatchAddTrack(t) \/ DispatchRemoveTrack(t)
  PROVE  IInv'
  <1>1. UNCHANGED <<life, registry, overtaken, hpc, htrack, tracks, senders, fetcher, graph, raced>>
    BY DEF DispatchAddTrack, DispatchRemoveTrack
  <1>2. TrackInv'
    <2>1. CASE DispatchAddTrack(t)
      <3>1. /\ tpc[t] \in {"dispatch", "early"} /\ adds' = adds \cup {t} /\ removes' = removes
            /\ tpc' = [tpc EXCEPT ![t] = IF @ = "early" THEN "over" ELSE "live"]
        BY <2>1 DEF DispatchAddTrack
      <3>2. tpc' \in [Track -> {"none", "dispatch", "early", "live", "over"}]
        BY <3>1 DEF IInv, TrackInv
      <3>3. \A u \in Track : u # t => tpc'[u] = tpc[u]
        BY <3>1 DEF IInv, TrackInv
      <3>4. tpc'[t] \in {"over", "live"}
        BY <3>1 DEF IInv, TrackInv
      <3> QED BY <1>1, <3>1, <3>2, <3>3, <3>4 DEF IInv, TrackInv
    <2>2. CASE DispatchRemoveTrack(t)
      <3>1. /\ tpc[t] \in {"dispatch", "live"} /\ removes' = removes \cup {t} /\ adds' = adds
            /\ tpc' = [tpc EXCEPT ![t] = IF @ = "dispatch" THEN "early" ELSE "over"]
        BY <2>2 DEF DispatchRemoveTrack
      <3>2. tpc' \in [Track -> {"none", "dispatch", "early", "live", "over"}]
        BY <3>1 DEF IInv, TrackInv
      <3>3. \A u \in Track : u # t => tpc'[u] = tpc[u]
        BY <3>1 DEF IInv, TrackInv
      <3>4. tpc'[t] = IF tpc[t] = "dispatch" THEN "early" ELSE "over"
        BY <3>1 DEF IInv, TrackInv
      <3> QED BY <1>1, <3>1, <3>2, <3>3, <3>4 DEF IInv, TrackInv
    <2> QED BY <2>1, <2>2
  <1> QED BY <1>1, <1>2, LifeKept, WorkersKept, HubKept, GraphKept DEF IInv

LEMMA HubAddTrackStep ==
  ASSUME IInv, HubAddTrack
  PROVE  IInv'
  <1>1. /\ hpc = "add" /\ AddTrack(htrack, "hub") /\ hpc' = "idle" /\ htrack' = None
        /\ UNCHANGED <<life, publisher, tracks, fetcher, graph, raced>>
    BY DEF HubAddTrack, HubIdle
  <1>2. htrack \in Track
    BY <1>1 DEF IInv, HubInv
  <1>3. WorkerInv'
    BY <1>1, <1>2, AddTrackKeeps
  <1>4. HubInv'
    BY <1>1 DEF HubInv
  <1> QED BY <1>1, <1>3, <1>4, LifeKept, TracksKept, GraphKept DEF IInv

LEMMA RemoveTrackStep ==
  ASSUME IInv, RemoveTrack
  PROVE  IInv'
  <1>1. /\ hpc = "remove" /\ hpc' = "count"
        /\ UNCHANGED <<life, publisher, htrack, tracks, fetcher, graph, raced>>
    BY DEF RemoveTrack
  <1>2. htrack \in Track
    BY <1>1 DEF IInv, HubInv
  <1>3. WorkerInv'
    <2>1. CASE htrack \notin senders
      BY <1>1, <2>1, WorkersKept DEF IInv, RemoveTrack
    <2>2. CASE htrack \in senders
      <3>1. PICK r : r = registered["egress"] \ ({htrack} \X {"hub", "fetch"})
        OBVIOUS
      <3>2. /\ senders' = senders \ {htrack} /\ locked' = locked
            /\ registered' = [registered EXCEPT !["egress"] = r]
        BY <2>2, <3>1, Endpoints DEF RemoveTrack, StopWorker, IInv, WorkerInv
      <3>3. registered' \in [Endpoint -> SUBSET Source] /\ registered'["egress"] = r
        BY <3>1, <3>2, Endpoints DEF IInv, WorkerInv
      <3>4. \A u \in Track, w \in {"hub", "fetch"} :
              <<u, w>> \in r <=> <<u, w>> \in registered["egress"] /\ u # htrack
        BY <3>1
      <3>5. r \subseteq Track \X {"hub", "fetch"}
        BY <3>1 DEF IInv, WorkerInv
      <3>6. ended["egress"] = "no" =>
              \A u \in Track : u \in senders' <=> \E w \in {"hub", "fetch"} : <<u, w>> \in r
        BY <3>2, <3>4 DEF IInv, WorkerInv
      <3> QED BY <1>1, <3>2, <3>3, <3>5, <3>6 DEF IInv, WorkerInv
    <2> QED BY <2>1, <2>2
  <1>4. HubInv'
    BY <1>1 DEF IInv, HubInv
  <1> QED BY <1>1, <1>3, <1>4, LifeKept, TracksKept, GraphKept DEF IInv

-----------------------------------------------------------------------------
(* The node graph. *)

\* A series is moved to the labels of its node.
LEMMA MoveShows ==
  ASSUME NEW g, g \subseteq Id \X Int, NEW id \in Id, NEW n \in Int, NEW by \in Int
  PROVE  /\ GraphNodeMove(g, id, n, by) \subseteq Id \X Int
         /\ (\A a \in g : a[1] = id => a[2] = n) =>
              \A a \in GraphNodeMove(g, id, n, by) : IF a[1] = id THEN a[2] = n + by ELSE a \in g
  <1>1. GraphNodeMove(g, id, n, by) = (g \ {<<id, n>>}) \cup {<<id, n + by>>}
    BY DEF GraphNodeMove, GraphNodeUpdate, GraphNodeDelete
  <1>2. <<id, n + by>> \in Id \X Int
    OBVIOUS
  <1>3. \A a \in g : a = <<a[1], a[2]>>
    OBVIOUS
  <1> QED BY <1>1, <1>2, <1>3

\* The nodes of an endpoint and of the hub change, and their series with them.
LEMMA NodeMoves ==
  ASSUME IInv, NEW e \in Endpoint, NEW by \in Int, NEW hubBy \in Int, Race,
         nodes' \in [Endpoint -> Int \cup {None}],
         \A f \in Endpoint : NodeOf(f)' = IF f = e THEN NodeOf(e) + by ELSE NodeOf(f),
         hubNode' = hubNode + hubBy,
         gauge' = GraphNodeMove(GraphNodeMove(gauge, e, NodeOf(e), by), "hub", hubNode, hubBy)
  PROVE  SeriesInv'
  <1>1. hubNode \in Int /\ NodeOf(e) \in Int /\ gauge \subseteq Id \X Int /\ hubNode' \in Int
    BY DEF IInv, SeriesInv, FetchInv, NodeOf
  <1>2. e \in Id /\ "hub" \in Id /\ e # "hub"
    BY Endpoints DEF Id
  <1>3. PICK g : g = GraphNodeMove(gauge, e, NodeOf(e), by)
    OBVIOUS
  <1>4. g \subseteq Id \X Int
    BY <1>1, <1>2, <1>3, MoveShows
  <1>5. gauge' \subseteq Id \X Int
    BY <1>1, <1>2, <1>3, <1>4, MoveShows
  <1>6. ASSUME ~raced'
        PROVE  \A a \in gauge' : a[2] = Shown(a[1])'
    <2>1. ~raced
      BY <1>6 DEF Race
    <2>2. \A a \in gauge : a[2] = Shown(a[1]) /\ a[1] \in Id
      BY <1>1, <2>1 DEF IInv, SeriesInv
    <2>3. \A a \in g : IF a[1] = e THEN a[2] = NodeOf(e) + by ELSE a \in gauge
      <3>1. \A a \in gauge : a[1] = e => a[2] = NodeOf(e)
        BY <1>2, <2>2 DEF Shown
      <3> QED BY <1>1, <1>2, <1>3, <3>1, MoveShows
    <2>4. \A a \in gauge' : IF a[1] = "hub" THEN a[2] = hubNode + hubBy ELSE a \in g
      <3>1. \A a \in g : a[1] = "hub" => a[2] = hubNode
        BY <1>2, <2>2, <2>3 DEF Shown
      <3> QED BY <1>1, <1>2, <1>3, <1>4, <3>1, MoveShows
    <2>5. TAKE a \in gauge'
    <2>6. CASE a[1] = "hub"
      BY <2>4, <2>6 DEF Shown
    <2>7. CASE a[1] = e
      BY <1>2, <2>3, <2>4, <2>7 DEF Shown
    <2>8. CASE a[1] # "hub" /\ a[1] # e
      <3>1. a \in gauge /\ a[1] \in Endpoint
        BY <2>2, <2>3, <2>4, <2>8 DEF Id
      <3> QED BY <2>2, <2>8, <3>1 DEF Shown
    <2> QED BY <2>6, <2>7, <2>8
  <1> QED BY <1>1, <1>5, <1>6 DEF SeriesInv

LEMMA IncreaseKeeps ==
  ASSUME IInv, NEW e \in Endpoint, NEW hubBy \in Int, IncreaseNodeGraphStats(e, hubBy), Race, UNCHANGED fpc
  PROVE  /\ SeriesInv' /\ EdgeInv' /\ nodes' \in [Endpoint -> Int \cup {None}]
         /\ \A f \in Endpoint : nodes'[f] = IF f = e THEN NodeOf(e) + 1 ELSE nodes[f]
         /\ \A f \in Endpoint : NodeOf(f)' = IF f = e THEN NodeOf(e) + 1 ELSE NodeOf(f)
         /\ raced' = (raced \/ InMap)
  <1>1. /\ nodes' = [nodes EXCEPT ![e] = NodeOf(e) + 1] /\ edges' = edges \cup {e}
        /\ hubNode' = hubNode + hubBy
        /\ gauge' = GraphNodeMove(GraphNodeMove(gauge, e, NodeOf(e), 1), "hub", hubNode, hubBy)
    BY DEF IncreaseNodeGraphStats
  <1>2. NodeOf(e) \in Int /\ NodeOf(e) + 1 \in Int /\ NodeOf(e) + 1 # None
    BY DEF IInv, FetchInv, NodeOf
  <1>3. /\ nodes' \in [Endpoint -> Int \cup {None}]
        /\ \A f \in Endpoint : nodes'[f] = IF f = e THEN NodeOf(e) + 1 ELSE nodes[f]
    BY <1>1, <1>2 DEF IInv, FetchInv
  <1>4. \A f \in Endpoint : NodeOf(f)' = IF f = e THEN NodeOf(e) + 1 ELSE NodeOf(f)
    BY <1>2, <1>3 DEF NodeOf
  <1>5. SeriesInv'
    BY <1>1, <1>3, <1>4, NodeMoves
  <1>6. EdgeInv'
    <2>1. ~raced' => ~raced /\ fpc # "write"
      BY DEF Race, InMap
    <2> QED BY <1>1, <1>2, <1>3, <2>1 DEF IInv, EdgeInv
  <1> QED BY <1>3, <1>4, <1>5, <1>6 DEF Race

LEMMA DecreaseKeeps ==
  ASSUME IInv, NEW e \in Endpoint, NEW hubBy \in Int, DecreaseNodeGraphStats(e, hubBy), Race, UNCHANGED fpc
  PROVE  /\ SeriesInv' /\ EdgeInv' /\ nodes' \in [Endpoint -> Int \cup {None}]
         /\ \A f \in Endpoint :
              nodes'[f] = IF f = e THEN (IF nodes[e] \in {None, 1} THEN None ELSE nodes[e] - 1) ELSE nodes[f]
         /\ \A f \in Endpoint :
              NodeOf(f)' = IF f = e /\ nodes[e] # None THEN NodeOf(e) - 1 ELSE NodeOf(f)
         /\ raced' = (raced \/ InMap)
  <1>1. /\ nodes' = [nodes EXCEPT ![e] = IF @ \in {None, 1} THEN None ELSE @ - 1]
        /\ edges' = (IF nodes[e] = 1 THEN edges \ {e} ELSE edges)
        /\ hubNode' = hubNode + hubBy
    BY DEF DecreaseNodeGraphStats
  <1>2. nodes[e] \in Int \cup {None} /\ hubNode \in Int /\ gauge \subseteq Id \X Int /\ None # 1
    BY DEF IInv, FetchInv, SeriesInv
  <1>3. /\ nodes' \in [Endpoint -> Int \cup {None}]
        /\ \A f \in Endpoint :
             nodes'[f] = IF f = e THEN (IF nodes[e] \in {None, 1} THEN None ELSE nodes[e] - 1) ELSE nodes[f]
    BY <1>1, <1>2 DEF IInv, FetchInv
  <1>4. \A f \in Endpoint :
          NodeOf(f)' = IF f = e /\ nodes[e] # None THEN NodeOf(e) - 1 ELSE NodeOf(f)
    BY <1>2, <1>3 DEF NodeOf
  <1>5. SeriesInv'
    <2>1. CASE nodes[e] # None
      <3>1. PICK g : g = GraphNodeMove(gauge, e, NodeOf(e), -1)
        OBVIOUS
      <3>2. gauge' = GraphNodeMove(GraphNodeMove(gauge, "hub", hubNode, hubBy), e, nodes[e], -1)
        BY <2>1 DEF DecreaseNodeGraphStats
      <3>3. gauge' = GraphNodeMove(GraphNodeMove(gauge, e, NodeOf(e), -1), "hub", hubNode, hubBy)
        <4>1. nodes[e] = NodeOf(e) /\ e # "hub"
          BY <2>1, Endpoints DEF NodeOf
        <4> QED BY <3>2, <4>1 DEF GraphNodeMove, GraphNodeUpdate, GraphNodeDelete
      <3>4. \A f \in Endpoint : NodeOf(f)' = IF f = e THEN NodeOf(e) + (-1) ELSE NodeOf(f)
        <4>1. NodeOf(e) - 1 = NodeOf(e) + (-1)
          BY <1>2 DEF NodeOf
        <4> QED BY <1>4, <2>1, <4>1
      <3> QED BY <1>1, <1>3, <3>3, <3>4, NodeMoves
    <2>2. CASE nodes[e] = None
      <3>1. gauge' = GraphNodeMove(gauge, "hub", hubNode, hubBy)
        BY <2>2 DEF DecreaseNodeGraphStats
      <3>2. \A f \in Endpoint : NodeOf(f)' = NodeOf(f)
        BY <1>4, <2>2
      <3>3. "hub" \in Id
        BY DEF Id
      <3>4. gauge' \subseteq Id \X Int /\ hubNode' \in Int
        BY <1>1, <1>2, <3>1, <3>3, MoveShows
      <3>5. ASSUME ~raced'
            PROVE  \A a \in gauge' : a[2] = Shown(a[1])'
        <4>1. \A a \in gauge : a[2] = Shown(a[1]) /\ a[1] \in Id
          BY <3>5 DEF Race, IInv, SeriesInv
        <4>2. \A a \in gauge' : IF a[1] = "hub" THEN a[2] = hubNode + hubBy ELSE a \in gauge
          <5>1. \A a \in gauge : a[1] = "hub" => a[2] = hubNode
            BY <4>1 DEF Shown
          <5> QED BY <1>2, <3>1, <3>3, <5>1, MoveShows
        <4> QED BY <1>1, <3>2, <4>1, <4>2 DEF Shown, Id
      <3> QED BY <3>4, <3>5 DEF SeriesInv
    <2> QED BY <2>1, <2>2
  <1>6. EdgeInv'
    <2>1. ~raced' => ~raced /\ fpc # "write"
      BY DEF Race, InMap
    <2>2. nodes[e] \notin {None, 1} => nodes[e] - 1 # None
      BY <1>2
    <2> QED BY <1>1, <1>2, <1>3, <2>1, <2>2 DEF IInv, EdgeInv
  <1> QED BY <1>3, <1>4, <1>5, <1>6 DEF Race

-----------------------------------------------------------------------------
(* The hub counts. *)

LEMMA OnAddTrackStep ==
  ASSUME IInv, NEW t \in Track, OnAddTrack(t)
  PROVE  IInv'
  <1>1. /\ t \in adds /\ adds' = adds \ {t} /\ tracks' = tracks \cup {t}
        /\ IncreaseNodeGraphStats("ingress", 1) /\ Race
        /\ hpc' = (IF InitComplete THEN "add" ELSE "idle") /\ htrack' = (IF InitComplete THEN t ELSE None)
        /\ UNCHANGED <<life, registry, tpc, removes, overtaken, senders, fetcher>>
    BY DEF OnAddTrack
  <1>2. /\ SeriesInv' /\ EdgeInv' /\ nodes' \in [Endpoint -> Int \cup {None}]
        /\ nodes'["egress"] = nodes["egress"]
        /\ NodeOf("ingress")' = NodeOf("ingress") + 1
        /\ raced' = (raced \/ InMap)
    BY <1>1, Endpoints, IncreaseKeeps
  <1>3. t \notin tracks /\ IsFiniteSet(tracks)
    BY <1>1 DEF IInv, TrackInv
  <1>4. TrackInv'
    <2>1. IsFiniteSet(tracks')
      BY <1>1, <1>3, FS_AddElement
    <2>2. tpc[t] \notin {"none", "dispatch", "early"}
      BY <1>1 DEF IInv, TrackInv
    <2> QED BY <1>1, <2>1, <2>2 DEF IInv, TrackInv
  <1>5. CountInv'
    <2>1. Cardinality(tracks') = Cardinality(tracks) + 1
      BY <1>1, <1>3, FS_AddElement
    <2>2. hubNode' = hubNode + 1
      BY <1>1 DEF IncreaseNodeGraphStats
    <2>3. ASSUME ~raced', ~overtaken'
          PROVE  hubNode = Cardinality(tracks) /\ NodeOf("ingress") = Cardinality(tracks)
      BY <1>1, <1>2, <2>3 DEF IInv, CountInv
    <2>4. ~raced' /\ ~overtaken' =>
            hubNode' = Cardinality(tracks') /\ NodeOf("ingress")' = Cardinality(tracks')
      BY <1>2, <2>1, <2>2, <2>3
    <2>5. overtaken' \in BOOLEAN
      BY <1>1 DEF IInv, CountInv
    <2> QED BY <2>4, <2>5 DEF CountInv
  <1>6. FetchInv'
    <2>1. raced' \in BOOLEAN /\ (fpc = "write" => raced')
      BY <1>2 DEF InMap
    <2> QED BY <1>1, <1>2, <2>1 DEF IInv, FetchInv
  <1>7. HubInv'
    BY <1>1 DEF HubInv
  <1> QED BY <1>1, <1>2, <1>4, <1>5, <1>6, <1>7, LifeKept, WorkersKept DEF IInv

LEMMA OnRemoveTrackStep ==
  ASSUME IInv, NEW t \in Track, OnRemoveTrack(t)
  PROVE  IInv'
  <1>1. /\ removes' = removes \ {t} /\ tracks' = tracks \ {t}
        /\ overtaken' = (overtaken \/ t \notin tracks)
        /\ DecreaseNodeGraphStats("ingress", -1) /\ Race
        /\ hpc' = (IF InitComplete THEN "remove" ELSE "idle") /\ htrack' = (IF InitComplete THEN t ELSE None)
        /\ UNCHANGED <<life, registry, tpc, adds, senders, fetcher>>
    BY DEF OnRemoveTrack
  <1>2. /\ SeriesInv' /\ EdgeInv' /\ nodes' \in [Endpoint -> Int \cup {None}]
        /\ nodes'["egress"] = nodes["egress"]
        /\ NodeOf("ingress")' = IF nodes["ingress"] # None THEN NodeOf("ingress") - 1 ELSE NodeOf("ingress")
        /\ raced' = (raced \/ InMap)
    <2>1. -1 \in Int
      OBVIOUS
    <2> QED BY <1>1, <2>1, Endpoints, DecreaseKeeps
  <1>3. IsFiniteSet(tracks)
    BY DEF IInv, TrackInv
  <1>4. TrackInv'
    <2>1. IsFiniteSet(tracks')
      BY <1>1, <1>3, FS_RemoveElement
    <2> QED BY <1>1, <2>1 DEF IInv, TrackInv
  <1>5. CountInv'
    <2>1. ASSUME ~raced', ~overtaken'
          PROVE  hubNode' = Cardinality(tracks') /\ NodeOf("ingress")' = Cardinality(tracks')
      <3>1. t \in tracks
        BY <1>1, <2>1
      <3>2. hubNode = Cardinality(tracks) /\ NodeOf("ingress") = Cardinality(tracks)
        BY <1>1, <1>2, <2>1 DEF IInv, CountInv
      <3>3. Cardinality(tracks') = Cardinality(tracks) - 1 /\ Cardinality(tracks) \in Nat
        BY <1>1, <1>3, <3>1, FS_RemoveElement, FS_CardinalityType
      <3>4. Cardinality(tracks) # 0
        BY <1>3, <3>1, FS_EmptySet
      <3>5. nodes["ingress"] # None
        BY <3>2, <3>4 DEF NodeOf
      <3>6. hubNode' = hubNode + (-1)
        BY <1>1 DEF DecreaseNodeGraphStats
      <3> QED BY <1>2, <3>2, <3>3, <3>5, <3>6
    <2>2. overtaken' \in BOOLEAN
      BY <1>1 DEF IInv, CountInv
    <2> QED BY <2>1, <2>2 DEF CountInv
  <1>6. FetchInv'
    <2>1. raced' \in BOOLEAN /\ (fpc = "write" => raced')
      BY <1>2 DEF InMap
    <2> QED BY <1>1, <1>2, <2>1 DEF IInv, FetchInv
  <1>7. HubInv'
    BY <1>1 DEF HubInv
  <1> QED BY <1>1, <1>2, <1>4, <1>5, <1>6, <1>7, LifeKept, WorkersKept DEF IInv

LEMMA HubCountsStep ==
  ASSUME IInv, HubCounts
  PROVE  IInv'
  <1>1. /\ DecreaseNodeGraphStats("egress", 0) /\ Race /\ hpc' = "idle" /\ htrack' = None
        /\ UNCHANGED <<life, registry, publisher, tracks, senders, fetcher>>
    BY DEF HubCounts, HubIdle
  <1>2. /\ SeriesInv' /\ EdgeInv' /\ nodes' \in [Endpoint -> Int \cup {None}]
        /\ nodes'["ingress"] = nodes["ingress"]
        /\ nodes["egress"] = None => nodes'["egress"] = None
        /\ raced' = (raced \/ InMap)
    BY <1>1, Endpoints, DecreaseKeeps
  <1>3. hubNode' = hubNode
    BY <1>1 DEF DecreaseNodeGraphStats, IInv, SeriesInv
  <1>4. CountInv'
    <2>1. overtaken' \in BOOLEAN /\ (~raced' => ~raced)
      BY <1>1, <1>2 DEF IInv, CountInv
    <2> QED BY <1>1, <1>2, <1>3, <2>1 DEF IInv, CountInv, NodeOf
  <1>5. FetchInv'
    <2>1. raced' \in BOOLEAN /\ (fpc = "write" => raced')
      BY <1>2 DEF InMap
    <2> QED BY <1>1, <1>2, <2>1 DEF IInv, FetchInv
  <1>6. HubInv'
    BY <1>1 DEF HubInv
  <1> QED BY <1>1, <1>2, <1>4, <1>5, <1>6, LifeKept, WorkersKept, TracksKept DEF IInv

-----------------------------------------------------------------------------
(* The fetching goroutine. *)

LEMMA GetTrackListStep ==
  ASSUME IInv, GetTrackList
  PROVE  IInv'
  <1>1. /\ fpc = "none" /\ built["egress"] = "ready" /\ list' \subseteq Track /\ fpc' = "read"
        /\ UNCHANGED <<life, registry, publisher, hpc, htrack, tracks, senders, inc, graph, raced>>
    BY DEF GetTrackList, IInv, TrackInv
  <1>2. FetchInv'
    BY <1>1 DEF IInv, FetchInv
  <1>3. EdgeInv'
    BY <1>1, EdgesKept DEF IInv
  <1> QED BY <1>1, <1>2, <1>3, LifeKept, WorkersKept, HubKept, TracksKept, SeriesKept, CountsKept DEF IInv

\* The number is read ...
LEMMA CountReadStep ==
  ASSUME IInv, NEW t \in Track, CountRead(t)
  PROVE  IInv'
  <1>1. /\ fpc = "read" /\ fpc' = "write"
        /\ inc' = [inc EXCEPT !.track = t, !.node = NodeOf("egress")]
        /\ edges' = (IF nodes["egress"] = None THEN edges \cup {"egress"} ELSE edges)
        /\ UNCHANGED <<life, registry, publisher, hpc, htrack, tracks, senders, list, nodes, hubNode, gauge, raced>>
    BY DEF CountRead
  <1>2. NodeOf("egress") \in Int
    BY Endpoints DEF IInv, FetchInv, NodeOf
  <1>3. /\ inc' \in [done : SUBSET Track, track : Track \cup {None}, node : Int]
        /\ inc'.track = t /\ inc'.node = NodeOf("egress") /\ NodeOf("egress")' = NodeOf("egress")
    BY <1>1, <1>2 DEF IInv, FetchInv, NodeOf
  <1>4. FetchInv'
    BY <1>1, <1>3 DEF IInv, FetchInv
  <1>5. EdgeInv'
    BY <1>1, Endpoints DEF IInv, EdgeInv
  <1> QED BY <1>1, <1>4, <1>5, LifeKept, WorkersKept, HubKept, TracksKept, SeriesKept, CountsKept DEF IInv

\* ... and written back, if nobody else was there the next number.
LEMMA CountWriteStep ==
  ASSUME IInv, CountWrite
  PROVE  IInv'
  <1>1. /\ fpc = "write" /\ fpc' = "read"
        /\ nodes' = [nodes EXCEPT !["egress"] = inc.node + 1]
        /\ gauge' = GraphNodeMove(gauge, "egress", inc.node, 1)
        /\ inc' = [done |-> inc.done \cup {inc.track}, track |-> None, node |-> 0]
        /\ UNCHANGED <<life, registry, publisher, hpc, htrack, tracks, senders, list, hubNode, edges, raced>>
    BY DEF CountWrite
  <1>2. inc.node \in Int /\ inc.node + 1 \in Int /\ inc.node + 1 # None
    BY DEF IInv, FetchInv
  <1>3. /\ nodes' \in [Endpoint -> Int \cup {None}]
        /\ nodes'["egress"] = inc.node + 1 /\ nodes'["ingress"] = nodes["ingress"]
    BY <1>1, <1>2, Endpoints DEF IInv, FetchInv
  <1>4. inc.track \in Track
    BY <1>1 DEF IInv, FetchInv
  <1>5. FetchInv'
    <2>1. inc' \in [done : SUBSET Track, track : Track \cup {None}, node : Int]
      BY <1>1, <1>4 DEF IInv, FetchInv
    <2> QED BY <1>1, <1>3, <2>1 DEF IInv, FetchInv
  <1>6. SeriesInv'
    <2>1. hubNode \in Int /\ gauge \subseteq Id \X Int /\ "egress" \in Id
      BY Endpoints DEF IInv, SeriesInv, Id
    <2>2. gauge' \subseteq Id \X Int
      BY <1>1, <1>2, <2>1, MoveShows
    <2>3. ASSUME ~raced'
          PROVE  \A a \in gauge' : a[2] = Shown(a[1])'
      <3>1. ~raced /\ inc.node = NodeOf("egress")
        BY <1>1, <2>3 DEF IInv, FetchInv
      <3>2. \A a \in gauge : a[2] = Shown(a[1]) /\ a[1] \in Id
        BY <2>1, <3>1 DEF IInv, SeriesInv
      <3>3. \A a \in gauge' : IF a[1] = "egress" THEN a[2] = inc.node + 1 ELSE a \in gauge
        <4>1. \A a \in gauge : a[1] = "egress" => a[2] = inc.node
          BY <3>1, <3>2 DEF Shown
        <4> QED BY <1>1, <1>2, <2>1, <4>1, MoveShows
      <3>4. NodeOf("egress")' = inc.node + 1 /\ NodeOf("ingress")' = NodeOf("ingress")
        BY <1>2, <1>3 DEF NodeOf
      <3> QED BY <1>1, <3>2, <3>3, <3>4 DEF Shown, Id, Endpoint
    <2> QED BY <1>1, <2>1, <2>2, <2>3 DEF SeriesInv
  <1>7. EdgeInv'
    BY <1>1, <1>2, <1>3, Endpoints DEF IInv, EdgeInv, Endpoint
  <1>8. CountInv'
    BY <1>1, <1>3, CountsKept DEF IInv
  <1> QED BY <1>1, <1>5, <1>6, <1>7, <1>8, LifeKept, WorkersKept, HubKept, TracksKept DEF IInv

LEMMA FetchAddTrackStep ==
  ASSUME IInv, NEW t \in Track, FetchAddTrack(t)
  PROVE  IInv'
  <1>1. /\ fpc \in {"read", "push"} /\ AddTrack(t, "fetch") /\ list' = list \ {t} /\ fpc' = "push"
        /\ UNCHANGED <<life, publisher, hpc, htrack, tracks, inc, graph, raced>>
    BY DEF FetchAddTrack
  <1>2. WorkerInv'
    BY <1>1, AddTrackKeeps
  <1>3. FetchInv'
    BY <1>1 DEF IInv, FetchInv
  <1>4. EdgeInv'
    BY <1>1, EdgesKept DEF IInv
  <1> QED BY <1>1, <1>2, <1>3, <1>4, LifeKept, HubKept, TracksKept, SeriesKept, CountsKept DEF IInv

-----------------------------------------------------------------------------
(* The life of the endpoints. *)

LEMMA NewEndpointStep ==
  ASSUME IInv, NewEndpoint
  PROVE  IInv'
  <1>1. /\ built["egress"] = "no" /\ built' = [built EXCEPT !["egress"] = "new"]
        /\ gauge' = gauge \cup {<<"egress", 0>>}
        /\ UNCHANGED <<up, open, ended, registry, publisher, hpc, htrack, tracks, senders, fetcher,
                       nodes, hubNode, edges, raced>>
    BY DEF NewEndpoint, GraphNodeUpdate
  <1>2. LifeInv' /\ FetchInv'
    BY <1>1, Endpoints, FetchKept DEF IInv, LifeInv
  <1>3. SeriesInv'
    <2>1. nodes["egress"] = None /\ NodeOf("egress") = 0
      BY <1>1 DEF IInv, FetchInv, NodeOf
    <2>2. <<"egress", 0>> \in Id \X Int
      BY Endpoints DEF Id
    <2>3. \A id : Shown(id)' = Shown(id)
      BY <1>1 DEF Shown, NodeOf
    <2>4. Shown("egress") = 0
      BY <2>1 DEF Shown
    <2> QED BY <1>1, <2>2, <2>3, <2>4 DEF IInv, SeriesInv
  <1> QED BY <1>1, <1>2, <1>3, WorkersKept, HubKept, TracksKept, EdgesKept, CountsKept DEF IInv

LEMMA EstablishStep ==
  ASSUME IInv, NewPeerConnection \/ SetInitComplete
  PROVE  IInv'
  <1>1. PICK to \in {"connected", "ready"} :
          /\ built["egress"] # "ready" /\ built' = [built EXCEPT !["egress"] = to]
          /\ UNCHANGED <<up, open, ended, registry, publisher, hpc, htrack, tracks, senders,
                         fetcher, graph, raced>>
    BY DEF NewPeerConnection, SetInitComplete
  <1>2. LifeInv' /\ FetchInv'
    BY <1>1, Endpoints, FetchKept DEF IInv, LifeInv
  <1> QED BY <1>1, <1>2, WorkersKept, HubKept, TracksKept, SeriesKept, EdgesKept, CountsKept DEF IInv

LEMMA StopSessionStep ==
  ASSUME IInv, NEW e \in Endpoint, StopSession(e)
  PROVE  IInv'
  <1>1. /\ open' = open \ {e}
        /\ UNCHANGED <<up, built, ended, registry, publisher, hpc, htrack, tracks, senders,
                       fetcher, graph, raced>>
    BY DEF StopSession
  <1>2. LifeInv'
    BY <1>1 DEF IInv, LifeInv
  <1> QED BY <1>1, <1>2, WorkersKept, HubKept, TracksKept, GraphKept DEF IInv

\* The workers of an endpoint are stopped, and it counts as taken down.
LEMMA DestructStep ==
  ASSUME IInv, NEW e \in Endpoint, Destruct(e)
  PROVE  IInv'
  <1>1. /\ ended[e] = "no" /\ gauge' = GraphNodeDelete(gauge, e, 0)
        /\ ended' = [ended EXCEPT ![e] = IF built[e] = "new" THEN "left" ELSE "stopped"]
        /\ UNCHANGED <<up, open, built, publisher, hpc, htrack, tracks, senders, fetcher, nodes,
                       hubNode, edges, raced>>
    BY DEF Destruct
  <1>2. LifeInv' /\ (\A f \in Endpoint : f # e => ended'[f] = ended[f]) /\ ended'[e] # "no"
    BY <1>1 DEF IInv, LifeInv
  <1>3. locked' = locked /\ (registered' = registered \/ registered' = [registered EXCEPT ![e] = @ \ registered[e]])
    BY DEF Destruct, StopAllWorker, StopWorker
  <1>4. WorkerInv'
    <2>1. registered' \in [Endpoint -> SUBSET Source]
      BY <1>3 DEF IInv, WorkerInv
    <2>2. registered'["egress"] \subseteq registered["egress"] /\ (e # "egress" => registered'["egress"] = registered["egress"])
      BY <1>3, Endpoints DEF IInv, WorkerInv
    <2> QED BY <1>1, <1>2, <1>3, <2>1, <2>2, Endpoints DEF IInv, WorkerInv
  <1>5. SeriesInv'
    BY <1>1, SeriesKept DEF IInv, GraphNodeDelete
  <1> QED BY <1>1, <1>2, <1>4, <1>5, HubKept, TracksKept, FetchKept, EdgesKept, CountsKept DEF IInv

LEMMA ClosePeerConnectionStep ==
  ASSUME IInv, NEW e \in Endpoint, ClosePeerConnection(e)
  PROVE  IInv'
  <1>1. /\ ended[e] = "stopped" /\ ended' = [ended EXCEPT ![e] = "closed"]
        /\ UNCHANGED <<up, open, built, registry, publisher, hpc, htrack, tracks, senders,
                       fetcher, graph, raced>>
    BY DEF ClosePeerConnection
  <1>2. LifeInv' /\ (ended'["egress"] = "no" => ended["egress"] = "no")
    BY <1>1, Endpoints DEF IInv, LifeInv
  <1> QED BY <1>1, <1>2, WorkersKept, HubKept, TracksKept, GraphKept DEF IInv

-----------------------------------------------------------------------------
(* The invariant and the theorems. *)

LEMMA InitInv == Init => IInv
  <1> SUFFICES ASSUME Init PROVE IInv
    OBVIOUS
  <1>1. LifeInv /\ HubInv
    BY DEF Init, LifeInv, HubInv
  <1>2. WorkerInv
    BY Endpoints DEF Init, WorkerInv
  <1>3. TrackInv
    BY FS_EmptySet DEF Init, TrackInv
  <1>4. \A e \in Endpoint : nodes[e] = None /\ NodeOf(e) = 0
    BY DEF Init, NodeOf
  <1>5. FetchInv
    <2>1. raced \in BOOLEAN
      BY DEF Init
    <2> QED BY <1>4, <2>1, Endpoints DEF Init, FetchInv
  <1>6. SeriesInv
    <2>1. <<"hub", 0>> \in Id \X Int /\ <<"ingress", 0>> \in Id \X Int
      BY Endpoints DEF Id
    <2>2. Shown("hub") = 0 /\ Shown("ingress") = 0
      BY <1>4, Endpoints DEF Init, Shown
    <2> QED BY <2>1, <2>2 DEF Init, SeriesInv
  <1>7. EdgeInv
    BY <1>4 DEF Init, EdgeInv
  <1>8. CountInv
    <2>1. overtaken \in BOOLEAN
      BY DEF Init
    <2> QED BY <1>4, <2>1, Endpoints, FS_EmptySet DEF Init, CountInv
  <1> QED BY <1>1, <1>2, <1>3, <1>5, <1>6, <1>7, <1>8 DEF IInv

LEMMA NextInv == IInv /\ [Next]_vars => IInv'
  <1> SUFFICES ASSUME IInv, [Next]_vars PROVE IInv'
    OBVIOUS
  <1>1. CASE ConcurrentMapFault \/ UNCHANGED vars
    <2>1. UNCHANGED <<open, built, ended, registry, publisher, hpc, htrack, tracks, senders, fetcher, graph, raced>>
      BY <1>1 DEF ConcurrentMapFault, vars
    <2> QED BY <2>1, LifeKept, WorkersKept, HubKept, TracksKept, GraphKept DEF IInv
  <1>2. CASE HubStep
    BY <1>2, HubAddTrackStep, RemoveTrackStep, HubCountsStep DEF HubStep
  <1>3. CASE GetTrackList \/ CountWrite
    BY <1>3, GetTrackListStep, CountWriteStep
  <1>4. CASE NewEndpoint \/ NewPeerConnection \/ SetInitComplete
    BY <1>4, NewEndpointStep, EstablishStep
  <1>5. ASSUME NEW t \in Track,
               \/ DispatchAddTrack(t) \/ DispatchRemoveTrack(t)
               \/ OnAddTrack(t) \/ OnRemoveTrack(t) \/ CountRead(t) \/ FetchAddTrack(t)
               \/ \E x \in Ssrc[t] : OnTrack(t, x)
        PROVE  IInv'
    BY <1>5, DispatchStep, OnAddTrackStep, OnRemoveTrackStep, CountReadStep, FetchAddTrackStep, OnTrackStep
  <1>6. ASSUME NEW e \in Endpoint, StopSession(e) \/ Destruct(e) \/ ClosePeerConnection(e)
        PROVE  IInv'
    BY <1>6, StopSessionStep, DestructStep, ClosePeerConnectionStep
  <1> QED BY <1>1, <1>2, <1>3, <1>4, <1>5, <1>6 DEF Next

\* The invariant is inductive.
THEOREM Inductive == Spec => []IInv
  BY InitInv, NextInv, PTL DEF Spec

\* Unless the fetching goroutine of getTrackList met the hub in the map, a node has one
\* series, with its own number of tracks; and unless a removal overtook its addition, hub
\* and publisher are shown with the tracks the hub has, and edges for all their nodes.
THEOREM GraphCorrect == Spec => []GraphOK
  <1>1. IInv => GraphOK
    <2> SUFFICES ASSUME IInv PROVE GraphOK
      OBVIOUS
    <2>1. TypeOK
      BY DEF IInv, LifeInv, WorkerInv, HubInv, TrackInv, FetchInv, SeriesInv, EdgeInv, TypeOK
    <2>2. OneSeriesPerNode
      <3>1. ASSUME ~raced, NEW a \in gauge, NEW b \in gauge, a[1] = b[1]
            PROVE  a = b
        <4>1. a[2] = b[2]
          BY <3>1 DEF IInv, SeriesInv
        <4>2. a \in Id \X Int /\ b \in Id \X Int
          BY DEF IInv, SeriesInv
        <4> QED BY <3>1, <4>1, <4>2
      <3> QED BY <3>1 DEF OneSeriesPerNode
    <2>3. GraphCountsTracks
      BY DEF IInv, EdgeInv, CountInv, GraphCountsTracks
    <2> QED BY <2>1, <2>2, <2>3 DEF GraphOK
  <1> QED BY <1>1, Inductive, PTL

\* Until Destruct stops them all, the registry of an egress endpoint has workers for
\* exactly the tracks its connection sends, although the hub and the fetching goroutine
\* both add tracks and StartWorker and StopWorker are told by source, not by track.
THEOREM WorkersCorrect == Spec => []WorkersMatchSenders
  <1>1. IInv => WorkersMatchSenders
    <2> SUFFICES ASSUME IInv, ended["egress"] = "no"
                 PROVE  {x[1] : x \in registered["egress"]} = senders
      BY DEF WorkersMatchSenders
    <2>1. /\ registered["egress"] \subseteq Track \X {"hub", "fetch"} /\ senders \subseteq Track
          /\ \A t \in Track : t \in senders <=> \E who \in {"hub", "fetch"} : <<t, who>> \in registered["egress"]
      BY DEF IInv, WorkerInv
    <2>2. ASSUME NEW x \in registered["egress"]
          PROVE  x[1] \in senders
      <3>1. x \in Track \X {"hub", "fetch"}
        BY <2>1
      <3>2. x[1] \in Track /\ x[2] \in {"hub", "fetch"} /\ x = <<x[1], x[2]>>
        BY <3>1
      <3> QED BY <2>1, <3>2
    <2>3. ASSUME NEW t \in senders
          PROVE  \E x \in registered["egress"] : t = x[1]
      <3>1. PICK who \in {"hub", "fetch"} : <<t, who>> \in registered["egress"]
        BY <2>1
      <3>2. <<t, who>>[1] = t
        OBVIOUS
      <3> QED BY <3>1, <3>2
    <2> QED BY <2>2, <2>3
  <1> QED BY <1>1, Inductive, PTL
=============================================================================
