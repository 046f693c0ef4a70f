----------------------------- MODULE Telemetry -----------------------------
(***************************************************************************)
(* What a lobby reports about itself and how it is taken down: the registry *)
(* of statistics workers every endpoint has, its destruction when the       *)
(* session ends, and the node graph (one gauge series per hub and endpoint, *)
(* labelled with its number of tracks, one per edge) that the hub keeps up  *)
(* to date.  The ingress endpoint belongs to a publisher, the egress        *)
(* endpoint to another session that receives all of the publisher's tracks. *)
(* Tracks are guest tracks: a main track ends the process in a hub without  *)
(* a sender, as newLobby builds it.                                         *)
(***************************************************************************)
EXTENDS Integers, FiniteSets

CONSTANTS
  Track,  \* tracks of the publisher
  Ssrc,   \* Ssrc[t]: the synchronisation sources the client may send t with
  None    \* no track, no node

ASSUME TelemetryAssumption == None \notin Track /\ None \notin Int

VARIABLES
  up,          \* the process runs
  open,        \* endpoints whose session context is not done
  built,       \* how far EstablishEndpoint came
  ended,       \* how far Destruct came
  locked,      \* endpoints whose registry is locked for good
  registered,  \* Registry.statsList: the sources of each endpoint, whose workers run
  tpc,         \* where the publisher's tracks stand
  adds, removes, \* dispatches of tracks that wait for the hub
  hpc, htrack, \* where the hub goroutine stands
  tracks,      \* Hub.tracks
  senders,     \* tracks the egress connection sends
  fpc, list, inc, \* the fetching goroutine, its track list, the node it read
  nodes,       \* Hub.metricNodes: the number of tracks of an endpoint
  hubNode,     \* Hub.hubMetricNode: the number of tracks of the hub
  gauge, edges, \* the series of the node graph
  doubled, raced, overtaken \* history, see the actions that set them

registry == <<locked, registered, doubled>>
graph    == <<nodes, hubNode, gauge, edges>>
publisher == <<tpc, adds, removes, overtaken>>
fetcher  == <<fpc, list, inc>>
life     == <<up, open, built, ended>>
vars == <<life, registry, publisher, hpc, htrack, tracks, senders, fetcher, graph, raced>>

Endpoint == {"ingress", "egress"}

\* The source a sender of the egress connection gets is drawn at random.
Source == (UNION {Ssrc[t] : t \in Track}) \cup (Track \X {"hub", "fetch"})

-----------------------------------------------------------------------------
(* stats.Registry.  The lock is held for a moment, except once. *)

\* StartWorker returns with the lock when the source is registered already.
StartWorker(e, x) ==
  /\ e \notin locked
  /\ IF x \in registered[e]
       THEN /\ locked' = locked \cup {e}
            /\ doubled' = doubled \cup {e}
            /\ UNCHANGED registered
       ELSE /\ registered' = [registered EXCEPT ![e] = @ \cup {x}]
            /\ UNCHANGED <<locked, doubled>>

\* Faulty variant: the lock is kept.
StopWorkerLocked(e, xs) ==
  /\ e \notin locked
  /\ registered' = [registered EXCEPT ![e] = @ \ xs]
  /\ locked' = locked \cup {e}
  /\ UNCHANGED doubled

StopWorker(e, xs) ==
  /\ e \notin locked
  /\ registered' = [registered EXCEPT ![e] = @ \ xs]
  /\ UNCHANGED <<locked, doubled>>

StopAllWorker(e) == StopWorker(e, registered[e])

-----------------------------------------------------------------------------
(* metric.NodeGraphMetric: a gauge has one series per set of labels. *)

GraphNodeUpdate(g, id, n) == g \cup {<<id, n>>}
GraphNodeDelete(g, id, n) == g \ {<<id, n>>}

\* GraphNodeUpdateInc and GraphNodeUpdateDec.
GraphNodeMove(g, id, n, by) == GraphNodeUpdate(GraphNodeDelete(g, id, n), id, n + by)

NodeOf(e) == IF nodes[e] = None THEN 0 ELSE nodes[e]

\* increaseNodeGraphStats; BuildNode starts at 0.  The hub's own node is
\* updated in the same step when there is one to update.
IncreaseNodeGraphStats(e, hubBy) ==
  /\ nodes' = [nodes EXCEPT ![e] = NodeOf(e) + 1]
  /\ edges' = edges \cup {e}
  /\ hubNode' = hubNode + hubBy
  /\ gauge' = GraphNodeMove(GraphNodeMove(gauge, e, NodeOf(e), 1), "hub", hubNode, hubBy)

\* Faulty variant: the edge of a node without tracks stays.
DecreaseKeepsEdge(e, hubBy) ==
  /\ nodes' = [nodes EXCEPT ![e] = IF @ \in {None, 1} THEN None ELSE @ - 1]
  /\ edges' = edges
  /\ hubNode' = hubNode + hubBy
  /\ LET g == GraphNodeMove(gauge, "hub", hubNode, hubBy)
     IN  gauge' = IF nodes[e] = None THEN g ELSE GraphNodeMove(g, e, nodes[e], -1)

\* decreaseNodeGraphStats: a node without tracks is forgotten, its series
\* stays with 0 tracks.
DecreaseNodeGraphStats(e, hubBy) ==
  /\ nodes' = [nodes EXCEPT ![e] = IF @ \in {None, 1} THEN None ELSE @ - 1]
  /\ edges' = IF nodes[e] = 1 THEN edges \ {e} ELSE edges
  /\ hubNode' = hubNode + hubBy
  /\ LET g == GraphNodeMove(gauge, "hub", hubNode, hubBy)
     IN  gauge' = IF nodes[e] = None THEN g ELSE GraphNodeMove(g, e, nodes[e], -1)

\* The fetching goroutine uses the hub's map without a lock.
InMap == fpc = "write"
Race == raced' = (raced \/ InMap)

\* The runtime notices the concurrent use of the map and ends the process.
ConcurrentMapFault ==
  /\ up
  /\ InMap
  /\ hpc = "count" \/ (hpc = "idle" /\ adds \cup removes # {})
  /\ up' = FALSE
  /\ UNCHANGED <<open, built, ended, registry, publisher, hpc, htrack, tracks, senders,
                 fetcher, graph, raced>>

-----------------------------------------------------------------------------
(* The publisher: receiver.onTrack and the writer of each track. *)

\* receiver.onTrack up to the writer goroutine.
OnTrack(t, x) ==
  /\ up
  /\ tpc[t] = "none"
  /\ ended["ingress"] # "closed"
  /\ StartWorker("ingress", x)
  /\ tpc' = [tpc EXCEPT ![t] = "dispatch"]
  /\ UNCHANGED <<life, adds, removes, overtaken, hpc, htrack, tracks, senders, fetcher, graph, raced>>

\* DispatchAddTrack.
DispatchAddTrack(t) ==
  /\ up
  /\ tpc[t] \in {"dispatch", "early"}
  /\ adds' = adds \cup {t}
  /\ tpc' = [tpc EXCEPT ![t] = IF @ = "early" THEN "over" ELSE "live"]
  /\ UNCHANGED <<life, registry, removes, overtaken, hpc, htrack, tracks, senders,
                 fetcher, graph, raced>>

\* The writer ends, be it before the addition was dispatched.
DispatchRemoveTrack(t) ==
  /\ up
  /\ tpc[t] \in {"dispatch", "live"}
  /\ removes' = removes \cup {t}
  /\ tpc' = [tpc EXCEPT ![t] = IF @ = "dispatch" THEN "early" ELSE "over"]
  /\ UNCHANGED <<life, registry, adds, overtaken, hpc, htrack, tracks, senders,
                 fetcher, graph, raced>>

-----------------------------------------------------------------------------
(* The hub. *)

InitComplete == built["egress"] = "ready" /\ "egress" \in open

\* onAddTrack up to the sessions.
OnAddTrack(t) ==
  /\ up
  /\ hpc = "idle"
  /\ t \in adds
  /\ adds' = adds \ {t}
  /\ IncreaseNodeGraphStats("ingress", 1)
  /\ Race
  /\ tracks' = tracks \cup {t}
  /\ hpc' = IF InitComplete THEN "add" ELSE "idle"
  /\ htrack' = IF InitComplete THEN t ELSE None
  /\ UNCHANGED <<life, registry, tpc, removes, overtaken, senders, fetcher>>

\* onRemoveTrack up to the sessions.  "overtaken": the addition comes later.
OnRemoveTrack(t) ==
  /\ up
  /\ hpc = "idle"
  /\ t \in removes
  /\ removes' = removes \ {t}
  /\ overtaken' = (overtaken \/ t \notin tracks)
  /\ DecreaseNodeGraphStats("ingress", -1)
  /\ Race
  /\ tracks' = tracks \ {t}
  /\ hpc' = IF InitComplete THEN "remove" ELSE "idle"
  /\ htrack' = IF InitComplete THEN t ELSE None
  /\ UNCHANGED <<life, registry, tpc, adds, senders, fetcher>>

HubIdle == hpc' = "idle" /\ htrack' = None

\* Endpoint.AddTrack: a closed connection refuses the track.  Check and addition are
\* one step here; module Hub has them apart, and its SendersOK shows that hub and
\* fetching goroutine do not both add a track.
AddTrack(t, who) ==
  IF t \in senders \/ ended["egress"] = "closed"
    THEN UNCHANGED <<senders, registry>>
    ELSE senders' = senders \cup {t} /\ StartWorker("egress", <<t, who>>)

HubAddTrack ==
  /\ up
  /\ hpc = "add"
  /\ AddTrack(htrack, "hub")
  /\ HubIdle
  /\ UNCHANGED <<life, publisher, tracks, fetcher, graph, raced>>

\* Faulty variant: the worker of a track the snapshot brought is not stopped.
RemoveTrackOfHub ==
  /\ up
  /\ hpc = "remove"
  /\ IF htrack \in senders
       THEN StopWorker("egress", {<<htrack, "hub">>}) /\ senders' = senders \ {htrack}
       ELSE UNCHANGED <<senders, registry>>
  /\ hpc' = "count"
  /\ UNCHANGED <<life, publisher, htrack, tracks, fetcher, graph, raced>>

\* Endpoint.RemoveTrack.
RemoveTrack ==
  /\ up
  /\ hpc = "remove"
  /\ IF htrack \in senders
       THEN StopWorker("egress", {htrack} \X {"hub", "fetch"}) /\ senders' = senders \ {htrack}
       ELSE UNCHANGED <<senders, registry>>
  /\ hpc' = "count"
  /\ UNCHANGED <<life, publisher, htrack, tracks, fetcher, graph, raced>>

\* The rest of onRemoveTrack.
HubCounts ==
  /\ up
  /\ hpc = "count"
  /\ DecreaseNodeGraphStats("egress", 0)
  /\ Race
  /\ HubIdle
  /\ UNCHANGED <<life, registry, publisher, tracks, senders, fetcher>>

-----------------------------------------------------------------------------
(* The goroutine of setupOnNegotiationNeeded. *)

\* getTrackList: the hub answers with its tracks, or the request fails.
GetTrackList ==
  /\ up
  /\ fpc = "none"
  /\ built["egress"] = "ready"
  /\ \/ hpc = "idle" /\ list' = tracks
     \/ list' = {}
  /\ fpc' = "read"
  /\ UNCHANGED <<life, registry, publisher, hpc, htrack, tracks, senders, inc, graph, raced>>

\* increaseNodeGraphStats, reading the map and writing it back.
CountRead(t) ==
  /\ up
  /\ fpc = "read"
  /\ t \in list \ inc.done
  /\ inc' = [inc EXCEPT !.track = t, !.node = NodeOf("egress")]
  /\ fpc' = "write"
  /\ edges' = IF nodes["egress"] = None THEN edges \cup {"egress"} ELSE edges
  /\ UNCHANGED <<life, registry, publisher, hpc, htrack, tracks, senders, list, nodes,
                 hubNode, gauge, raced>>

CountWrite ==
  /\ up
  /\ fpc = "write"
  /\ nodes' = [nodes EXCEPT !["egress"] = inc.node + 1]
  /\ gauge' = GraphNodeMove(gauge, "egress", inc.node, 1)
  /\ inc' = [done |-> inc.done \cup {inc.track}, track |-> None, node |-> 0]
  /\ fpc' = "read"
  /\ UNCHANGED <<life, registry, publisher, hpc, htrack, tracks, senders, list, hubNode,
                 edges, raced>>

\* The list is complete; its tracks are added one by one.
FetchAddTrack(t) ==
  /\ up
  /\ fpc \in {"read", "push"}
  /\ inc.done = list \/ fpc = "push"
  /\ t \in list
  /\ AddTrack(t, "fetch")
  /\ list' = list \ {t}
  /\ fpc' = "push"
  /\ UNCHANGED <<life, publisher, hpc, htrack, tracks, inc, graph, raced>>

-----------------------------------------------------------------------------
(* The life of the endpoints. *)

\* EstablishEndpoint: the series and the endpoint with its destructor ...
NewEndpoint ==
  /\ up
  /\ built["egress"] = "no"
  /\ "egress" \in open
  /\ built' = [built EXCEPT !["egress"] = "new"]
  /\ gauge' = GraphNodeUpdate(gauge, "egress", 0)
  /\ UNCHANGED <<up, open, ended, registry, publisher, hpc, htrack, tracks, senders,
                 fetcher, nodes, hubNode, edges, raced>>

\* ... the registry and the peer connection ...
NewPeerConnection ==
  /\ up
  /\ built["egress"] = "new"
  /\ built' = [built EXCEPT !["egress"] = "connected"]
  /\ UNCHANGED <<up, open, ended, registry, publisher, hpc, htrack, tracks, senders,
                 fetcher, graph, raced>>

\* ... and SetInitComplete.
SetInitComplete ==
  /\ up
  /\ built["egress"] = "connected"
  /\ built' = [built EXCEPT !["egress"] = "ready"]
  /\ UNCHANGED <<up, open, ended, registry, publisher, hpc, htrack, tracks, senders,
                 fetcher, graph, raced>>

\* The session of an endpoint ends.
StopSession(e) ==
  /\ up
  /\ e \in open
  /\ open' = open \ {e}
  /\ UNCHANGED <<up, built, ended, registry, publisher, hpc, htrack, tracks, senders,
                 fetcher, graph, raced>>

\* Destruct up to the peer connection: the node is deleted with the labels
\* of a node without tracks.  An endpoint without connection is left alone.
Destruct(e) ==
  /\ up
  /\ e \notin open
  /\ ended[e] = "no"
  /\ built[e] # "no"
  /\ IF built[e] = "new" THEN UNCHANGED registry ELSE StopAllWorker(e)
  /\ gauge' = GraphNodeDelete(gauge, e, 0)
  /\ ended' = [ended EXCEPT ![e] = IF built[e] = "new" THEN "left" ELSE "stopped"]
  /\ UNCHANGED <<up, open, built, publisher, hpc, htrack, tracks, senders, fetcher, nodes,
                 hubNode, edges, raced>>

ClosePeerConnection(e) ==
  /\ up
  /\ ended[e] = "stopped"
  /\ ended' = [ended EXCEPT ![e] = "closed"]
  /\ UNCHANGED <<up, open, built, registry, publisher, hpc, htrack, tracks, senders,
                 fetcher, graph, raced>>

-----------------------------------------------------------------------------
Init ==
  /\ up = TRUE
  /\ open = Endpoint
  /\ built = [e \in Endpoint |-> IF e = "ingress" THEN "ready" ELSE "no"]
  /\ ended = [e \in Endpoint |-> "no"]
  /\ locked = {}
  /\ registered = [e \in Endpoint |-> {}]
  /\ tpc = [t \in Track |-> "none"]
  /\ adds = {} /\ removes = {}
  /\ hpc = "idle" /\ htrack = None
  /\ tracks = {}
  /\ senders = {}
  /\ fpc = "none" /\ list = {}
  /\ inc = [done |-> {}, track |-> None, node |-> 0]
  /\ nodes = [e \in Endpoint |-> None]
  /\ hubNode = 0
  /\ gauge = {<<"hub", 0>>, <<"ingress", 0>>}
  /\ edges = {}
  /\ doubled = {}
  /\ raced = FALSE /\ overtaken = FALSE

HubStep == HubAddTrack \/ RemoveTrack \/ HubCounts

Next ==
  \/ ConcurrentMapFault \/ HubStep \/ GetTrackList \/ CountWrite
  \/ NewEndpoint \/ NewPeerConnection \/ SetInitComplete
  \/ \E t \in Track :
       \/ DispatchAddTrack(t) \/ DispatchRemoveTrack(t)
       \/ OnAddTrack(t) \/ OnRemoveTrack(t) \/ CountRead(t) \/ FetchAddTrack(t)
       \/ \E x \in Ssrc[t] : OnTrack(t, x)
  \/ \E e \in Endpoint :
       StopSession(e) \/ Destruct(e) \/ ClosePeerConnection(e)

\* Goroutines that can run do run.
Spec ==
  /\ Init /\ [][Next]_vars
  /\ WF_vars(HubStep)
  /\ \A e \in Endpoint :
       WF_vars(Destruct(e)) /\ WF_vars(ClosePeerConnection(e))

-----------------------------------------------------------------------------
(* Properties. *)

\* Types; the hub goroutine holds a track exactly while it works on one.
TypeOK ==
  /\ open \subseteq Endpoint /\ locked \subseteq Endpoint
  /\ built \in [Endpoint -> {"no", "new", "connected", "ready"}]
  /\ ended \in [Endpoint -> {"no", "left", "stopped", "closed"}]
  /\ registered \in [Endpoint -> SUBSET Source]
  /\ hpc \in {"idle", "add", "remove", "count"}
  /\ htrack \in Track \cup {None} /\ (hpc = "idle" <=> htrack = None)
  /\ fpc \in {"none", "read", "write", "push"}
  /\ senders \subseteq Track /\ tracks \subseteq Track
  /\ nodes \in [Endpoint -> Int \cup {None}]
  /\ hubNode \in Int
  /\ edges \subseteq Endpoint

\* Whatever order endpoints come up, tracks are added and removed and nodes
\* are counted in, the gauge holds one series per node: nobody leaves a
\* series with old labels behind.  Only the unlocked use of the hub's map by
\* getTrackList can break it.
OneSeriesPerNode ==
  raced \/ \A a, b \in gauge : a[1] = b[1] => a = b

\* The graph shows the tracks the hub has: its node and that of the publisher
\* count them and an edge is drawn to every node with tracks, unless a removal
\* overtook the addition it belongs to (mediaStream starts the writer first).
GraphCountsTracks ==
  raced \/ overtaken \/
    /\ hubNode = Cardinality(tracks)
    /\ NodeOf("ingress") = Cardinality(tracks)
    /\ fpc # "write" => edges = {e \in Endpoint : nodes[e] # None}

\* The node graph is well formed: types, one series per node, and the true number of tracks.
GraphOK == TypeOK /\ OneSeriesPerNode /\ GraphCountsTracks

\* When the session of an endpoint ends, Destruct gets through the registry
\* and closes the peer connection, whatever the hub and the receiver are
\* doing with the endpoint; unless a source came twice, which locks the
\* registry for good, or there was no connection yet.
DestructCompletes ==
  \A e \in Endpoint :
    (built[e] # "no" /\ e \notin open)
      ~> (ended[e] \in {"closed", "left"} \/ e \in doubled \/ ~up)

\* Statistics are kept for exactly the tracks a living egress connection
\* sends, although the hub and the fetching goroutine both add tracks to it
\* and only the hub removes them.
WorkersMatchSenders ==
  ended["egress"] = "no" => {x[1] : x \in registered["egress"]} = senders
============================================================================
