---------------------------- MODULE MinCostFlow ----------------------------
(***************************************************************************)
(* The assignment solver (matching_engine/src/mcmf.cpp, assignment.cpp):   *)
(* successive shortest paths, by a queue-based Bellman-Ford (SPFA) or by   *)
(* Dijkstra over costs reduced with Johnson potentials.                    *)
(*                                                                         *)
(* Every capacity of an assignment is 1, so the residual graph is a set of *)
(* arcs: an arc is replaced by its reverse when it carries flow.  One step *)
(* takes one node off the queue or heap; which of several queued nodes,    *)
(* or of several cheapest ones, is left open.                              *)
(***************************************************************************)
EXTENDS Integers, Sequences, FiniteSets, FiniteSetsExt

CONSTANTS
  MaxRiders, MaxDrivers   \* the server's limits on a batch (Options)

ASSUME MinCostFlowAssumption == MaxRiders \in Nat \ {0} /\ MaxDrivers \in Nat \ {0}

\* Node layout: source, riders, drivers, sink.
Source == 0
RiderNode(i) == i
DriverNode(j) == MaxRiders + j
Sink == MaxRiders + MaxDrivers + 1
Nodes == Source..Sink

VARIABLES
  price,    \* cost of every forward arc; its domain is the graph
  arcs,     \* arcs with residual capacity
  engine,   \* ShortestPathEngine
  mode,     \* seeding potentials, searching, done
  dist,     \* cost of the nodes reached so far
  prev,     \* the node each was reached from (prevEdge)
  queue,    \* nodes in the queue or heap
  settled,  \* nodes Dijkstra has popped
  pot,      \* potentials
  flow, cost

solverVars == <<price, arcs, engine, mode, dist, prev, queue, settled, pot, flow, cost>>

NoPotential == [v \in Nodes |-> 0]

SolverInit ==
  /\ price = <<>> /\ arcs = {} /\ engine = "spfa" /\ mode = "off"
  /\ dist = <<>> /\ prev = <<>> /\ queue = {} /\ settled = {}
  /\ pot = NoPotential /\ flow = 0 /\ cost = 0

\* The network is gone when its solver is.
Stop ==
  /\ price' = <<>> /\ arcs' = {} /\ engine' = "spfa" /\ mode' = "off"
  /\ dist' = <<>> /\ prev' = <<>> /\ queue' = {} /\ settled' = {}
  /\ pot' = NoPotential /\ flow' = 0 /\ cost' = 0

\* addEdge: the reverse arc refunds the cost.
Cost(u, v) == IF <<u, v>> \in DOMAIN price THEN price[<<u, v>>] ELSE -price[<<v, u>>]

\* Reduced costs with the potentials exchanged.
WeightSwapped(u, v) ==
  IF mode = "search" /\ engine = "dijkstra" THEN Cost(u, v) + pot[v] - pot[u] ELSE Cost(u, v)

\* What an arc adds to a path: its cost, for Dijkstra its reduced cost.
Weight(u, v) ==
  IF mode = "search" /\ engine = "dijkstra" THEN Cost(u, v) + pot[u] - pot[v] ELSE Cost(u, v)

Improves(u, v) == v \notin DOMAIN dist \/ dist[u] + Weight(u, v) < dist[v]

\* The arcs out of u that make a path cheaper.
Better(u) == {v \in Nodes : <<u, v>> \in arcs /\ Improves(u, v)}

Relax(u) ==
  /\ dist' = [v \in DOMAIN dist \cup Better(u) |->
                IF v \in Better(u) THEN dist[u] + Weight(u, v) ELSE dist[v]]
  /\ prev' = [v \in DOMAIN prev \cup Better(u) |-> IF v \in Better(u) THEN u ELSE prev[v]]

BeginSearch ==
  /\ dist' = [v \in {Source} |-> 0] /\ prev' = <<>>
  /\ queue' = {Source} /\ settled' = {}

\* solve: Dijkstra first needs potentials.
Start(graph, eng) ==
  /\ price' = graph /\ arcs' = DOMAIN graph /\ engine' = eng
  /\ mode' = IF eng = "dijkstra" THEN "seed" ELSE "search"
  /\ pot' = NoPotential /\ flow' = 0 /\ cost' = 0
  /\ BeginSearch

\* bellmanFord, one pass of its loop.
BellmanFordPop(u) ==
  /\ mode = "seed" \/ (mode = "search" /\ engine = "spfa")
  /\ u \in queue
  /\ Relax(u)
  /\ queue' = (queue \ {u}) \cup Better(u)
  /\ UNCHANGED <<price, arcs, engine, mode, settled, pot, flow, cost>>

\* The potentials are the distances; a node that cannot be reached has 0.
Seed ==
  /\ mode = "seed" /\ queue = {}
  /\ pot' = [v \in Nodes |-> IF v \in DOMAIN dist THEN dist[v] ELSE 0]
  /\ mode' = "search"
  /\ BeginSearch
  /\ UNCHANGED <<price, arcs, engine, flow, cost>>

\* Dijkstra's loop; entries of settled nodes are skipped.
DijkstraPop(u) ==
  /\ mode = "search" /\ engine = "dijkstra"
  /\ u \in queue /\ \A v \in queue : dist[u] <= dist[v]
  /\ settled' = settled \cup {u}
  /\ Relax(u)
  /\ queue' = (queue \cup Better(u)) \ settled'
  /\ UNCHANGED <<price, arcs, engine, mode, pot, flow, cost>>

\* The arcs of the path to the sink, walked backwards along prev.
Path ==
  LET back[n \in 0..Cardinality(Nodes)] ==
        IF n = 0 THEN Sink
        ELSE LET v == back[n - 1] IN IF v = Source THEN Source ELSE prev[v]
  IN {<<prev[v], v>> : v \in {back[n] : n \in 0..Cardinality(Nodes)} \ {Source}}

\* Augmentation that takes capacity and gives none back.
AugmentedForward(path) == arcs \ path

\* Capacity moves from the arcs of the path to their reverses.
Augmented(path) == (arcs \ path) \cup {<<a[2], a[1]>> : a \in path}

\* Potentials roll forward by the distances of the nodes that were reached.
Rolled == [v \in Nodes |-> IF v \in DOMAIN dist THEN pot[v] + dist[v] ELSE pot[v]]

\* A path was found: one more unit of flow.
Augment ==
  /\ mode = "search" /\ queue = {} /\ Sink \in DOMAIN dist
  /\ arcs' = Augmented(Path)
  /\ flow' = flow + 1
  /\ \/ engine = "spfa" /\ cost' = cost + dist[Sink] /\ UNCHANGED pot
     \/ engine = "dijkstra" /\ pot' = Rolled /\ cost' = cost + Rolled[Sink]
  /\ BeginSearch
  /\ UNCHANGED <<price, engine, mode>>

\* No residual path: the flow is maximal.
NoPath ==
  /\ mode = "search" /\ queue = {} /\ Sink \notin DOMAIN dist
  /\ mode' = "done"
  /\ UNCHANGED <<price, arcs, engine, dist, prev, queue, settled, pot, flow, cost>>

SolverStep ==
  \/ \E u \in Nodes : BellmanFordPop(u) \/ DijkstraPop(u)
  \/ Seed \/ Augment \/ NoPath

\* getFlow reading the forward arc.
HasCapacity(u, v) == <<u, v>> \in arcs

\* getFlow: the capacity of the reverse arc.
HasFlow(u, v) == <<v, u>> \in arcs

SolverTypeOK ==
  /\ DOMAIN price \subseteq Nodes \X Nodes /\ \A a \in DOMAIN price : price[a] \in Int
  /\ \A a \in DOMAIN price : Cardinality({a, <<a[2], a[1]>>} \cap arcs) = 1
  /\ arcs \subseteq DOMAIN price \cup {<<a[2], a[1]>> : a \in DOMAIN price}
  /\ engine \in {"spfa", "dijkstra"} /\ mode \in {"off", "seed", "search", "done"}
  /\ DOMAIN dist \subseteq Nodes /\ DOMAIN prev \subseteq DOMAIN dist
  /\ queue \subseteq DOMAIN dist /\ settled \subseteq DOMAIN dist
  /\ pot \in [Nodes -> Int] /\ flow \in Nat /\ cost \in Int

\* SettledIsFinal: no arc between two nodes Dijkstra has popped, or from a popped
\* node to a queued one, leads to a cheaper path than the one found.  This is what
\* the potentials are for: the residual graph has negative arcs, and a reduced
\* cost below zero would have Dijkstra leave a node too early.
SettledIsFinal ==
  (mode = "search" /\ engine = "dijkstra") =>
    \A u \in settled, v \in Nodes :
      <<u, v>> \in arcs => v \in DOMAIN dist /\ dist[v] <= dist[u] + Weight(u, v)
                           /\ (v \in settled \/ dist[u] <= dist[v])
=============================================================================
