-------------------------- MODULE MinCostFlowProofs --------------------------
(***************************************************************************)
(* Proofs about the assignment solver of MinCostFlow, for any number of    *)
(* riders and drivers and any costs: the searches, the paths they find,    *)
(* what an augmentation does to the assignment, and the potentials that    *)
(* make it a cheapest one.  MatchingServiceProofs draws the conclusions.   *)
(***************************************************************************)
EXTENDS MinCostFlow, FiniteSetTheorems, WellFoundedInduction, TLAPS

-----------------------------------------------------------------------------
(* The network *)

Opposite(a) == <<a[2], a[1]>>

RiderNodes == 1..MaxRiders
DriverNodes == (MaxRiders + 1)..(MaxRiders + MaxDrivers)

\* Source to riders, riders to drivers, drivers to sink: no arc has an opposite.
NetArcs ==
  ({Source} \X RiderNodes) \cup (RiderNodes \X DriverNodes) \cup (DriverNodes \X {Sink})

Network ==
  /\ DOMAIN price \subseteq NetArcs
  /\ \A a \in DOMAIN price : price[a] \in Nat
  /\ \A a \in DOMAIN price : a[1] = Source \/ a[2] = Sink => price[a] = 0
  /\ \A a \in DOMAIN price : a \in RiderNodes \X DriverNodes =>
       <<Source, a[1]>> \in DOMAIN price /\ <<a[2], Sink>> \in DOMAIN price

\* Every arc has its unit of capacity on one of its two directions.
Residual ==
  /\ arcs \subseteq DOMAIN price \cup {Opposite(a) : a \in DOMAIN price}
  /\ \A a \in DOMAIN price : a \in arcs <=> Opposite(a) \notin arcs

\* Where the nodes are.
LEMMA NodeRanges ==
  /\ Source \in Nodes /\ Sink \in Nodes /\ Source # Sink
  /\ RiderNodes \subseteq Nodes \ {Source, Sink} /\ DriverNodes \subseteq Nodes \ {Source, Sink}
  /\ RiderNodes \cap DriverNodes = {} /\ Nodes \subseteq Int
BY MinCostFlowAssumption DEF Nodes, Source, Sink, RiderNodes, DriverNodes

\* No arc of the network has its opposite in it, and none is a loop.
LEMMA OneWay ==
  ASSUME NEW a \in NetArcs
  PROVE  /\ a[1] \in Nodes /\ a[2] \in Nodes /\ a = <<a[1], a[2]>> /\ a[1] # a[2]
         /\ Opposite(a) \notin NetArcs /\ Opposite(Opposite(a)) = a
<1>1. a = <<a[1], a[2]>> /\ Opposite(Opposite(a)) = a
  BY DEF NetArcs, Opposite
<1>2. /\ a[1] \in Nodes /\ a[2] \in Nodes /\ a[1] # a[2]
      /\ <<a[2], a[1]>> \notin NetArcs
  BY NodeRanges DEF NetArcs
<1> QED
  BY <1>1, <1>2 DEF Opposite

\* Costs are whole numbers, and the two directions of an arc cancel out.
LEMMA CostType ==
  ASSUME Network, Residual, NEW u, NEW v, <<u, v>> \in arcs
  PROVE  /\ u \in Nodes /\ v \in Nodes /\ u # v
         /\ Cost(u, v) \in Int /\ Cost(v, u) = -Cost(u, v)
<1>1. CASE <<u, v>> \in DOMAIN price
  <2>1. <<u, v>> \in NetArcs
    BY <1>1 DEF Network
  <2>2. u \in Nodes /\ v \in Nodes /\ u # v /\ <<v, u>> \notin NetArcs
    BY <2>1, OneWay DEF Opposite
  <2>3. <<v, u>> \notin DOMAIN price
    BY <2>2 DEF Network
  <2> QED
    BY <1>1, <2>2, <2>3 DEF Network, Cost
<1>2. CASE <<u, v>> \notin DOMAIN price
  <2>1. PICK a \in DOMAIN price : <<u, v>> = Opposite(a)
    BY <1>2 DEF Residual
  <2>2. a \in NetArcs
    BY DEF Network
  <2>3. a = <<v, u>> /\ u \in Nodes /\ v \in Nodes /\ u # v
    BY <2>1, <2>2, OneWay DEF Opposite
  <2> QED
    BY <1>2, <2>3 DEF Network, Cost
<1> QED
  BY <1>1, <1>2

-----------------------------------------------------------------------------
(* A search *)

SearchTypes ==
  /\ DOMAIN dist \subseteq Nodes /\ \A v \in DOMAIN dist : dist[v] \in Int
  /\ queue \subseteq DOMAIN dist /\ settled \subseteq DOMAIN dist
  /\ DOMAIN prev \subseteq DOMAIN dist
  /\ pot \in [Nodes -> Int] /\ pot[Source] = 0 /\ flow \in Nat /\ cost \in Int
  /\ engine \in {"spfa", "dijkstra"} /\ mode \in {"off", "seed", "search", "done"}

\* Every node but the source was reached along a residual arc, and costs what
\* the arc adds, unless the node before it has become cheaper and is queued.
Tree ==
  /\ Source \in DOMAIN dist /\ dist[Source] = 0
  /\ DOMAIN prev = DOMAIN dist \ {Source}
  /\ \A v \in DOMAIN prev :
       /\ prev[v] \in DOMAIN dist /\ <<prev[v], v>> \in arcs
       /\ dist[v] >= dist[prev[v]] + Weight(prev[v], v)
       /\ prev[v] \notin queue => dist[v] = dist[prev[v]] + Weight(prev[v], v)

\* What is no longer queued has passed its cost on.
Scanned ==
  \A u \in DOMAIN dist \ queue, v \in Nodes :
    <<u, v>> \in arcs => v \in DOMAIN dist /\ dist[v] <= dist[u] + Weight(u, v)

\* Walking back along prev never goes in circles: every set of nodes is left.
Grounded == \A S \in SUBSET DOMAIN prev : S # {} => \E v \in S : prev[v] \notin S

\* With the potentials p no arc out of the nodes C is negative.  A search that
\* stays in C then has no negative cycle to run into.
Guide(C, p) ==
  /\ \A u, v \in Nodes :
       u \in C /\ <<u, v>> \in arcs => v \in C /\ Weight(u, v) + p[u] - p[v] >= 0
  /\ \A v \in DOMAIN dist : v \in C /\ dist[v] + p[Source] - p[v] >= 0

SearchInv == Tree /\ Scanned /\ Grounded

\* What an arc adds to a path is a whole number.
LEMMA WeightType ==
  ASSUME Network, Residual, SearchTypes, NEW u, NEW v, <<u, v>> \in arcs
  PROVE  /\ u \in Nodes /\ v \in Nodes /\ u # v
         /\ Weight(u, v) \in Int
         /\ mode = "search" /\ engine = "dijkstra" => Weight(u, v) = Cost(u, v) + pot[u] - pot[v]
         /\ ~(mode = "search" /\ engine = "dijkstra") => Weight(u, v) = Cost(u, v)
<1>1. u \in Nodes /\ v \in Nodes /\ u # v /\ Cost(u, v) \in Int
  BY CostType
<1>2. pot[u] \in Int /\ pot[v] \in Int
  BY <1>1 DEF SearchTypes
<1> QED
  BY <1>1, <1>2 DEF Weight

-----------------------------------------------------------------------------
(* One node taken off the queue *)

\* Taking u off the queue, whichever engine does it.
Pop(u) ==
  /\ u \in queue
  /\ Relax(u)
  /\ queue' = (queue \ {u}) \cup Better(u)
  /\ UNCHANGED <<price, arcs, engine, mode, pot, flow, cost>>

\* What relaxing the arcs of u does to costs.
LEMMA RelaxFacts ==
  ASSUME Network, Residual, SearchTypes, Tree, NEW C, NEW p \in [Nodes -> Int], Guide(C, p),
         NEW u \in queue, Relax(u)
  PROVE  /\ u \in DOMAIN dist /\ u \notin Better(u) /\ Source \notin Better(u)
         /\ Better(u) \subseteq Nodes \cap C
         /\ DOMAIN dist' = DOMAIN dist \cup Better(u)
         /\ DOMAIN prev' = DOMAIN prev \cup Better(u)
         /\ \A v \in Better(u) :
              /\ <<u, v>> \in arcs /\ prev'[v] = u /\ dist'[v] = dist[u] + Weight(u, v)
              /\ Weight(u, v) \in Int /\ dist'[v] + p[Source] - p[v] >= dist[u] + p[Source] - p[u]
              /\ v \in DOMAIN dist => dist'[v] < dist[v]
         /\ \A v \in DOMAIN dist \ Better(u) :
              /\ dist'[v] = dist[v]
              /\ v \in DOMAIN prev => prev'[v] = prev[v]
              /\ <<u, v>> \in arcs => dist[v] <= dist[u] + Weight(u, v)
<1>1. u \in DOMAIN dist /\ dist[u] \in Int /\ u \in Nodes /\ u \in C
  BY DEF SearchTypes, Guide
<1>2. u \notin Better(u)
  BY WeightType DEF Better
<1>3. /\ DOMAIN dist' = DOMAIN dist \cup Better(u)
      /\ DOMAIN prev' = DOMAIN prev \cup Better(u)
      /\ \A v \in Better(u) : prev'[v] = u /\ dist'[v] = dist[u] + Weight(u, v)
      /\ \A v \in DOMAIN dist \ Better(u) :
           dist'[v] = dist[v] /\ (v \in DOMAIN prev => prev'[v] = prev[v])
  BY DEF Relax
<1>4. ASSUME NEW v \in Better(u)
      PROVE  /\ v \in Nodes /\ v \in C /\ <<u, v>> \in arcs /\ Weight(u, v) \in Int
             /\ Weight(u, v) + p[u] - p[v] >= 0
             /\ v \in DOMAIN dist => dist[u] + Weight(u, v) < dist[v]
  BY <1>1, WeightType DEF Better, Improves, Guide
<1>5. ASSUME NEW v \in Better(u)
      PROVE  dist'[v] + p[Source] - p[v] >= dist[u] + p[Source] - p[u]
  <2>1. p[u] \in Int /\ p[v] \in Int /\ p[Source] \in Int
    BY <1>1, <1>4, NodeRanges
  <2>2. dist'[v] = dist[u] + Weight(u, v)
    BY <1>3
  <2>3. Weight(u, v) \in Int /\ Weight(u, v) + p[u] - p[v] >= 0
    BY <1>4
  <2> QED
    BY <1>1, <2>1, <2>2, <2>3
<1>6. Source \notin Better(u)
  <2> SUFFICES ASSUME Source \in Better(u) PROVE FALSE
    OBVIOUS
  <2>1. /\ dist[u] + Weight(u, Source) < 0 /\ Weight(u, Source) \in Int
        /\ Weight(u, Source) + p[u] - p[Source] >= 0
    BY <1>4 DEF Tree
  <2>2. dist[u] + p[Source] - p[u] >= 0
    BY <1>1 DEF Guide
  <2>3. p[u] \in Int /\ p[Source] \in Int
    BY <1>1, NodeRanges
  <2> QED
    BY <1>1, <2>1, <2>2, <2>3
<1>7. ASSUME NEW v \in DOMAIN dist \ Better(u), <<u, v>> \in arcs
      PROVE  dist[v] <= dist[u] + Weight(u, v)
  BY <1>1, <1>7, WeightType DEF Better, Improves, SearchTypes
<1> QED
  BY <1>1, <1>2, <1>3, <1>4, <1>5, <1>6, <1>7

\* A pop keeps the tree, the costs that were passed on, and the way back to the
\* source: a node that gets cheaper through u is not on u's own way back, for
\* going round would not have cost less.
LEMMA PopInv ==
  ASSUME Network, Residual, SearchTypes, SearchInv,
         NEW C, NEW p \in [Nodes -> Int], Guide(C, p), NEW u, Pop(u)
  PROVE  SearchInv' /\ Guide(C, p)'
<1> USE DEF Pop, SearchInv
<1>1. /\ u \in DOMAIN dist /\ u \notin Better(u) /\ Source \notin Better(u)
      /\ Better(u) \subseteq Nodes \cap C
  BY RelaxFacts
<1>d. DOMAIN dist' = DOMAIN dist \cup Better(u) /\ DOMAIN prev' = DOMAIN prev \cup Better(u)
  BY RelaxFacts
<1>b. ASSUME NEW v \in Better(u)
      PROVE  /\ <<u, v>> \in arcs /\ prev'[v] = u /\ dist'[v] = dist[u] + Weight(u, v)
             /\ Weight(u, v) \in Int
             /\ dist'[v] + p[Source] - p[v] >= dist[u] + p[Source] - p[u]
             /\ v \in DOMAIN dist => dist'[v] < dist[v]
  BY RelaxFacts
<1>o. ASSUME NEW v \in DOMAIN dist, v \notin Better(u)
      PROVE  /\ dist'[v] = dist[v]
             /\ v \in DOMAIN prev => prev'[v] = prev[v]
             /\ <<u, v>> \in arcs => dist[v] <= dist[u] + Weight(u, v)
  BY <1>o, RelaxFacts
<1> HIDE DEF Pop
<1>2. \A x, y : Weight(x, y)' = Weight(x, y)
  BY DEF Pop, Weight, Cost
<1>3. \A v \in DOMAIN dist : dist[v] \in Int
  BY DEF SearchTypes
<1>4. ASSUME NEW v \in DOMAIN dist PROVE dist'[v] \in Int /\ dist'[v] <= dist[v]
  <2>1. dist[v] \in Int /\ dist[u] \in Int
    BY <1>1, <1>3
  <2>2. CASE v \in Better(u)
    <3>1. dist'[v] = dist[u] + Weight(u, v) /\ Weight(u, v) \in Int /\ dist'[v] < dist[v]
      BY <1>b, <2>2
    <3> QED
      BY <2>1, <3>1
  <2>3. CASE v \notin Better(u)
    <3>1. dist'[v] = dist[v]
      BY <1>o, <2>3
    <3> QED
      BY <2>1, <3>1
  <2> QED
    BY <2>2, <2>3
<1>5. arcs' = arcs /\ queue' = (queue \ {u}) \cup Better(u) /\ u \in queue
  BY DEF Pop
<1>6. Tree'
  <2>1. Source \in DOMAIN dist' /\ dist'[Source] = 0 /\ DOMAIN prev' = DOMAIN dist' \ {Source}
    BY <1>1, <1>d, <1>o DEF Tree
  <2> SUFFICES ASSUME NEW v \in DOMAIN prev'
               PROVE  /\ prev'[v] \in DOMAIN dist' /\ <<prev'[v], v>> \in arcs
                      /\ dist'[v] >= dist'[prev'[v]] + Weight(prev'[v], v)
                      /\ prev'[v] \notin queue' => dist'[v] = dist'[prev'[v]] + Weight(prev'[v], v)
    BY <1>2, <1>5, <2>1 DEF Tree
  <2>2. CASE v \in Better(u)
    <3>1. /\ <<u, v>> \in arcs /\ prev'[v] = u /\ dist'[v] = dist[u] + Weight(u, v)
          /\ Weight(u, v) \in Int /\ dist'[u] = dist[u] /\ dist[u] \in Int
      BY <1>1, <1>3, <1>b, <1>o, <2>2
    <3> QED
      BY <1>1, <1>d, <3>1
  <2>3. CASE v \notin Better(u)
    <3>1. v \in DOMAIN prev /\ v \in DOMAIN dist /\ prev'[v] = prev[v] /\ dist'[v] = dist[v]
      BY <1>d, <1>o, <2>3 DEF Tree
    <3> DEFINE w == prev[v]
    <3>2. /\ w \in DOMAIN dist /\ <<w, v>> \in arcs /\ Weight(w, v) \in Int
          /\ dist[v] >= dist[w] + Weight(w, v)
          /\ w \notin queue => dist[v] = dist[w] + Weight(w, v)
      BY <3>1, WeightType DEF Tree
    <3>3. dist'[v] >= dist'[w] + Weight(w, v)
      BY <1>3, <1>4, <3>1, <3>2
    <3>4. ASSUME w \notin queue' PROVE dist'[v] = dist'[w] + Weight(w, v)
      <4>1. w \notin Better(u) /\ (w \notin queue \/ w = u)
        BY <1>5, <3>4
      <4>2. dist'[w] = dist[w]
        BY <1>o, <3>2, <4>1
      <4>3. CASE w = u
        <5>1. dist[v] <= dist[u] + Weight(u, v)
          BY <1>o, <2>3, <3>1, <3>2, <4>3
        <5> QED
          BY <1>3, <3>1, <3>2, <4>2, <4>3, <5>1
      <4>4. CASE w # u
        BY <3>1, <3>2, <4>1, <4>2, <4>4
      <4> QED
        BY <4>3, <4>4
    <3> QED
      BY <1>d, <3>1, <3>2, <3>3, <3>4
  <2> QED
    BY <2>2, <2>3
<1>7. Scanned'
  <2> SUFFICES ASSUME NEW x \in DOMAIN dist', x \notin queue', NEW v \in Nodes, <<x, v>> \in arcs
               PROVE  v \in DOMAIN dist' /\ dist'[v] <= dist'[x] + Weight(x, v)
    BY <1>2, <1>5 DEF Scanned
  <2>1. x \in DOMAIN dist /\ x \notin Better(u) /\ (x \notin queue \/ x = u) /\ dist'[x] = dist[x]
    BY <1>d, <1>o, <1>5
  <2>2. Weight(x, v) \in Int
    BY WeightType
  <2>3. CASE x # u
    <3>1. v \in DOMAIN dist /\ dist[v] <= dist[x] + Weight(x, v)
      BY <2>1, <2>3 DEF Scanned
    <3>2. dist'[v] \in Int /\ dist'[v] <= dist[v] /\ dist[v] \in Int /\ dist[x] \in Int
      BY <1>3, <1>4, <2>1, <3>1
    <3> QED
      BY <1>d, <2>1, <2>2, <3>1, <3>2
  <2>4. CASE x = u
    <3>1. CASE v \in Better(u)
      <4>1. dist'[v] = dist[u] + Weight(u, v) /\ dist[u] \in Int
        BY <1>1, <1>3, <1>b, <3>1
      <4> QED
        BY <1>d, <2>1, <2>2, <2>4, <3>1, <4>1
    <3>2. CASE v \notin Better(u)
      <4>1. v \in DOMAIN dist
        BY <2>4, <3>2 DEF Better, Improves
      <4> QED
        BY <1>d, <1>o, <2>1, <2>4, <3>2, <4>1
    <3> QED
      BY <3>1, <3>2
  <2> QED
    BY <2>3, <2>4
<1>8. Guide(C, p)'
  <2>1. \A v \in DOMAIN dist' : v \in C /\ dist'[v] + p[Source] - p[v] >= 0
    <3> SUFFICES ASSUME NEW v \in DOMAIN dist' PROVE v \in C /\ dist'[v] + p[Source] - p[v] >= 0
      OBVIOUS
    <3>1. CASE v \in Better(u)
      <4>1. dist[u] + p[Source] - p[u] >= 0
        BY <1>1 DEF Guide
      <4>2. /\ dist'[v] \in Int /\ dist[u] \in Int
            /\ dist'[v] + p[Source] - p[v] >= dist[u] + p[Source] - p[u]
        <5>1. /\ dist'[v] = dist[u] + Weight(u, v) /\ Weight(u, v) \in Int
              /\ dist'[v] + p[Source] - p[v] >= dist[u] + p[Source] - p[u]
          BY <1>b, <3>1
        <5>2. dist[u] \in Int
          BY <1>1, <1>3
        <5> QED
          BY <5>1, <5>2
      <4>3. p[v] \in Int /\ p[u] \in Int /\ p[Source] \in Int
        BY <1>1, <3>1, NodeRanges DEF SearchTypes
      <4> QED
        BY <1>1, <3>1, <4>1, <4>2, <4>3
    <3>2. CASE v \notin Better(u)
      BY <1>d, <1>o, <3>2 DEF Guide
    <3> QED
      BY <3>1, <3>2
  <2> QED
    BY <1>2, <1>5, <2>1 DEF Guide
<1>9. Grounded'
  <2> SUFFICES ASSUME NEW S \in SUBSET DOMAIN prev', S # {}, \A v \in S : prev'[v] \in S
               PROVE  FALSE
    BY DEF Grounded
  <2>1. CASE S \cap Better(u) = {}
    <3>1. S \subseteq DOMAIN prev /\ \A v \in S : prev[v] \in S
      BY <1>d, <1>o, <2>1 DEF Tree
    <3> QED
      BY <3>1 DEF Grounded
  <2>2. CASE S \cap Better(u) # {}
    <3> DEFINE d(x) == dist[x] + p[Source] - p[x]
               T    == {x \in S \ Better(u) : d(x) <= d(u)}
    <3>1. u \in S
      BY <1>b, <2>2
    <3>2. u \in T
      <4>1. d(u) \in Int
        <5>1. dist[u] \in Int /\ p[u] \in Int /\ p[Source] \in Int
          BY <1>1, <1>3, NodeRanges DEF SearchTypes
        <5> QED
          BY <5>1
      <4> HIDE DEF d
      <4> QED
        BY <1>1, <3>1, <4>1
    <3>3. T \subseteq DOMAIN prev
      BY <1>d
    <3>4. ASSUME NEW x \in T PROVE prev[x] \in T
      <4> DEFINE w == prev[x]
      <4>1. x \in DOMAIN prev /\ x \in DOMAIN dist /\ prev'[x] = w /\ w \in S
        BY <1>o, <3>3 DEF Tree
      <4>2. /\ w \in DOMAIN dist /\ <<w, x>> \in arcs /\ Weight(w, x) \in Int
            /\ dist[x] >= dist[w] + Weight(w, x)
        BY <4>1, WeightType DEF Tree
      <4>3. w \in C /\ Weight(w, x) + p[w] - p[x] >= 0
        BY <4>1, <4>2 DEF Guide, SearchTypes
      <4>4. /\ p[w] \in Int /\ p[x] \in Int /\ p[Source] \in Int /\ p[u] \in Int
            /\ dist[w] \in Int /\ dist[x] \in Int /\ dist[u] \in Int
        BY <1>1, <1>3, <4>1, <4>2, NodeRanges DEF SearchTypes
      <4>5. d(w) <= d(x) /\ d(w) \in Int /\ d(x) \in Int /\ d(u) \in Int
        BY <4>2, <4>3, <4>4
      <4>6. d(x) <= d(u)
        OBVIOUS
      <4>7. w \notin Better(u)
        <5> SUFFICES ASSUME w \in Better(u) PROVE FALSE
          OBVIOUS
        <5>1. dist'[w] < dist[w] /\ dist'[w] + p[Source] - p[w] >= d(u) /\ dist'[w] \in Int
          BY <1>b, <1>4, <4>2
        <5> QED
          BY <4>4, <4>5, <4>6, <5>1
      <4> HIDE DEF d
      <4>8. d(w) <= d(u)
        BY <4>5, <4>6
      <4> QED
        BY <4>1, <4>7, <4>8
    <3> HIDE DEF T
    <3> QED
      BY <3>2, <3>3, <3>4 DEF Grounded
  <2> QED
    BY <2>1, <2>2
<1> QED
  BY <1>6, <1>7, <1>8, <1>9

-----------------------------------------------------------------------------
(* Dijkstra takes the nodes off the heap in the order of their costs *)

\* Settled nodes cost no more than the ones in the heap.
Ordered ==
  /\ settled = DOMAIN dist \ queue
  /\ \A u \in settled, v \in queue : dist[u] <= dist[v]

\* Without negative weights Dijkstra's pop is a pop: no settled node gets
\* cheaper, so that skipping the entries of settled nodes loses nothing.
LEMMA DijkstraIsPop ==
  ASSUME Network, Residual, SearchTypes, Tree, Ordered,
         NEW C, Guide(C, NoPotential), NEW u, DijkstraPop(u)
  PROVE  Pop(u) /\ Ordered'
<1> USE DEF Ordered
<1>1. /\ u \in queue /\ Relax(u) /\ settled' = settled \cup {u}
      /\ \A v \in queue : dist[u] <= dist[v]
      /\ queue' = (queue \cup Better(u)) \ settled'
      /\ UNCHANGED <<price, arcs, engine, mode, pot, flow, cost>>
  BY DEF DijkstraPop
<1>2. NoPotential \in [Nodes -> Int] /\ \A v \in Nodes : NoPotential[v] = 0
  BY DEF NoPotential
<1>3. /\ u \in DOMAIN dist /\ u \notin Better(u)
      /\ DOMAIN dist' = DOMAIN dist \cup Better(u) /\ Better(u) \subseteq Nodes
  BY <1>1, <1>2, RelaxFacts
<1>4. dist[u] \in Int /\ u \in Nodes /\ u \in C
  BY <1>3 DEF SearchTypes, Guide
<1>5. ASSUME NEW v \in Better(u)
      PROVE  /\ dist'[v] = dist[u] + Weight(u, v) /\ Weight(u, v) \in Int /\ Weight(u, v) >= 0
             /\ v \in DOMAIN dist => dist'[v] < dist[v]
  <2>1. /\ dist'[v] = dist[u] + Weight(u, v) /\ Weight(u, v) \in Int /\ <<u, v>> \in arcs
        /\ v \in DOMAIN dist => dist'[v] < dist[v]
    BY <1>1, <1>2, RelaxFacts
  <2>2. Weight(u, v) + NoPotential[u] - NoPotential[v] >= 0
    BY <1>3, <1>4, <2>1 DEF Guide
  <2> QED
    BY <1>2, <1>3, <1>4, <2>1, <2>2
<1>6. ASSUME NEW v \in DOMAIN dist, v \notin Better(u) PROVE dist'[v] = dist[v]
  BY <1>1, <1>2, <1>6, RelaxFacts
<1>7. Better(u) \cap settled = {}
  <2> SUFFICES ASSUME NEW v \in Better(u), v \in settled PROVE FALSE
    OBVIOUS
  <2>1. v \in DOMAIN dist /\ dist[v] \in Int /\ dist[v] <= dist[u]
    BY <1>1 DEF SearchTypes
  <2>2. /\ dist'[v] = dist[u] + Weight(u, v) /\ Weight(u, v) \in Int /\ Weight(u, v) >= 0
        /\ dist'[v] < dist[v]
    BY <1>5, <2>1
  <2> QED
    BY <1>4, <2>1, <2>2
<1>8. queue' = (queue \ {u}) \cup Better(u)
  BY <1>1, <1>3, <1>7 DEF SearchTypes
<1>9. settled' = DOMAIN dist' \ queue'
  BY <1>1, <1>3, <1>7, <1>8 DEF SearchTypes
<1>10. ASSUME NEW x \in settled', NEW y \in queue' PROVE dist'[x] <= dist'[y]
  <2>1. x \in DOMAIN dist /\ dist[x] \in Int /\ dist'[x] = dist[x] /\ dist[x] <= dist[u]
    <3>1. x \in DOMAIN dist /\ x \notin Better(u)
      BY <1>1, <1>3, <1>7
    <3>2. dist[x] \in Int /\ dist'[x] = dist[x]
      BY <1>6, <3>1 DEF SearchTypes
    <3> QED
      BY <1>1, <1>4, <3>1, <3>2
  <2>2. CASE y \in Better(u)
    <3>1. dist'[y] = dist[u] + Weight(u, y) /\ Weight(u, y) \in Int /\ Weight(u, y) >= 0
      BY <1>5, <2>2
    <3> QED
      BY <1>4, <2>1, <3>1
  <2>3. CASE y \notin Better(u)
    <3>1. y \in queue /\ y \in DOMAIN dist
      BY <1>8, <2>3 DEF SearchTypes
    <3>2. dist'[y] = dist[y] /\ dist[y] \in Int /\ dist[u] <= dist[y]
      BY <1>1, <1>6, <2>3, <3>1 DEF SearchTypes
    <3> QED
      BY <1>4, <2>1, <3>2
  <2> QED
    BY <2>2, <2>3
<1> QED
  BY <1>1, <1>8, <1>9, <1>10 DEF Pop

-----------------------------------------------------------------------------
(* Induction *)

\* A set of naturals that is not empty has a least element.
LEMMA NatMin ==
  ASSUME NEW S \in SUBSET Nat, S # {}
  PROVE  \E m \in S : \A k \in S : m <= k
<1>1. PICK m \in S : \A k \in S : ~(<<k, m>> \in OpToRel(<, Nat))
  BY WFMin, NatLessThanWellFounded
<1>2. \A k \in S : ~(k < m)
  BY <1>1 DEF OpToRel
<1> QED
  BY <1>2

\* What holds of 0 and goes on from each natural to the next holds of all.
LEMMA NatSteps ==
  ASSUME NEW G, 0 \in G, \A n \in Nat : n \in G => n + 1 \in G
  PROVE  Nat \subseteq G
<1> DEFINE Bad == Nat \ G
<1> SUFFICES ASSUME Bad # {} PROVE FALSE
  OBVIOUS
<1>1. PICK m \in Bad : \A k \in Bad : m <= k
  <2>1. Bad \subseteq Nat
    OBVIOUS
  <2> HIDE DEF Bad
  <2> QED
    BY <2>1, NatMin
<1>2. m \in Nat /\ m # 0 /\ m - 1 \in Nat /\ m - 1 \notin Bad
  BY <1>1
<1> QED
  BY <1>2

-----------------------------------------------------------------------------
(* The walk back along prev *)

Hop(v) == IF v = Source THEN Source ELSE prev[v]

\* The walk Path takes.
Walk ==
  LET back[n \in 0..Cardinality(Nodes)] ==
        IF n = 0 THEN Sink
        ELSE LET v == back[n - 1] IN IF v = Source THEN Source ELSE prev[v]
  IN back

\* The arcs of Path are those into the nodes the walk meets.
LEMMA PathWalk ==
  Path = {<<prev[v], v>> : v \in {Walk[n] : n \in 0..Cardinality(Nodes)} \ {Source}}
BY DEF Path, Walk

\* The nodes can be counted.
LEMMA NodesFinite == IsFiniteSet(Nodes) /\ Cardinality(Nodes) \in Nat
<1>1. Source \in Int /\ Sink \in Int
  BY MinCostFlowAssumption DEF Source, Sink
<1>2. IsFiniteSet(Nodes)
  BY <1>1, FS_Interval DEF Nodes
<1> QED
  BY <1>2, FS_CardinalityType

\* Walks of every length exist: the recursion of Path is well founded.
LEMMA WalksExist ==
  ASSUME NEW N \in Nat
  PROVE  \E f : f = [n \in 0..N |-> IF n = 0 THEN Sink ELSE Hop(f[n - 1])]
<1> DEFINE G == {n \in Nat : \E f : f = [k \in 0..n |-> IF k = 0 THEN Sink ELSE Hop(f[k - 1])]}
<1>1. 0 \in G
  <2> DEFINE f == [k \in 0..0 |-> Sink]
  <2>1. f = [k \in 0..0 |-> IF k = 0 THEN Sink ELSE Hop(f[k - 1])]
    OBVIOUS
  <2> QED
    BY <2>1
<1>2. ASSUME NEW n \in Nat, n \in G PROVE n + 1 \in G
  <2>1. PICK f : f = [k \in 0..n |-> IF k = 0 THEN Sink ELSE Hop(f[k - 1])]
    BY <1>2
  <2> DEFINE g == [k \in 0..(n + 1) |-> IF k = n + 1 THEN Hop(f[n]) ELSE f[k]]
  <2>2. \A k \in 0..n : g[k] = f[k]
    OBVIOUS
  <2>3. g[n + 1] = Hop(g[n])
    BY <2>2
  <2>4. \A k \in 0..n : k # 0 => k - 1 \in 0..n
    OBVIOUS
  <2>5. ASSUME NEW k \in 0..(n + 1) PROVE g[k] = IF k = 0 THEN Sink ELSE Hop(g[k - 1])
    <3>1. CASE k = n + 1
      BY <2>3, <3>1
    <3>2. CASE k # n + 1
      <4>1. k \in 0..n
        BY <3>2
      <4>2. f[k] = IF k = 0 THEN Sink ELSE Hop(f[k - 1])
        BY <2>1, <4>1
      <4> QED
        BY <2>2, <2>4, <4>1, <4>2
    <3> QED
      BY <3>1, <3>2
  <2>6. g = [k \in 0..(n + 1) |-> IF k = 0 THEN Sink ELSE Hop(g[k - 1])]
    <3>1. g = [k \in 0..(n + 1) |-> g[k]]
      OBVIOUS
    <3> HIDE DEF g
    <3> QED
      BY <2>5, <3>1
  <2>7. \E h : h = [k \in 0..(n + 1) |-> IF k = 0 THEN Sink ELSE Hop(h[k - 1])]
    <3> HIDE DEF g
    <3> QED
      BY <2>6
  <2> QED
    BY <2>7
<1> HIDE DEF G
<1>3. N \in G
  BY <1>1, <1>2, NatSteps
<1> QED
  BY <1>3 DEF G

\* So the walk starts at the sink and goes on to the node each was reached from.
LEMMA WalkSteps ==
  /\ Walk[0] = Sink
  /\ \A n \in Nat : n < Cardinality(Nodes) => Walk[n + 1] = Hop(Walk[n])
<1> DEFINE N == Cardinality(Nodes)
<1>1. N \in Nat
  BY NodesFinite
<1>2. PICK f : f = [n \in 0..N |-> IF n = 0 THEN Sink ELSE Hop(f[n - 1])]
  BY <1>1, WalksExist
<1>3. Walk = [n \in 0..N |-> IF n = 0 THEN Sink ELSE Hop(Walk[n - 1])]
  BY <1>2 DEF Walk, Hop
<1>4. Walk[0] = Sink
  BY <1>1, <1>3
<1>5. ASSUME NEW n \in Nat, n < N PROVE Walk[n + 1] = Hop(Walk[n])
  <2>1. n + 1 \in 0..N /\ n + 1 # 0 /\ (n + 1) - 1 = n
    BY <1>1, <1>5
  <2> QED
    BY <1>3, <2>1
<1> QED
  BY <1>4, <1>5

\* The walk stays among the nodes the search has reached.
LEMMA WalkReached ==
  ASSUME Tree, Sink \in DOMAIN dist, NEW n \in Nat, n <= Cardinality(Nodes)
  PROVE  Walk[n] \in DOMAIN dist
<1> DEFINE N == Cardinality(Nodes)
           G == {k \in Nat : k <= N => Walk[k] \in DOMAIN dist}
<1>1. N \in Nat
  BY NodesFinite
<1>2. 0 \in G
  BY WalkSteps
<1>3. ASSUME NEW k \in Nat, k \in G PROVE k + 1 \in G
  <2> SUFFICES ASSUME k + 1 <= N PROVE Walk[k + 1] \in DOMAIN dist
    OBVIOUS
  <2>1. k < N /\ Walk[k] \in DOMAIN dist
    BY <1>1, <1>3
  <2>2. Walk[k + 1] = Hop(Walk[k])
    BY <2>1, WalkSteps
  <2> QED
    BY <2>1, <2>2 DEF Hop, Tree
<1> HIDE DEF G
<1>4. n \in G
  BY <1>2, <1>3, NatSteps
<1> QED
  BY <1>4 DEF G

\* At the source it stops.
LEMMA WalkStops ==
  ASSUME NEW n \in Nat, NEW m \in Nat, n <= m, m <= Cardinality(Nodes), Walk[n] = Source
  PROVE  Walk[m] = Source
<1> DEFINE N == Cardinality(Nodes)
           G == {k \in Nat : n <= k /\ k <= N => Walk[k] = Source}
<1>1. N \in Nat
  BY NodesFinite
<1>2. 0 \in G
  OBVIOUS
<1>3. ASSUME NEW k \in Nat, k \in G PROVE k + 1 \in G
  <2> SUFFICES ASSUME n <= k + 1, k + 1 <= N PROVE Walk[k + 1] = Source
    OBVIOUS
  <2>1. CASE n = k + 1
    BY <2>1
  <2>2. CASE n # k + 1
    <3>1. n <= k /\ k <= N /\ k < N
      BY <1>1, <2>2
    <3>2. Walk[k] = Source /\ Walk[k + 1] = Hop(Walk[k])
      BY <1>3, <3>1, WalkSteps
    <3> QED
      BY <3>2 DEF Hop
  <2> QED
    BY <2>1, <2>2
<1> HIDE DEF G
<1>4. m \in G
  BY <1>2, <1>3, NatSteps
<1> QED
  BY <1>4 DEF G

\* Before that it visits no node twice.
LEMMA WalkTurnsNowhere ==
  ASSUME Tree, Grounded, Sink \in DOMAIN dist, NEW a \in Nat, NEW b \in Nat,
         a < b, b <= Cardinality(Nodes), Walk[a] = Walk[b]
  PROVE  Walk[a] = Source
<1> SUFFICES ASSUME Walk[a] # Source PROVE FALSE
  OBVIOUS
<1> DEFINE N == Cardinality(Nodes)
           S == {Walk[k] : k \in a..(b - 1)}
<1>1. N \in Nat
  BY NodesFinite
<1>2. ASSUME NEW k \in a..(b - 1)
      PROVE  Walk[k] \in DOMAIN prev /\ prev[Walk[k]] = Walk[k + 1] /\ Walk[k + 1] \in S
  <2>1. k \in Nat /\ k <= b /\ k <= N /\ k < N
    BY <1>1
  <2>2. Walk[k] # Source
    BY <2>1, WalkStops
  <2>3. Walk[k] \in DOMAIN dist
    BY <2>1, WalkReached
  <2>4. Walk[k + 1] = prev[Walk[k]]
    BY <2>1, <2>2, WalkSteps DEF Hop
  <2>5. Walk[k + 1] \in S
    <3>1. CASE k + 1 \in a..(b - 1)
      BY <3>1
    <3>2. CASE k + 1 \notin a..(b - 1)
      <4>1. k + 1 = b /\ a \in a..(b - 1)
        BY <3>2
      <4> QED
        BY <4>1
    <3> QED
      BY <3>1, <3>2
  <2> QED
    BY <2>2, <2>3, <2>4, <2>5 DEF Tree
<1>3. S \subseteq DOMAIN prev /\ \A v \in S : prev[v] \in S
  BY <1>2
<1>4. S # {}
  <2>1. a \in a..(b - 1)
    OBVIOUS
  <2> QED
    BY <2>1
<1> HIDE DEF S
<1> QED
  BY <1>3, <1>4 DEF Grounded

\* There are too few nodes for it not to end at the source.
LEMMA WalkEnds ==
  ASSUME SearchTypes, Tree, Grounded, Sink \in DOMAIN dist
  PROVE  Walk[Cardinality(Nodes)] = Source
<1> DEFINE N == Cardinality(Nodes)
<1>1. N \in Nat
  BY NodesFinite
<1>2. SUFFICES ASSUME Walk[N] # Source PROVE FALSE
  OBVIOUS
<1> DEFINE f == [n \in 0..N |-> Walk[n]]
<1>3. f \in [0..N -> Nodes]
  <2>1. \A n \in 0..N : Walk[n] \in Nodes
    BY <1>1, WalkReached DEF SearchTypes
  <2> QED
    BY <2>1
<1>4. IsFiniteSet(0..N) /\ Cardinality(0..N) = N + 1
  BY <1>1, FS_Interval
<1>5. PICK x \in 0..N, y \in 0..N : x # y /\ f[x] = f[y]
  <2>1. Cardinality(Nodes) < Cardinality(0..N)
    BY <1>1, <1>4
  <2> HIDE DEF f
  <2> QED
    BY <1>3, <1>4, <2>1, NodesFinite, FS_PigeonHole
<1>6. Walk[x] = Walk[y] /\ x \in Nat /\ y \in Nat /\ x <= N /\ y <= N
  BY <1>1, <1>5
<1>7. Walk[x] = Source
  <2>1. CASE x < y
    BY <1>6, <2>1, WalkTurnsNowhere
  <2>2. CASE y < x
    BY <1>6, <2>2, WalkTurnsNowhere
  <2> QED
    BY <1>5, <1>6, <2>1, <2>2
<1> QED
  BY <1>1, <1>2, <1>6, <1>7, WalkStops

-----------------------------------------------------------------------------
(* The path *)

\* A path from the source to the sink that meets no node twice.
Simple(P) ==
  /\ \A a, b \in P : (a[1] = b[1] \/ a[2] = b[2]) => a = b
  /\ \A a \in P : a[2] # Source /\ a[1] # Sink
  /\ \A a \in P : a[1] = Source \/ \E b \in P : b[2] = a[1]
  /\ \A a \in P : a[2] = Sink \/ \E b \in P : b[1] = a[2]
  /\ \E a \in P : a[1] = Source
  /\ \E a \in P : a[2] = Sink

\* The arcs of Path are the steps of the walk.
LEMMA PathSteps ==
  ASSUME SearchTypes, Tree, Grounded, Sink \in DOMAIN dist
  PROVE  /\ \A a \in Path : \E n \in Nat :
              n < Cardinality(Nodes) /\ Walk[n] # Source /\ a = <<Walk[n + 1], Walk[n]>>
         /\ \A n \in Nat : n < Cardinality(Nodes) /\ Walk[n] # Source =>
              <<Walk[n + 1], Walk[n]>> \in Path /\ prev[Walk[n]] = Walk[n + 1]
<1> DEFINE N == Cardinality(Nodes)
<1>1. N \in Nat /\ Walk[N] = Source
  BY NodesFinite, WalkEnds
<1>2. ASSUME NEW n \in Nat, n < N, Walk[n] # Source
      PROVE  prev[Walk[n]] = Walk[n + 1]
  BY <1>2, WalkSteps DEF Hop
<1>3. ASSUME NEW a \in Path
      PROVE  \E n \in Nat : n < N /\ Walk[n] # Source /\ a = <<Walk[n + 1], Walk[n]>>
  <2>1. PICK n \in 0..N : Walk[n] # Source /\ a = <<prev[Walk[n]], Walk[n]>>
    BY PathWalk
  <2>2. n \in Nat /\ n < N
    BY <1>1, <2>1
  <2> QED
    BY <1>2, <2>1, <2>2
<1>4. ASSUME NEW n \in Nat, n < N, Walk[n] # Source
      PROVE  <<Walk[n + 1], Walk[n]>> \in Path
  <2>1. n \in 0..N
    BY <1>1, <1>4
  <2>2. <<prev[Walk[n]], Walk[n]>> \in Path
    BY <1>4, <2>1, PathWalk
  <2> QED
    BY <1>2, <1>4, <2>2
<1> QED
  BY <1>2, <1>3, <1>4

\* What Augment walks is a simple path of residual arcs among reached nodes.
LEMMA PathIsSimple ==
  ASSUME SearchTypes, Tree, Grounded, Sink \in DOMAIN dist
  PROVE  /\ Simple(Path)
         /\ \A a \in Path : /\ a \in arcs /\ a = <<a[1], a[2]>>
                            /\ a[1] \in DOMAIN dist /\ a[2] \in DOMAIN prev
                            /\ prev[a[2]] = a[1]
<1> DEFINE N == Cardinality(Nodes)
           At(a, n) == n < N /\ Walk[n] # Source /\ a = <<Walk[n + 1], Walk[n]>>
<1>1. N \in Nat /\ Walk[N] = Source /\ Walk[0] = Sink /\ Sink # Source
  BY NodesFinite, WalkEnds, WalkSteps, NodeRanges
<1>2. ASSUME NEW a \in Path PROVE \E n \in Nat : At(a, n)
  BY PathSteps
<1>3. ASSUME NEW n \in Nat, n < N, Walk[n] # Source
      PROVE  <<Walk[n + 1], Walk[n]>> \in Path /\ prev[Walk[n]] = Walk[n + 1]
  BY <1>3, PathSteps
<1>4. ASSUME NEW a \in Path
      PROVE  /\ a \in arcs /\ a = <<a[1], a[2]>>
             /\ a[1] \in DOMAIN dist /\ a[2] \in DOMAIN prev
             /\ prev[a[2]] = a[1]
  <2>1. PICK n \in Nat : At(a, n)
    BY <1>2
  <2>2. prev[Walk[n]] = Walk[n + 1] /\ Walk[n] \in DOMAIN dist
    BY <1>1, <1>3, <2>1, WalkReached
  <2>3. Walk[n] \in DOMAIN prev
    BY <2>1, <2>2 DEF Tree
  <2> QED
    BY <2>1, <2>2, <2>3 DEF Tree
<1>5. ASSUME NEW a \in Path, NEW b \in Path, a[1] = b[1] PROVE a = b
  <2>1. PICK n \in Nat : At(a, n)
    BY <1>2
  <2>2. PICK m \in Nat : At(b, m)
    BY <1>2
  <2>3. Walk[n + 1] = Walk[m + 1]
    BY <1>5, <2>1, <2>2
  <2>4. ASSUME NEW i \in Nat, NEW j \in Nat, i < j, j < N, Walk[j] # Source
        PROVE  Walk[i + 1] # Walk[j + 1]
    <3> SUFFICES ASSUME Walk[i + 1] = Walk[j + 1] PROVE FALSE
      OBVIOUS
    <3>1. /\ i + 1 \in Nat /\ j + 1 \in Nat /\ i + 1 < j + 1 /\ j + 1 <= N
          /\ i + 1 <= j /\ j <= N
      BY <1>1, <2>4
    <3>2. Walk[i + 1] = Source
      BY <3>1, WalkTurnsNowhere
    <3> QED
      BY <2>4, <3>1, <3>2, WalkStops
  <2>5. n = m
    BY <2>1, <2>2, <2>3, <2>4
  <2> QED
    BY <2>1, <2>2, <2>5
<1>6. ASSUME NEW a \in Path PROVE a[2] # Source /\ a[1] # Sink
  <2>1. PICK n \in Nat : At(a, n)
    BY <1>2
  <2>2. Walk[n + 1] # Walk[0]
    <3>1. 0 < n + 1 /\ n + 1 <= N /\ n + 1 \in Nat
      BY <1>1, <2>1
    <3> QED
      BY <1>1, <3>1, WalkTurnsNowhere
  <2> QED
    BY <1>1, <2>1, <2>2
<1>7. ASSUME NEW a \in Path, a[1] # Source PROVE \E b \in Path : b[2] = a[1]
  <2>1. PICK n \in Nat : At(a, n)
    BY <1>2
  <2>2. Walk[n + 1] # Source /\ n + 1 \in Nat /\ n + 1 < N
    BY <1>1, <1>7, <2>1
  <2>3. <<Walk[(n + 1) + 1], Walk[n + 1]>> \in Path
    BY <1>3, <2>2
  <2> QED
    BY <2>1, <2>3
<1>8. ASSUME NEW a \in Path, a[2] # Sink PROVE \E b \in Path : b[1] = a[2]
  <2>1. PICK n \in Nat : At(a, n)
    BY <1>2
  <2>2. n # 0
    BY <1>1, <1>8, <2>1
  <2>3. n - 1 \in Nat /\ n - 1 <= n /\ n <= N /\ n - 1 < N /\ (n - 1) + 1 = n
    BY <1>1, <2>1, <2>2
  <2>4. Walk[n - 1] # Source
    BY <2>1, <2>3, WalkStops
  <2>5. <<Walk[(n - 1) + 1], Walk[n - 1]>> \in Path
    BY <1>3, <2>3, <2>4
  <2> QED
    BY <2>1, <2>3, <2>5
<1>9. \E a \in Path : a[2] = Sink
  <2>1. 0 < N
    BY <1>1
  <2>2. <<Walk[0 + 1], Walk[0]>> \in Path
    BY <1>1, <1>3, <2>1
  <2> QED
    BY <1>1, <2>2
<1>10. \E a \in Path : a[1] = Source
  <2> DEFINE S == {n \in Nat : n <= N /\ Walk[n] = Source}
  <2>1. S \in SUBSET Nat /\ S # {}
    BY <1>1
  <2>2. PICK n \in S : \A k \in S : n <= k
    <3> HIDE DEF S
    <3> QED
      BY <2>1, NatMin
  <2>3. n # 0 /\ n - 1 \in Nat /\ n - 1 < N /\ (n - 1) + 1 = n /\ n - 1 \notin S
    BY <1>1, <2>2
  <2>4. Walk[n - 1] # Source
    BY <1>1, <2>3
  <2>5. <<Walk[(n - 1) + 1], Walk[n - 1]>> \in Path
    BY <1>3, <2>3, <2>4
  <2> QED
    BY <2>3, <2>5
<1>11. ASSUME NEW a \in Path, NEW b \in Path, a[2] = b[2] PROVE a = b
  BY <1>4, <1>11
<1> QED
  BY <1>4, <1>5, <1>6, <1>7, <1>8, <1>9, <1>10, <1>11 DEF Simple

-----------------------------------------------------------------------------
(* Augmentation: the assignment *)

\* Flow that enters a rider or a driver leaves it: the saturated arcs between
\* riders and drivers are an assignment, of those riders the source supplies to
\* those drivers that supply the sink.
Balanced ==
  /\ \A u \in RiderNodes : <<u, Source>> \in arcs <=> \E v \in DriverNodes : <<v, u>> \in arcs
  /\ \A v \in DriverNodes : <<Sink, v>> \in arcs <=> \E u \in RiderNodes : <<v, u>> \in arcs
  /\ \A u, x \in RiderNodes, v, y \in DriverNodes :
       <<v, u>> \in arcs /\ <<y, x>> \in arcs /\ (u = x \/ v = y) => u = x /\ v = y

\* What a residual arc connects; its opposite is not residual.
LEMMA ArcKinds ==
  ASSUME Network, Residual, NEW x, NEW y, <<x, y>> \in arcs
  PROVE  /\ \/ (x = Source /\ y \in RiderNodes) \/ (x \in RiderNodes /\ y = Source)
            \/ (x \in RiderNodes /\ y \in DriverNodes) \/ (x \in DriverNodes /\ y \in RiderNodes)
            \/ (x \in DriverNodes /\ y = Sink) \/ (x = Sink /\ y \in DriverNodes)
         /\ <<y, x>> \notin arcs
<1>1. CASE <<x, y>> \in DOMAIN price
  <2>1. <<x, y>> \in NetArcs
    BY <1>1 DEF Network
  <2>2. Opposite(<<x, y>>) \notin arcs
    BY <1>1 DEF Residual
  <2>3. <<y, x>> \notin arcs
    BY <2>2 DEF Opposite
  <2>4. \/ x = Source /\ y \in RiderNodes
        \/ x \in RiderNodes /\ y \in DriverNodes
        \/ x \in DriverNodes /\ y = Sink
    BY <2>1 DEF NetArcs
  <2> QED
    BY <2>3, <2>4
<1>2. CASE <<x, y>> \notin DOMAIN price
  <2>1. PICK a \in DOMAIN price : <<x, y>> = Opposite(a)
    BY <1>2 DEF Residual
  <2>2. a \in NetArcs
    BY DEF Network
  <2>3. a = <<y, x>>
    BY <2>1, <2>2, OneWay DEF Opposite
  <2>4. <<y, x>> \notin arcs
    BY <2>1, <2>3 DEF Residual
  <2> QED
    BY <2>2, <2>3, <2>4 DEF NetArcs
<1> QED
  BY <1>1, <1>2

\* The arcs after an augmentation.
LEMMA Flipped ==
  ASSUME NEW P, \A a \in P : a = <<a[1], a[2]>>, NEW x, NEW y
  PROVE  <<x, y>> \in Augmented(P) <=> (<<x, y>> \in arcs /\ <<x, y>> \notin P) \/ <<y, x>> \in P
BY DEF Augmented

\* A simple path leaves every arc its unit of capacity.
LEMMA AugmentResidual ==
  ASSUME Network, Residual, NEW P \in SUBSET arcs, \A a \in P : a = <<a[1], a[2]>>,
         arcs' = Augmented(P), price' = price
  PROVE  Residual'
<1>1. \A x, y : <<x, y>> \in arcs' <=> (<<x, y>> \in arcs /\ <<x, y>> \notin P) \/ <<y, x>> \in P
  BY Flipped
<1>2. arcs' \subseteq DOMAIN price \cup {Opposite(a) : a \in DOMAIN price}
  <2> SUFFICES ASSUME NEW b \in arcs'
               PROVE  b \in DOMAIN price \cup {Opposite(a) : a \in DOMAIN price}
    OBVIOUS
  <2>1. CASE b \in arcs
    BY <2>1 DEF Residual
  <2>2. CASE b \notin arcs
    <3>1. PICK c \in P : b = <<c[2], c[1]>>
      BY <2>2 DEF Augmented
    <3>2. CASE c \in DOMAIN price
      BY <3>1, <3>2 DEF Opposite
    <3>3. CASE c \notin DOMAIN price
      <4>1. PICK a \in DOMAIN price : c = Opposite(a)
        BY <3>3 DEF Residual
      <4>2. Opposite(Opposite(a)) = a
        BY OneWay DEF Network
      <4> QED
        BY <3>1, <4>1, <4>2 DEF Opposite
    <3> QED
      BY <3>2, <3>3
  <2> QED
    BY <2>1, <2>2
<1>3. ASSUME NEW a \in DOMAIN price PROVE a \in arcs' <=> Opposite(a) \notin arcs'
  <2>1. a = <<a[1], a[2]>>
    BY OneWay DEF Network
  <2>2. a \in arcs <=> <<a[2], a[1]>> \notin arcs
    BY DEF Residual, Opposite
  <2>3. a \in arcs' <=> (a \in arcs /\ a \notin P) \/ <<a[2], a[1]>> \in P
    BY <1>1, <2>1
  <2>4. <<a[2], a[1]>> \in arcs' <=> (<<a[2], a[1]>> \in arcs /\ <<a[2], a[1]>> \notin P) \/ a \in P
    BY <1>1, <2>1
  <2> QED
    BY <2>2, <2>3, <2>4 DEF Opposite
<1> QED
  BY <1>2, <1>3 DEF Residual

\* A simple path keeps the assignment one, and gives one more rider a driver.
LEMMA AugmentBalanced ==
  ASSUME Network, Residual, Balanced, NEW P \in SUBSET arcs, \A a \in P : a = <<a[1], a[2]>>,
         Simple(P), arcs' = Augmented(P)
  PROVE  /\ Balanced'
         /\ \A u \in RiderNodes : <<u, Source>> \in arcs' <=> <<u, Source>> \in arcs \/ <<Source, u>> \in P
         /\ \A v \in DriverNodes : <<Sink, v>> \in arcs' <=> <<Sink, v>> \in arcs \/ <<v, Sink>> \in P
<1>1. \A x, y : <<x, y>> \in arcs' <=> (<<x, y>> \in arcs /\ <<x, y>> \notin P) \/ <<y, x>> \in P
  BY Flipped
<1>2. ASSUME NEW x, NEW y, <<x, y>> \in P
      PROVE  /\ <<x, y>> \in arcs /\ <<y, x>> \notin arcs
             /\ x \in RiderNodes => y \in DriverNodes
             /\ y \in RiderNodes => x = Source \/ x \in DriverNodes
             /\ x \in DriverNodes => y = Sink \/ y \in RiderNodes
             /\ y \in DriverNodes => x \in RiderNodes
  <2>1. <<x, y>> \in arcs /\ y # Source /\ x # Sink
    BY <1>2 DEF Simple
  <2> QED
    BY <2>1, ArcKinds, NodeRanges
<1>3. ASSUME NEW x, NEW y, <<x, y>> \in P, x # Source PROVE \E z : <<z, x>> \in P
  BY <1>3 DEF Simple
<1>4. ASSUME NEW x, NEW y, <<x, y>> \in P, y # Sink PROVE \E z : <<y, z>> \in P
  <2>1. PICK b \in P : b[1] = y
    BY <1>4 DEF Simple
  <2> QED
    BY <2>1
<1>5. ASSUME NEW x, NEW y, NEW z, <<x, y>> \in P, <<x, z>> \in P \/ <<z, y>> \in P
      PROVE  (<<x, z>> \in P => y = z) /\ (<<z, y>> \in P => x = z)
  BY <1>5 DEF Simple
<1>6. \A x \in RiderNodes \cup DriverNodes : x # Source /\ x # Sink
  BY NodeRanges
<1>7. \A u \in RiderNodes : <<u, Source>> \in arcs' <=> <<u, Source>> \in arcs \/ <<Source, u>> \in P
  BY <1>1 DEF Simple
<1>8. \A v \in DriverNodes : <<Sink, v>> \in arcs' <=> <<Sink, v>> \in arcs \/ <<v, Sink>> \in P
  BY <1>1 DEF Simple
<1>9. ASSUME NEW u \in RiderNodes
      PROVE  <<u, Source>> \in arcs' <=> \E v \in DriverNodes : <<v, u>> \in arcs'
  <2>1. ASSUME <<u, Source>> \in arcs' PROVE \E v \in DriverNodes : <<v, u>> \in arcs'
    <3>1. CASE \E x : <<x, u>> \in P
      <4>1. PICK y : <<u, y>> \in P
        BY <1>4, <1>6, <3>1
      <4>2. y \in DriverNodes
        BY <1>2, <4>1
      <4> QED
        BY <1>1, <4>1, <4>2
    <3>2. CASE ~\E x : <<x, u>> \in P
      <4>1. <<u, Source>> \in arcs
        BY <1>7, <2>1, <3>2
      <4>2. PICK v \in DriverNodes : <<v, u>> \in arcs
        BY <4>1 DEF Balanced
      <4> QED
        BY <1>1, <3>2, <4>2
    <3> QED
      BY <3>1, <3>2
  <2>2. ASSUME NEW v \in DriverNodes, <<v, u>> \in arcs' PROVE <<u, Source>> \in arcs'
    <3>1. CASE <<v, u>> \in arcs
      BY <1>7, <3>1 DEF Balanced
    <3>2. CASE <<u, v>> \in P
      <4>1. PICK x : <<x, u>> \in P
        BY <1>3, <1>6, <3>2
      <4>2. x = Source \/ (x \in DriverNodes /\ <<x, u>> \in arcs)
        BY <1>2, <4>1
      <4> QED
        BY <1>7, <4>1, <4>2 DEF Balanced
    <3> QED
      BY <1>1, <2>2, <3>1, <3>2
  <2> QED
    BY <2>1, <2>2
<1>10. ASSUME NEW v \in DriverNodes
       PROVE  <<Sink, v>> \in arcs' <=> \E u \in RiderNodes : <<v, u>> \in arcs'
  <2>1. ASSUME <<Sink, v>> \in arcs' PROVE \E u \in RiderNodes : <<v, u>> \in arcs'
    <3>1. CASE \E y : <<v, y>> \in P
      <4>1. PICK x : <<x, v>> \in P
        BY <1>3, <1>6, <3>1
      <4>2. x \in RiderNodes
        BY <1>2, <4>1
      <4> QED
        BY <1>1, <4>1, <4>2
    <3>2. CASE ~\E y : <<v, y>> \in P
      <4>1. <<Sink, v>> \in arcs
        BY <1>8, <2>1, <3>2
      <4>2. PICK u \in RiderNodes : <<v, u>> \in arcs
        BY <4>1 DEF Balanced
      <4> QED
        BY <1>1, <3>2, <4>2
    <3> QED
      BY <3>1, <3>2
  <2>2. ASSUME NEW u \in RiderNodes, <<v, u>> \in arcs' PROVE <<Sink, v>> \in arcs'
    <3>1. CASE <<v, u>> \in arcs
      BY <1>8, <3>1 DEF Balanced
    <3>2. CASE <<u, v>> \in P
      <4>1. PICK y : <<v, y>> \in P
        BY <1>4, <1>6, <3>2
      <4>2. y = Sink \/ (y \in RiderNodes /\ <<v, y>> \in arcs)
        BY <1>2, <4>1
      <4> QED
        BY <1>8, <4>1, <4>2 DEF Balanced
    <3> QED
      BY <1>1, <2>2, <3>1, <3>2
  <2> QED
    BY <2>1, <2>2
<1>11. ASSUME NEW u \in RiderNodes, NEW v \in DriverNodes, NEW y \in DriverNodes,
              <<v, u>> \in arcs, <<v, u>> \notin P, <<u, y>> \in P
       PROVE  FALSE
  <2>1. PICK x : <<x, u>> \in P
    BY <1>3, <1>6, <1>11
  <2>2. <<u, Source>> \in arcs
    BY <1>11 DEF Balanced
  <2>3. x \in DriverNodes /\ <<x, u>> \in arcs
    BY <1>2, <2>1, <2>2
  <2>4. x = v
    BY <1>11, <2>3 DEF Balanced
  <2> QED
    BY <1>11, <2>1, <2>4
<1>12. ASSUME NEW u \in RiderNodes, NEW x \in RiderNodes, NEW v \in DriverNodes,
              <<v, u>> \in arcs, <<v, u>> \notin P, <<x, v>> \in P
       PROVE  FALSE
  <2>1. PICK y : <<v, y>> \in P
    BY <1>4, <1>6, <1>12
  <2>2. <<Sink, v>> \in arcs
    BY <1>12 DEF Balanced
  <2>3. y \in RiderNodes /\ <<v, y>> \in arcs
    BY <1>2, <2>1, <2>2
  <2>4. y = u
    BY <1>12, <2>3 DEF Balanced
  <2> QED
    BY <1>12, <2>1, <2>4
<1>13. ASSUME NEW u \in RiderNodes, NEW x \in RiderNodes, NEW v \in DriverNodes, NEW y \in DriverNodes,
              <<v, u>> \in arcs', <<y, x>> \in arcs', u = x \/ v = y
       PROVE  u = x /\ v = y
  <2>1. CASE <<v, u>> \in arcs /\ <<v, u>> \notin P /\ <<y, x>> \in arcs /\ <<y, x>> \notin P
    BY <1>13, <2>1 DEF Balanced
  <2>2. CASE <<u, v>> \in P /\ <<x, y>> \in P
    BY <1>5, <1>13, <2>2
  <2>3. CASE <<v, u>> \in arcs /\ <<v, u>> \notin P /\ <<x, y>> \in P
    BY <1>11, <1>12, <1>13, <2>3
  <2>4. CASE <<u, v>> \in P /\ <<y, x>> \in arcs /\ <<y, x>> \notin P
    BY <1>11, <1>12, <1>13, <2>4
  <2> QED
    BY <1>1, <1>13, <2>1, <2>2, <2>3, <2>4
<1> QED
  BY <1>7, <1>8, <1>9, <1>10, <1>13 DEF Balanced

-----------------------------------------------------------------------------
(* Potentials *)

DijkstraSearch == mode = "search" /\ engine = "dijkstra"
Plain == mode = "seed" \/ (mode = "search" /\ engine = "spfa")

\* With the potentials p no residual arc is negative: no cycle is.
Feasible(p) == \A u, v \in Nodes : <<u, v>> \in arcs => Cost(u, v) + p[u] - p[v] >= 0

\* Such potentials exist, and a search on plain costs respects them.
Priced ==
  \E p \in [Nodes -> Int] :
    /\ Feasible(p)
    /\ Plain => \A v \in DOMAIN dist : dist[v] + p[Source] - p[v] >= 0

\* The cost of reaching v by a finished search, in plain costs.
Delta(v) == IF DijkstraSearch THEN pot[v] + dist[v] ELSE dist[v]

\* A finished search has found distances: no arc undercuts them, and the arcs of
\* the tree attain them.
LEMMA Distances ==
  ASSUME Network, Residual, SearchTypes, SearchInv, queue = {}
  PROVE  /\ Delta(Source) = 0
         /\ \A v \in DOMAIN dist : Delta(v) \in Int
         /\ \A u \in DOMAIN dist, v \in Nodes : <<u, v>> \in arcs =>
              v \in DOMAIN dist /\ Cost(u, v) + Delta(u) - Delta(v) >= 0
         /\ \A v \in DOMAIN prev : Cost(prev[v], v) + Delta(prev[v]) - Delta(v) = 0
<1> USE DEF SearchInv
<1>1. \A v \in DOMAIN dist : dist[v] \in Int /\ pot[v] \in Int
  BY DEF SearchTypes
<1>2. \A v \in DOMAIN dist : Delta(v) \in Int
  BY <1>1 DEF Delta
<1>3. Delta(Source) = 0
  BY DEF Delta, Tree, SearchTypes
<1>4. ASSUME NEW u \in DOMAIN dist, NEW v \in DOMAIN dist, <<u, v>> \in arcs
      PROVE  /\ Cost(u, v) \in Int
             /\ Cost(u, v) + Delta(u) - Delta(v) = Weight(u, v) + dist[u] - dist[v]
  <2>1. Cost(u, v) \in Int
    BY <1>4, CostType
  <2>2. CASE DijkstraSearch
    <3>1. Weight(u, v) = Cost(u, v) + pot[u] - pot[v]
      BY <1>4, <2>2, WeightType DEF DijkstraSearch
    <3>2. Delta(u) = pot[u] + dist[u] /\ Delta(v) = pot[v] + dist[v]
      BY <2>2 DEF Delta
    <3> QED
      BY <1>1, <2>1, <3>1, <3>2
  <2>3. CASE ~DijkstraSearch
    <3>1. Weight(u, v) = Cost(u, v)
      BY <1>4, <2>3, WeightType DEF DijkstraSearch
    <3>2. Delta(u) = dist[u] /\ Delta(v) = dist[v]
      BY <2>3 DEF Delta
    <3> QED
      BY <1>1, <2>1, <3>1, <3>2
  <2> QED
    BY <2>2, <2>3
<1>5. ASSUME NEW u \in DOMAIN dist, NEW v \in Nodes, <<u, v>> \in arcs
      PROVE  v \in DOMAIN dist /\ Cost(u, v) + Delta(u) - Delta(v) >= 0
  <2>1. v \in DOMAIN dist /\ dist[v] <= dist[u] + Weight(u, v)
    BY <1>5 DEF Scanned
  <2>2. Weight(u, v) \in Int
    BY <1>5, WeightType
  <2>3. dist[u] \in Int /\ dist[v] \in Int
    BY <1>1, <2>1
  <2> QED
    BY <1>4, <1>5, <2>1, <2>2, <2>3
<1>6. ASSUME NEW v \in DOMAIN prev
      PROVE  Cost(prev[v], v) + Delta(prev[v]) - Delta(v) = 0
  <2> DEFINE u == prev[v]
  <2>1. /\ v \in DOMAIN dist /\ u \in DOMAIN dist /\ <<u, v>> \in arcs
        /\ dist[v] = dist[u] + Weight(u, v)
    BY DEF Tree
  <2>2. Weight(u, v) \in Int
    BY <2>1, WeightType
  <2>3. dist[u] \in Int /\ dist[v] \in Int
    BY <1>1, <2>1
  <2> QED
    BY <1>4, <2>1, <2>2, <2>3
<1> QED
  BY <1>2, <1>3, <1>5, <1>6

\* The distances stay potentials for the arcs out of reached nodes when the path
\* is augmented: the arcs that appear are opposites of arcs that attain them.
LEMMA AugmentedDistances ==
  ASSUME Network, Residual, SearchTypes, SearchInv, queue = {}, Sink \in DOMAIN dist,
         NEW u, NEW v, <<u, v>> \in Augmented(Path)
  PROVE  /\ u \in Nodes /\ v \in Nodes /\ Cost(u, v) \in Int
         /\ u \in DOMAIN dist => v \in DOMAIN dist /\ Cost(u, v) + Delta(u) - Delta(v) >= 0
         /\ u \notin DOMAIN dist => <<u, v>> \in arcs
<1>1. \A a \in Path : /\ a \in arcs /\ a = <<a[1], a[2]>>
                      /\ a[1] \in DOMAIN dist /\ a[2] \in DOMAIN prev /\ prev[a[2]] = a[1]
  BY PathIsSimple DEF SearchInv
<1>2. <<u, v>> \in arcs \/ <<v, u>> \in Path
  BY <1>1, Flipped
<1>3. CASE <<u, v>> \in arcs
  BY <1>3, CostType, Distances
<1>4. CASE <<v, u>> \in Path
  <2>1. <<v, u>> \in arcs /\ v \in DOMAIN dist /\ u \in DOMAIN prev /\ prev[u] = v
    BY <1>1, <1>4
  <2>2. u \in DOMAIN dist /\ u \in Nodes /\ v \in Nodes
    BY <2>1 DEF SearchTypes
  <2>3. Cost(v, u) \in Int /\ Cost(u, v) = -Cost(v, u)
    BY <2>1, CostType
  <2>4. Cost(v, u) + Delta(v) - Delta(u) = 0 /\ Delta(v) \in Int /\ Delta(u) \in Int
    BY <2>1, <2>2, Distances
  <2> QED
    BY <2>1, <2>2, <2>3, <2>4
<1> QED
  BY <1>2, <1>3, <1>4

\* Whole numbers given to the nodes have an upper bound.
LEMMA Bounded ==
  ASSUME NEW g \in [Nodes -> Int]
  PROVE  \E k \in Int : \A v \in Nodes : g[v] <= k
<1> DEFINE G == {n \in Nat : \E k \in Int : \A v \in Nodes : v <= n => g[v] <= k}
<1>1. Nodes \subseteq Nat /\ Sink \in Nat /\ \A v \in Nodes : v <= Sink
  BY MinCostFlowAssumption DEF Nodes, Source, Sink
<1>2. 0 \in G
  <2>1. 0 \in Nodes
    BY NodeRanges DEF Source
  <2>2. g[0] \in Int /\ \A v \in Nodes : v <= 0 => g[v] <= g[0]
    BY <1>1, <2>1
  <2> QED
    BY <2>2
<1>3. ASSUME NEW n \in Nat, n \in G PROVE n + 1 \in G
  <2>1. PICK k \in Int : \A v \in Nodes : v <= n => g[v] <= k
    BY <1>3
  <2>2. CASE n + 1 \in Nodes
    <3> DEFINE j == IF g[n + 1] <= k THEN k ELSE g[n + 1]
    <3>1. j \in Int /\ k <= j /\ g[n + 1] <= j
      BY <2>2
    <3>2. ASSUME NEW v \in Nodes, v <= n + 1 PROVE g[v] <= j
      <4>1. g[v] \in Int /\ (v <= n \/ v = n + 1)
        BY <1>1, <3>2
      <4>2. v <= n => g[v] <= k
        BY <2>1
      <4> HIDE DEF j
      <4> QED
        BY <3>1, <4>1, <4>2
    <3> HIDE DEF j
    <3> QED
      BY <3>1, <3>2
  <2>3. CASE n + 1 \notin Nodes
    <3>1. \A v \in Nodes : v <= n + 1 => v <= n
      BY <1>1, <2>3
    <3> QED
      BY <2>1, <3>1
  <2> QED
    BY <2>2, <2>3
<1> HIDE DEF G
<1>4. Sink \in G
  BY <1>1, <1>2, <1>3, NatSteps
<1> QED
  BY <1>1, <1>4 DEF G

\* After an augmentation there are feasible potentials again: the distances where
\* the search came, and the old potentials elsewhere, raised above them.
LEMMA Repriced ==
  ASSUME Network, Residual, SearchTypes, SearchInv, queue = {}, Sink \in DOMAIN dist,
         NEW p \in [Nodes -> Int], Feasible(p), arcs' = Augmented(Path), price' = price
  PROVE  \E q \in [Nodes -> Int] : Feasible(q)'
<1> DEFINE D == DOMAIN dist
           g == [v \in Nodes |-> IF v \in D THEN Delta(v) - p[v] ELSE 0]
<1>1. \A v \in D : v \in Nodes /\ Delta(v) \in Int
  BY Distances DEF SearchTypes
<1>2. g \in [Nodes -> Int]
  BY <1>1
<1>3. PICK k \in Int : \A v \in Nodes : g[v] <= k
  <2> HIDE DEF g
  <2> QED
    BY <1>2, Bounded
<1>4. \A v \in D : Delta(v) - p[v] <= k
  BY <1>1, <1>3
<1> DEFINE q == [v \in Nodes |-> IF v \in D THEN Delta(v) ELSE p[v] + k]
<1>5. q \in [Nodes -> Int]
  BY <1>1
<1>6. \A u, v : Cost(u, v)' = Cost(u, v)
  BY DEF Cost
<1>7. ASSUME NEW u \in Nodes, NEW v \in Nodes, <<u, v>> \in Augmented(Path)
      PROVE  Cost(u, v) + q[u] - q[v] >= 0
  <2>1. CASE u \in D
    <3>1. v \in D /\ Cost(u, v) + Delta(u) - Delta(v) >= 0
      BY <1>7, <2>1, AugmentedDistances
    <3> QED
      BY <2>1, <3>1
  <2>2. CASE u \notin D
    <3>1. <<u, v>> \in arcs
      BY <1>7, <2>2, AugmentedDistances
    <3>2. Cost(u, v) \in Int /\ Cost(u, v) + p[u] - p[v] >= 0 /\ p[u] \in Int /\ p[v] \in Int
      BY <3>1, CostType DEF Feasible
    <3>3. q[u] = p[u] + k
      BY <2>2
    <3>4. CASE v \in D
      <4>1. q[v] = Delta(v) /\ Delta(v) \in Int /\ Delta(v) - p[v] <= k
        BY <1>1, <1>4, <3>4
      <4> HIDE DEF q
      <4> QED
        BY <3>2, <3>3, <4>1
    <3>5. CASE v \notin D
      <4>1. q[v] = p[v] + k
        BY <3>5
      <4> HIDE DEF q
      <4> QED
        BY <3>2, <3>3, <4>1
    <3> QED
      BY <3>4, <3>5
  <2> QED
    BY <2>1, <2>2
<1> HIDE DEF q
<1>8. PICK r \in [Nodes -> Int] : r = q
  BY <1>5
<1>9. ASSUME NEW u \in Nodes, NEW v \in Nodes, <<u, v>> \in arcs'
      PROVE  Cost(u, v)' + r[u] - r[v] >= 0
  BY <1>6, <1>7, <1>8, <1>9
<1>10. Feasible(r)'
  BY <1>9 DEF Feasible
<1> QED
  BY <1>10

-----------------------------------------------------------------------------
(* The solver *)

\* The nodes of the last search are cut off from the sink.
Cut ==
  /\ Source \in DOMAIN dist /\ Sink \notin DOMAIN dist
  /\ \A u \in DOMAIN dist, v \in Nodes : <<u, v>> \in arcs => v \in DOMAIN dist

SolverInv ==
  /\ Network /\ Residual /\ Balanced /\ SearchTypes /\ Priced
  /\ mode \in {"seed", "search"} => SearchInv
  /\ DijkstraSearch => Ordered /\ \E C \in SUBSET Nodes : Guide(C, NoPotential)
  /\ mode = "done" => Cut

\* A search begins at the source.
LEMMA SearchBegins ==
  ASSUME BeginSearch
  PROVE  /\ DOMAIN dist' = {Source} /\ dist'[Source] = 0
         /\ DOMAIN prev' = {} /\ queue' = {Source} /\ settled' = {}
         /\ SearchInv' /\ Ordered'
<1>1. /\ DOMAIN dist' = {Source} /\ dist'[Source] = 0
      /\ DOMAIN prev' = {} /\ queue' = {Source} /\ settled' = {}
  BY DEF BeginSearch
<1>2. Tree'
  BY <1>1 DEF Tree
<1>3. Scanned'
  BY <1>1 DEF Scanned
<1>4. Grounded'
  BY <1>1 DEF Grounded
<1>5. Ordered'
  BY <1>1 DEF Ordered
<1> QED
  BY <1>1, <1>2, <1>3, <1>4, <1>5 DEF SearchInv

\* Without a network there is nothing to go wrong.
LEMMA NoNetwork ==
  ASSUME price = <<>>, arcs = {}, engine = "spfa", mode = "off", dist = <<>>, prev = <<>>,
         queue = {}, settled = {}, pot = NoPotential, flow = 0, cost = 0
  PROVE  SolverInv
<1>1. DOMAIN price = {} /\ DOMAIN dist = {} /\ DOMAIN prev = {}
  OBVIOUS
<1>2. NoPotential \in [Nodes -> Int] /\ NoPotential[Source] = 0
  BY NodeRanges DEF NoPotential
<1>3. Network /\ Residual /\ Balanced
  BY <1>1 DEF Network, Residual, Balanced
<1>4. SearchTypes
  BY <1>1, <1>2 DEF SearchTypes
<1>5. Priced
  BY <1>1, <1>2 DEF Priced, Feasible, Plain
<1> QED
  BY <1>3, <1>4, <1>5 DEF SolverInv, DijkstraSearch

\* Every solve starts with potentials that are feasible: no price is negative.
LEMMA StartInv ==
  ASSUME NEW graph, NEW eng \in {"spfa", "dijkstra"}, Start(graph, eng), Network'
  PROVE  SolverInv'
<1>1. /\ price' = graph /\ arcs' = DOMAIN price' /\ engine' = eng
      /\ mode' = IF eng = "dijkstra" THEN "seed" ELSE "search"
      /\ pot' = NoPotential /\ flow' = 0 /\ cost' = 0
      /\ BeginSearch
  BY DEF Start
<1>2. /\ DOMAIN dist' = {Source} /\ dist'[Source] = 0
      /\ DOMAIN prev' = {} /\ queue' = {Source} /\ settled' = {} /\ SearchInv'
  BY <1>1, SearchBegins
<1>3. NoPotential \in [Nodes -> Int] /\ \A v \in Nodes : NoPotential[v] = 0
  BY DEF NoPotential
<1>4. arcs' \subseteq NetArcs
  BY <1>1 DEF Network
<1>5. \A a \in NetArcs : Opposite(a) \notin NetArcs
  BY OneWay
<1>6. Residual'
  BY <1>1, <1>4, <1>5 DEF Residual
<1>7. Balanced'
  <2>1. ASSUME NEW u \in RiderNodes PROVE <<u, Source>> \notin arcs'
    BY <1>4, NodeRanges DEF NetArcs
  <2>2. ASSUME NEW v \in DriverNodes PROVE <<Sink, v>> \notin arcs'
    BY <1>4, NodeRanges DEF NetArcs
  <2>3. ASSUME NEW u \in RiderNodes, NEW v \in DriverNodes PROVE <<v, u>> \notin arcs'
    BY <1>4, NodeRanges DEF NetArcs
  <2> QED
    BY <2>1, <2>2, <2>3 DEF Balanced
<1>8. SearchTypes'
  BY <1>1, <1>2, <1>3, NodeRanges DEF SearchTypes
<1>9. Priced'
  <2>1. ASSUME NEW u \in Nodes, NEW v \in Nodes, <<u, v>> \in arcs'
        PROVE  Cost(u, v)' + NoPotential[u] - NoPotential[v] >= 0
    <3>1. Cost(u, v)' \in Nat
      BY <1>1, <2>1 DEF Cost, Network
    <3> QED
      BY <1>3, <3>1
  <2>2. ASSUME NEW v \in DOMAIN dist' PROVE dist'[v] + NoPotential[Source] - NoPotential[v] >= 0
    BY <1>2, <1>3, NodeRanges
  <2>3. PICK p \in [Nodes -> Int] : p = NoPotential
    BY <1>3
  <2>4. Feasible(p)'
    BY <2>1, <2>3 DEF Feasible
  <2> QED
    BY <2>2, <2>3, <2>4 DEF Priced
<1>10. ~DijkstraSearch' /\ mode' # "done"
  BY <1>1 DEF DijkstraSearch
<1> QED
  BY <1>2, <1>6, <1>7, <1>8, <1>9, <1>10 DEF SolverInv

\* The types of what a pop changes.
LEMMA PopTypes ==
  ASSUME Network, Residual, SearchTypes, Tree, NEW C, NEW p \in [Nodes -> Int], Guide(C, p),
         NEW u, Pop(u), settled' \subseteq DOMAIN dist'
  PROVE  SearchTypes'
<1>1. /\ u \in DOMAIN dist /\ DOMAIN dist' = DOMAIN dist \cup Better(u)
      /\ DOMAIN prev' = DOMAIN prev \cup Better(u) /\ Better(u) \subseteq Nodes
  BY RelaxFacts DEF Pop
<1>2. ASSUME NEW v \in DOMAIN dist' PROVE dist'[v] \in Int
  <2>1. CASE v \in Better(u)
    <3>1. dist'[v] = dist[u] + Weight(u, v) /\ Weight(u, v) \in Int
      BY <2>1, RelaxFacts DEF Pop
    <3>2. dist[u] \in Int
      BY <1>1 DEF SearchTypes
    <3> QED
      BY <3>1, <3>2
  <2>2. CASE v \notin Better(u)
    <3>1. v \in DOMAIN dist /\ dist'[v] = dist[v]
      BY <1>1, <2>2, RelaxFacts DEF Pop
    <3> QED
      BY <3>1 DEF SearchTypes
  <2> QED
    BY <2>1, <2>2
<1>3. /\ queue' = (queue \ {u}) \cup Better(u)
      /\ UNCHANGED <<price, arcs, engine, mode, pot, flow, cost>>
  BY DEF Pop
<1> QED
  BY <1>1, <1>2, <1>3 DEF SearchTypes

\* A pass of bellmanFord's loop.
LEMMA BellmanFordInv ==
  ASSUME SolverInv, NEW u \in Nodes, BellmanFordPop(u)
  PROVE  SolverInv'
<1>1. /\ Plain /\ Pop(u) /\ settled' = settled /\ mode \in {"seed", "search"}
      /\ UNCHANGED <<price, arcs, engine, mode, pot, flow, cost>>
  BY DEF BellmanFordPop, Plain, Pop
<1>2. Network /\ Residual /\ SearchTypes /\ SearchInv /\ Balanced
  BY <1>1 DEF SolverInv
<1>3. PICK p \in [Nodes -> Int] :
        Feasible(p) /\ \A v \in DOMAIN dist : dist[v] + p[Source] - p[v] >= 0
  BY <1>1 DEF SolverInv, Priced
<1>4. ~DijkstraSearch
  BY <1>1 DEF Plain, DijkstraSearch
<1>5. Guide(Nodes, p)
  <2>1. \A x, y \in Nodes : <<x, y>> \in arcs => Weight(x, y) = Cost(x, y)
    BY <1>2, <1>4, WeightType DEF DijkstraSearch
  <2> QED
    BY <1>2, <1>3, <2>1 DEF Guide, Feasible, SearchTypes
<1>6. SearchInv' /\ Guide(Nodes, p)'
  BY <1>1, <1>2, <1>5, PopInv
<1>7. SearchTypes'
  <2>1. DOMAIN dist' = DOMAIN dist \cup Better(u)
    BY <1>1, <1>2, <1>5, RelaxFacts DEF Pop, SearchInv
  <2>2. settled' \subseteq DOMAIN dist'
    BY <1>1, <1>2, <2>1 DEF SearchTypes
  <2> QED
    BY <1>1, <1>2, <1>5, <2>2, PopTypes DEF SearchInv
<1>8. Network' /\ Residual' /\ Balanced' /\ Feasible(p)'
  <2>1. Network'
    BY <1>1, <1>2 DEF Network
  <2>2. Residual'
    BY <1>1, <1>2 DEF Residual
  <2>3. Balanced'
    BY <1>1, <1>2 DEF Balanced
  <2>4. Feasible(p)'
    BY <1>1, <1>3 DEF Feasible, Cost
  <2> QED
    BY <2>1, <2>2, <2>3, <2>4
<1>9. Priced'
  BY <1>6, <1>8 DEF Priced, Guide
<1>10. ~DijkstraSearch' /\ mode' # "done"
  BY <1>1, <1>4 DEF DijkstraSearch
<1> QED
  BY <1>6, <1>7, <1>8, <1>9, <1>10 DEF SolverInv

\* A pass of Dijkstra's loop.
LEMMA DijkstraInv ==
  ASSUME SolverInv, NEW u \in Nodes, DijkstraPop(u)
  PROVE  SolverInv'
<1>1. /\ DijkstraSearch /\ mode = "search" /\ settled' = settled \cup {u} /\ u \in queue
      /\ UNCHANGED <<price, arcs, engine, mode, pot, flow, cost>>
  BY DEF DijkstraPop, DijkstraSearch
<1>2. Network /\ Residual /\ SearchTypes /\ SearchInv /\ Balanced /\ Ordered
  BY <1>1 DEF SolverInv
<1>3. PICK C \in SUBSET Nodes : Guide(C, NoPotential)
  BY <1>1 DEF SolverInv
<1>4. NoPotential \in [Nodes -> Int]
  BY DEF NoPotential
<1>5. Pop(u) /\ Ordered'
  BY <1>2, <1>3, DijkstraIsPop DEF SearchInv
<1>6. SearchInv' /\ Guide(C, NoPotential)'
  BY <1>2, <1>3, <1>4, <1>5, PopInv
<1>7. SearchTypes'
  <2>1. settled' \subseteq DOMAIN dist'
    BY <1>5 DEF Ordered
  <2> QED
    BY <1>2, <1>3, <1>4, <1>5, <2>1, PopTypes DEF SearchInv
<1>8. Network' /\ Residual' /\ Balanced' /\ ~Plain' /\ DijkstraSearch'
  <2>1. Network'
    BY <1>1, <1>2 DEF Network
  <2>2. Residual'
    BY <1>1, <1>2 DEF Residual
  <2>3. Balanced'
    BY <1>1, <1>2 DEF Balanced
  <2>4. ~Plain' /\ DijkstraSearch'
    BY <1>1 DEF Plain, DijkstraSearch
  <2> QED
    BY <2>1, <2>2, <2>3, <2>4
<1>9. Priced'
  <2>1. PICK p \in [Nodes -> Int] : Feasible(p)
    BY DEF SolverInv, Priced
  <2>2. Feasible(p)'
    BY <1>1, <2>1 DEF Feasible, Cost
  <2> QED
    BY <1>8, <2>2 DEF Priced
<1>10. mode' # "done"
  BY <1>1
<1> QED
  BY <1>5, <1>6, <1>7, <1>8, <1>9, <1>10 DEF SolverInv

\* The seed: distances are potentials of everything that can be reached.
LEMMA SeedInv ==
  ASSUME SolverInv, Seed
  PROVE  SolverInv'
<1>1. /\ mode = "seed" /\ queue = {} /\ mode' = "search" /\ BeginSearch
      /\ pot' = [v \in Nodes |-> IF v \in DOMAIN dist THEN dist[v] ELSE 0]
      /\ UNCHANGED <<price, arcs, engine, flow, cost>>
  BY DEF Seed
<1>2. Network /\ Residual /\ SearchTypes /\ SearchInv /\ Balanced
  BY <1>1 DEF SolverInv
<1>3. /\ DOMAIN dist' = {Source} /\ dist'[Source] = 0
      /\ DOMAIN prev' = {} /\ queue' = {Source} /\ settled' = {} /\ SearchInv' /\ Ordered'
  BY <1>1, SearchBegins
<1>4. Network' /\ Residual' /\ Balanced'
  <2>1. Network'
    BY <1>1, <1>2 DEF Network
  <2>2. Residual'
    BY <1>1, <1>2 DEF Residual
  <2>3. Balanced'
    BY <1>1, <1>2 DEF Balanced
  <2> QED
    BY <2>1, <2>2, <2>3
<1>5. \A v \in DOMAIN dist : v \in Nodes /\ dist[v] \in Int /\ pot'[v] = dist[v]
  BY <1>1, <1>2 DEF SearchTypes
<1>6. Source \in DOMAIN dist /\ dist[Source] = 0
  BY <1>2 DEF SearchInv, Tree
<1>7. SearchTypes'
  <2>1. pot' \in [Nodes -> Int]
    BY <1>1, <1>2 DEF SearchTypes
  <2>2. pot'[Source] = 0
    BY <1>5, <1>6
  <2> QED
    BY <1>1, <1>2, <1>3, <2>1, <2>2, NodeRanges DEF SearchTypes
<1>8. Priced'
  <2>1. PICK p \in [Nodes -> Int] : Feasible(p)
    BY DEF SolverInv, Priced
  <2>2. Feasible(p)'
    BY <1>1, <2>1 DEF Feasible, Cost
  <2>3. \A v \in DOMAIN dist' : dist'[v] + p[Source] - p[v] >= 0
    BY <1>3, NodeRanges
  <2> QED
    BY <2>2, <2>3 DEF Priced
<1>9. ASSUME DijkstraSearch' PROVE \E C \in SUBSET Nodes : Guide(C, NoPotential)'
  <2>1. PICK C \in SUBSET Nodes : C = DOMAIN dist
    BY <1>2 DEF SearchTypes
  <2>2. \A v \in Nodes : NoPotential[v] = 0
    BY DEF NoPotential
  <2>3. ASSUME NEW u \in C, NEW v \in Nodes, <<u, v>> \in arcs'
        PROVE  v \in C /\ Weight(u, v)' + NoPotential[u] - NoPotential[v] >= 0
    <3>1. <<u, v>> \in arcs /\ u \in DOMAIN dist /\ ~DijkstraSearch
      BY <1>1, <2>1, <2>3 DEF DijkstraSearch
    <3>2. v \in DOMAIN dist /\ Cost(u, v) + Delta(u) - Delta(v) >= 0
      BY <1>1, <1>2, <3>1, Distances
    <3>3. Delta(u) = dist[u] /\ Delta(v) = dist[v]
      BY <3>1 DEF Delta
    <3>4. Weight(u, v)' = Cost(u, v) + pot'[u] - pot'[v]
      BY <1>1, <1>9 DEF Weight, Cost, DijkstraSearch
    <3>5. Weight(u, v)' = Cost(u, v) + dist[u] - dist[v] /\ Cost(u, v) \in Int
      BY <1>2, <1>5, <3>1, <3>2, <3>4, CostType
    <3> QED
      BY <1>5, <2>1, <2>2, <3>1, <3>2, <3>3, <3>5
  <2>4. \A v \in DOMAIN dist' : v \in C /\ dist'[v] + NoPotential[Source] - NoPotential[v] >= 0
    BY <1>3, <1>6, <2>1, <2>2, NodeRanges
  <2> QED
    BY <2>3, <2>4 DEF Guide
<1>10. mode' # "done"
  BY <1>1
<1> QED
  BY <1>3, <1>4, <1>7, <1>8, <1>9, <1>10 DEF SolverInv

\* One unit of flow more.
LEMMA AugmentInv ==
  ASSUME SolverInv, Augment
  PROVE  SolverInv'
<1>1. /\ mode = "search" /\ queue = {} /\ Sink \in DOMAIN dist /\ BeginSearch
      /\ arcs' = Augmented(Path) /\ flow' = flow + 1
      /\ UNCHANGED <<price, engine, mode>>
  BY DEF Augment
<1>2. \/ engine = "spfa" /\ cost' = cost + dist[Sink] /\ UNCHANGED pot
      \/ engine = "dijkstra" /\ pot' = Rolled /\ cost' = cost + Rolled[Sink]
  BY DEF Augment
<1>3. Network /\ Residual /\ SearchTypes /\ SearchInv /\ Balanced
  BY <1>1 DEF SolverInv
<1>4. /\ DOMAIN dist' = {Source} /\ dist'[Source] = 0
      /\ DOMAIN prev' = {} /\ queue' = {Source} /\ settled' = {} /\ SearchInv' /\ Ordered'
  BY <1>1, SearchBegins
<1>5. Simple(Path) /\ Path \in SUBSET arcs /\ \A a \in Path : a = <<a[1], a[2]>>
  BY <1>1, <1>3, PathIsSimple DEF SearchInv
<1>6. Network'
  BY <1>1, <1>3 DEF Network
<1>7. Residual'
  BY <1>1, <1>3, <1>5, AugmentResidual
<1>8. Balanced'
  BY <1>1, <1>3, <1>5, AugmentBalanced
<1>9. /\ Rolled \in [Nodes -> Int]
      /\ \A v \in DOMAIN dist : v \in Nodes /\ dist[v] \in Int /\ Rolled[v] = pot[v] + dist[v]
  BY <1>3 DEF SearchTypes, Rolled
<1>10. Source \in DOMAIN dist /\ dist[Source] = 0
  BY <1>3 DEF SearchInv, Tree
<1>11. SearchTypes'
  <2>1. pot' \in [Nodes -> Int] /\ pot'[Source] = 0
    BY <1>2, <1>3, <1>9, <1>10 DEF SearchTypes
  <2>2. cost' \in Int
    <3>1. cost \in Int /\ dist[Sink] \in Int /\ Rolled[Sink] \in Int
      BY <1>1, <1>3, <1>9 DEF SearchTypes
    <3> QED
      BY <1>2, <3>1
  <2>3. flow' \in Nat /\ engine' \in {"spfa", "dijkstra"} /\ mode' \in {"off", "seed", "search", "done"}
    BY <1>1, <1>3 DEF SearchTypes
  <2> QED
    BY <1>4, <2>1, <2>2, <2>3, NodeRanges DEF SearchTypes
<1>12. Priced'
  <2>1. PICK p \in [Nodes -> Int] : Feasible(p)
    BY DEF SolverInv, Priced
  <2>2. PICK q \in [Nodes -> Int] : Feasible(q)'
    BY <1>1, <1>3, <2>1, Repriced
  <2>3. \A v \in DOMAIN dist' : dist'[v] + q[Source] - q[v] >= 0
    BY <1>4, NodeRanges
  <2> QED
    BY <2>2, <2>3 DEF Priced
<1>13. ASSUME DijkstraSearch' PROVE \E C \in SUBSET Nodes : Guide(C, NoPotential)'
  <2>1. PICK C \in SUBSET Nodes : C = DOMAIN dist
    BY <1>3 DEF SearchTypes
  <2>2. \A v \in Nodes : NoPotential[v] = 0
    BY DEF NoPotential
  <2>3. DijkstraSearch /\ pot' = Rolled
    BY <1>1, <1>2, <1>13 DEF DijkstraSearch
  <2>4. ASSUME NEW u \in C, NEW v \in Nodes, <<u, v>> \in arcs'
        PROVE  v \in C /\ Weight(u, v)' + NoPotential[u] - NoPotential[v] >= 0
    <3>1. v \in DOMAIN dist /\ Cost(u, v) + Delta(u) - Delta(v) >= 0
      BY <1>1, <1>3, <2>1, <2>4, AugmentedDistances
    <3>2. Delta(u) = pot'[u] /\ Delta(v) = pot'[v]
      BY <1>9, <2>1, <2>3, <3>1 DEF Delta
    <3>3. Weight(u, v)' = Cost(u, v) + pot'[u] - pot'[v]
      BY <1>1, <1>13 DEF Weight, Cost, DijkstraSearch
    <3>4. Weight(u, v)' >= 0
      <4>1. Cost(u, v) + pot'[u] - pot'[v] >= 0
        BY <3>1, <3>2
      <4> QED
        BY <3>3, <4>1
    <3>5. Cost(u, v) \in Int
      BY <1>1, <1>3, <2>4, AugmentedDistances
    <3>6. Weight(u, v)' \in Int
      <4>1. pot'[u] \in Int /\ pot'[v] \in Int
        BY <1>9, <2>3
      <4> QED
        BY <3>3, <3>5, <4>1
    <3> QED
      BY <2>1, <2>2, <3>1, <3>4, <3>6
  <2>5. \A v \in DOMAIN dist' : v \in C /\ dist'[v] + NoPotential[Source] - NoPotential[v] >= 0
    BY <1>4, <1>10, <2>1, <2>2, NodeRanges
  <2> QED
    BY <2>4, <2>5 DEF Guide
<1>14. mode' # "done"
  BY <1>1
<1> QED
  BY <1>4, <1>6, <1>7, <1>8, <1>11, <1>12, <1>13, <1>14 DEF SolverInv

\* The flow is maximal.
LEMMA NoPathInv ==
  ASSUME SolverInv, NoPath
  PROVE  SolverInv'
<1>1. /\ mode = "search" /\ queue = {} /\ Sink \notin DOMAIN dist /\ mode' = "done"
      /\ UNCHANGED <<price, arcs, engine, dist, prev, queue, settled, pot, flow, cost>>
  BY DEF NoPath
<1>2. Network /\ Residual /\ SearchTypes /\ SearchInv /\ Balanced
  BY <1>1 DEF SolverInv
<1>3. Network' /\ Residual' /\ Balanced'
  <2>1. Network'
    BY <1>1, <1>2 DEF Network
  <2>2. Residual'
    BY <1>1, <1>2 DEF Residual
  <2>3. Balanced'
    BY <1>1, <1>2 DEF Balanced
  <2> QED
    BY <2>1, <2>2, <2>3
<1>4. SearchTypes'
  BY <1>1, <1>2 DEF SearchTypes
<1>5. Priced'
  <2>1. PICK p \in [Nodes -> Int] : Feasible(p)
    BY DEF SolverInv, Priced
  <2>2. Feasible(p)'
    BY <1>1, <2>1 DEF Feasible, Cost
  <2> QED
    BY <1>1, <2>2 DEF Priced, Plain
<1>6. Cut'
  BY <1>1, <1>2 DEF Cut, SearchInv, Tree, Scanned
<1>7. ~DijkstraSearch' /\ mode' \notin {"seed", "search"}
  BY <1>1 DEF DijkstraSearch
<1> QED
  BY <1>3, <1>4, <1>5, <1>6, <1>7 DEF SolverInv

\* The solver keeps its invariant.
THEOREM SolverKeepsInv ==
  ASSUME SolverInv, SolverStep
  PROVE  SolverInv'
BY BellmanFordInv, DijkstraInv, SeedInv, AugmentInv, NoPathInv DEF SolverStep

\* What Dijkstra has settled is final.
THEOREM SolverSettles == SolverInv => SettledIsFinal
<1> SUFFICES ASSUME SolverInv, DijkstraSearch, NEW u \in settled, NEW v \in Nodes, <<u, v>> \in arcs
             PROVE  /\ v \in DOMAIN dist /\ dist[v] <= dist[u] + Weight(u, v)
                    /\ v \in settled \/ dist[u] <= dist[v]
  BY DEF SettledIsFinal, DijkstraSearch
<1>1. SearchInv /\ Ordered /\ SearchTypes
  BY DEF SolverInv, DijkstraSearch
<1>2. u \in DOMAIN dist \ queue
  BY <1>1 DEF Ordered
<1>3. v \in DOMAIN dist /\ dist[v] <= dist[u] + Weight(u, v)
  BY <1>1, <1>2 DEF SearchInv, Scanned
<1> QED
  BY <1>1, <1>3 DEF Ordered

-----------------------------------------------------------------------------
(* Sums over finite sets *)

Sum(f, S) == FoldSet(LAMBDA x, s : f[x] + s, 0, S)

Pick(s) == CHOOSE x \in s : TRUE

\* g adds up f over the sets of B, which holds with a set what is left of it.
Adds(g, f, B) == g = [s \in B |-> IF s = {} THEN 0 ELSE f[Pick(s)] + g[s \ {Pick(s)}]]

Upto(S, n) == {s \in SUBSET S : Cardinality(s) <= n}

\* What is picked belongs to the set, and leaves a smaller one.
LEMMA PickLess ==
  ASSUME NEW S, IsFiniteSet(S), NEW n \in Nat, NEW s \in SUBSET S, s # {}, Cardinality(s) <= n + 1
  PROVE  Pick(s) \in s /\ IsFiniteSet(s) /\ s \ {Pick(s)} \in Upto(S, n)
<1>1. Pick(s) \in s
  BY DEF Pick
<1>2. IsFiniteSet(s) /\ Cardinality(s) \in Nat
  BY FS_Subset, FS_CardinalityType
<1>3. Cardinality(s \ {Pick(s)}) = Cardinality(s) - 1
  BY <1>1, <1>2, FS_RemoveElement
<1>4. Cardinality(s \ {Pick(s)}) <= n
  BY <1>2, <1>3
<1> QED
  BY <1>1, <1>2, <1>4 DEF Upto

\* Sums exist: the recursion of the fold is well founded.
LEMMA SumsExist ==
  ASSUME NEW f, NEW S, IsFiniteSet(S)
  PROVE  \E g : Adds(g, f, SUBSET S)
<1> DEFINE G == {n \in Nat : \E g : Adds(g, f, Upto(S, n))}
<1>1. 0 \in G
  <2>1. Upto(S, 0) = {{}}
    <3>1. \A s \in SUBSET S : Cardinality(s) <= 0 <=> s = {}
      <4> TAKE s \in SUBSET S
      <4>1. IsFiniteSet(s) /\ Cardinality(s) \in Nat
        BY FS_Subset, FS_CardinalityType
      <4>2. Cardinality(s) = 0 <=> s = {}
        BY <4>1, FS_EmptySet
      <4> QED
        BY <4>1, <4>2
    <3> QED
      BY <3>1 DEF Upto
  <2> DEFINE g == [s \in {{}} |-> 0]
  <2>2. g = [s \in {{}} |-> IF s = {} THEN 0 ELSE f[Pick(s)] + g[s \ {Pick(s)}]]
    OBVIOUS
  <2>3. Adds(g, f, Upto(S, 0))
    BY <2>1, <2>2 DEF Adds
  <2> QED
    BY <2>3
<1>2. ASSUME NEW n \in Nat, n \in G PROVE n + 1 \in G
  <2>1. PICK g : Adds(g, f, Upto(S, n))
    BY <1>2
  <2> DEFINE B == Upto(S, n)
             C == Upto(S, n + 1)
             h == [s \in C |-> IF s \in B THEN g[s] ELSE f[Pick(s)] + g[s \ {Pick(s)}]]
  <2>2. \A s \in B : s \in C
    <3> SUFFICES ASSUME NEW s \in B PROVE s \in C
      OBVIOUS
    <3>1. s \in SUBSET S /\ Cardinality(s) \in Nat /\ Cardinality(s) <= n
      BY FS_Subset, FS_CardinalityType DEF Upto
    <3> QED
      BY <3>1 DEF Upto
  <2>3. ASSUME NEW s \in B PROVE h[s] = g[s]
    BY <2>2, <2>3
  <2>4. ASSUME NEW s \in C, s # {} PROVE s \ {Pick(s)} \in B
    BY <2>4, PickLess DEF Upto
  <2>5. {} \in B
    BY FS_EmptySet DEF Upto
  <2>6. ASSUME NEW s \in C
        PROVE  h[s] = IF s = {} THEN 0 ELSE f[Pick(s)] + h[s \ {Pick(s)}]
    <3>1. CASE s \in B
      <4>1. h[s] = g[s]
        BY <2>3, <3>1
      <4>2. g[s] = IF s = {} THEN 0 ELSE f[Pick(s)] + g[s \ {Pick(s)}]
        BY <2>1, <3>1 DEF Adds
      <4>3. s # {} => h[s \ {Pick(s)}] = g[s \ {Pick(s)}]
        BY <2>3, <2>4
      <4> HIDE DEF h
      <4> QED
        BY <4>1, <4>2, <4>3
    <3>2. CASE s \notin B
      <4>1. h[s] = f[Pick(s)] + g[s \ {Pick(s)}] /\ s # {}
        BY <2>5, <3>2
      <4>2. h[s \ {Pick(s)}] = g[s \ {Pick(s)}]
        BY <2>3, <2>4, <4>1
      <4> HIDE DEF h
      <4> QED
        BY <4>1, <4>2
    <3> QED
      BY <3>1, <3>2
  <2>7. h = [s \in C |-> h[s]]
    OBVIOUS
  <2> HIDE DEF h, C, B
  <2>8. h = [s \in C |-> IF s = {} THEN 0 ELSE f[Pick(s)] + h[s \ {Pick(s)}]]
    BY <2>6, <2>7
  <2>9. \E k : Adds(k, f, C)
    BY <2>8 DEF Adds
  <2> QED
    BY <2>9 DEF C
<1>3. Cardinality(S) \in Nat
  BY FS_CardinalityType
<1>4. Upto(S, Cardinality(S)) = SUBSET S
  BY FS_Subset DEF Upto
<1> HIDE DEF G
<1>5. Cardinality(S) \in G
  BY <1>1, <1>2, <1>3, NatSteps
<1> QED
  BY <1>4, <1>5 DEF G

\* The sum is what such a function gives the whole set.
LEMMA SumAdds ==
  ASSUME NEW f, NEW S, IsFiniteSet(S)
  PROVE  \E g : Adds(g, f, SUBSET S) /\ Sum(f, S) = g[S]
<1> DEFINE g == CHOOSE k : k = [s \in SUBSET S |-> IF s = {} THEN 0 ELSE f[Pick(s)] + k[s \ {Pick(s)}]]
<1>1. Adds(g, f, SUBSET S)
  <2>1. PICK k : Adds(k, f, SUBSET S)
    BY SumsExist
  <2>2. g = [s \in SUBSET S |-> IF s = {} THEN 0 ELSE f[Pick(s)] + g[s \ {Pick(s)}]]
    BY <2>1 DEF Adds
  <2> HIDE DEF g
  <2> QED
    BY <2>2 DEF Adds
<1>2. Sum(f, S) = g[S]
  BY DEF Sum, FoldSet, MapThenFoldSet, Pick
<1> HIDE DEF g
<1> QED
  BY <1>1, <1>2

\* Two such functions agree.
LEMMA AddsOnce ==
  ASSUME NEW f, NEW S, IsFiniteSet(S), NEW T \in SUBSET S, NEW g, NEW h,
         Adds(g, f, SUBSET S), Adds(h, f, SUBSET T)
  PROVE  \A s \in SUBSET T : g[s] = h[s]
<1> DEFINE G == {n \in Nat : \A s \in Upto(T, n) : g[s] = h[s]}
<1>1. IsFiniteSet(T) /\ Cardinality(T) \in Nat
  BY FS_Subset, FS_CardinalityType
<1>2. \A s \in SUBSET T : h[s] = IF s = {} THEN 0 ELSE f[Pick(s)] + h[s \ {Pick(s)}]
  BY DEF Adds
<1>3. \A s \in SUBSET S : g[s] = IF s = {} THEN 0 ELSE f[Pick(s)] + g[s \ {Pick(s)}]
  BY DEF Adds
<1>4. \A s \in SUBSET T : s \in SUBSET S
  OBVIOUS
<1>5. 0 \in G
  <2> SUFFICES ASSUME NEW s \in Upto(T, 0) PROVE g[s] = h[s]
    OBVIOUS
  <2>1. s \in SUBSET T /\ Cardinality(s) <= 0
    BY DEF Upto
  <2>2. IsFiniteSet(s) /\ Cardinality(s) \in Nat
    BY <1>1, <2>1, FS_Subset, FS_CardinalityType
  <2>3. s = {}
    BY <2>1, <2>2, FS_EmptySet
  <2> QED
    BY <1>2, <1>3, <1>4, <2>1, <2>3
<1>6. ASSUME NEW n \in Nat, n \in G PROVE n + 1 \in G
  <2> SUFFICES ASSUME NEW s \in Upto(T, n + 1) PROVE g[s] = h[s]
    OBVIOUS
  <2>1. s \in SUBSET T /\ Cardinality(s) <= n + 1
    BY DEF Upto
  <2>2. CASE s = {}
    BY <1>2, <1>3, <1>4, <2>1, <2>2
  <2>3. CASE s # {}
    <3>1. s \ {Pick(s)} \in Upto(T, n)
      BY <1>1, <2>1, <2>3, PickLess
    <3>2. g[s \ {Pick(s)}] = h[s \ {Pick(s)}]
      BY <1>6, <3>1
    <3>3. h[s] = f[Pick(s)] + h[s \ {Pick(s)}]
      BY <1>2, <2>1, <2>3
    <3>4. g[s] = f[Pick(s)] + g[s \ {Pick(s)}]
      BY <1>3, <1>4, <2>1, <2>3
    <3> QED
      BY <3>2, <3>3, <3>4
  <2> QED
    BY <2>2, <2>3
<1>7. Upto(T, Cardinality(T)) = SUBSET T
  BY <1>1, FS_Subset DEF Upto
<1> HIDE DEF G
<1>8. Cardinality(T) \in G
  BY <1>1, <1>5, <1>6, NatSteps
<1> QED
  BY <1>7, <1>8 DEF G

\* A sum is one of its terms and the sum of the others.
LEMMA SumPick ==
  ASSUME NEW f, NEW S, IsFiniteSet(S)
  PROVE  /\ S = {} => Sum(f, S) = 0
         /\ S # {} => Pick(S) \in S /\ Sum(f, S) = f[Pick(S)] + Sum(f, S \ {Pick(S)})
<1>1. PICK g : Adds(g, f, SUBSET S) /\ Sum(f, S) = g[S]
  BY SumAdds
<1>2. g[S] = IF S = {} THEN 0 ELSE f[Pick(S)] + g[S \ {Pick(S)}]
  BY <1>1 DEF Adds
<1>3. ASSUME S # {} PROVE Pick(S) \in S /\ Sum(f, S) = f[Pick(S)] + Sum(f, S \ {Pick(S)})
  <2>1. PICK T : T = S \ {Pick(S)}
    OBVIOUS
  <2>2. T \in SUBSET S /\ Pick(S) \in S
    BY <1>3, <2>1 DEF Pick
  <2>3. IsFiniteSet(T)
    BY <2>2, FS_Subset
  <2>4. PICK h : Adds(h, f, SUBSET T) /\ Sum(f, T) = h[T]
    BY <2>3, SumAdds
  <2>5. \A s \in SUBSET T : g[s] = h[s]
    <3>1. Adds(g, f, SUBSET S) /\ Adds(h, f, SUBSET T) /\ T \in SUBSET S
      BY <1>1, <2>2, <2>4
    <3> QED
      BY <3>1, AddsOnce, SMTT(60)
  <2>6. g[T] = h[T]
    BY <2>5
  <2> QED
    BY <1>1, <1>2, <1>3, <2>1, <2>2, <2>4, <2>6
<1> QED
  BY <1>1, <1>2, <1>3

\* Sums of whole numbers are whole numbers.
LEMMA SumType ==
  ASSUME NEW f, NEW S, IsFiniteSet(S), \A x \in S : f[x] \in Int
  PROVE  \A T \in SUBSET S : Sum(f, T) \in Int
<1> DEFINE G == {n \in Nat : \A T \in SUBSET S : Cardinality(T) = n => Sum(f, T) \in Int}
<1>1. \A T \in SUBSET S : IsFiniteSet(T) /\ Cardinality(T) \in Nat
  BY FS_Subset, FS_CardinalityType
<1>2. 0 \in G
  <2> SUFFICES ASSUME NEW T \in SUBSET S, Cardinality(T) = 0 PROVE Sum(f, T) \in Int
    OBVIOUS
  <2>1. T = {}
    BY <1>1, FS_EmptySet
  <2>2. Sum(f, T) = 0
    BY <1>1, <2>1, SumPick
  <2> QED
    BY <2>2
<1>3. ASSUME NEW n \in Nat, n \in G PROVE n + 1 \in G
  <2> SUFFICES ASSUME NEW T \in SUBSET S, Cardinality(T) = n + 1 PROVE Sum(f, T) \in Int
    OBVIOUS
  <2>1. IsFiniteSet(T) /\ T # {}
    BY <1>1, FS_EmptySet
  <2>2. PICK x \in T : Sum(f, T) = f[x] + Sum(f, T \ {x})
    BY <2>1, SumPick
  <2>3. Cardinality(T \ {x}) = (n + 1) - 1
    <3>1. Cardinality(T \ {x}) = Cardinality(T) - 1
      BY <2>1, FS_RemoveElement
    <3> QED
      BY <3>1
  <2>4. Sum(f, T \ {x}) \in Int /\ f[x] \in Int
    BY <1>3, <2>2, <2>3
  <2> QED
    BY <2>2, <2>4
<1> HIDE DEF G
<1>4. Nat \subseteq G
  BY <1>2, <1>3, NatSteps
<1> QED
  BY <1>1, <1>4 DEF G

\* Sums of whole numbers do not depend on the order.
LEMMA SumRemove ==
  ASSUME NEW f, NEW S, IsFiniteSet(S), \A x \in S : f[x] \in Int, NEW z \in S
  PROVE  Sum(f, S) = f[z] + Sum(f, S \ {z})
<1> DEFINE Good(T) == \A y \in T : Sum(f, T) = f[y] + Sum(f, T \ {y})
           G == {n \in Nat : \A T \in SUBSET S : Cardinality(T) = n => Good(T)}
<1>1. \A T \in SUBSET S : IsFiniteSet(T) /\ Cardinality(T) \in Nat /\ Sum(f, T) \in Int
  BY FS_Subset, FS_CardinalityType, SumType
<1>2. 0 \in G
  <2> SUFFICES ASSUME NEW T \in SUBSET S, Cardinality(T) = 0 PROVE Good(T)
    OBVIOUS
  <2>1. T = {}
    BY <1>1, FS_EmptySet
  <2> QED
    BY <2>1
<1>3. ASSUME NEW n \in Nat, n \in G PROVE n + 1 \in G
  <2> SUFFICES ASSUME NEW T \in SUBSET S, Cardinality(T) = n + 1, NEW y \in T
               PROVE  Sum(f, T) = f[y] + Sum(f, T \ {y})
    OBVIOUS
  <2>1. IsFiniteSet(T) /\ T # {}
    BY <1>1, FS_EmptySet
  <2>2. ASSUME NEW w \in T PROVE Good(T \ {w})
    <3>1. Cardinality(T \ {w}) = (n + 1) - 1
      BY <2>1, FS_RemoveElement
    <3>2. Cardinality(T \ {w}) = n /\ T \ {w} \in SUBSET S
      BY <3>1
    <3> QED
      BY <1>3, <3>2
  <2>3. PICK x \in T : Sum(f, T) = f[x] + Sum(f, T \ {x})
    BY <2>1, SumPick
  <2>4. CASE x = y
    BY <2>3, <2>4
  <2>5. CASE x # y
    <3> DEFINE U == (T \ {y}) \ {x}
    <3>1. U = (T \ {x}) \ {y}
      OBVIOUS
    <3>2. Sum(f, T \ {x}) = f[y] + Sum(f, U)
      BY <2>2, <2>3, <2>5, <3>1
    <3>3. Sum(f, T \ {y}) = f[x] + Sum(f, U)
      BY <2>2, <2>3, <2>5
    <3>4. f[x] \in Int /\ f[y] \in Int /\ Sum(f, U) \in Int
      BY <1>1, <2>3
    <3> HIDE DEF U
    <3> QED
      BY <2>3, <3>2, <3>3, <3>4
  <2> QED
    BY <2>4, <2>5
<1> HIDE DEF G
<1>4. Cardinality(S) \in G
  BY <1>1, <1>2, <1>3, NatSteps
<1> QED
  BY <1>4 DEF G

\* What holds of the empty set and goes on when an element is added holds of
\* every finite set.
LEMMA SetSteps ==
  ASSUME NEW S, IsFiniteSet(S), NEW G, {} \in G,
         \A T \in SUBSET S : \A x \in S : T \in G /\ x \notin T => T \cup {x} \in G
  PROVE  S \in G
<1> DEFINE N == {n \in Nat : \A T \in SUBSET S : Cardinality(T) = n => T \in G}
<1>1. \A T \in SUBSET S : IsFiniteSet(T) /\ Cardinality(T) \in Nat
  BY FS_Subset, FS_CardinalityType
<1>2. 0 \in N
  BY <1>1, FS_EmptySet
<1>3. ASSUME NEW n \in Nat, n \in N PROVE n + 1 \in N
  <2> SUFFICES ASSUME NEW T \in SUBSET S, Cardinality(T) = n + 1 PROVE T \in G
    OBVIOUS
  <2>1. IsFiniteSet(T) /\ T # {}
    BY <1>1, FS_EmptySet
  <2>2. PICK x \in T : TRUE
    BY <2>1
  <2>3. Cardinality(T \ {x}) = Cardinality(T) - 1
    BY <2>1, FS_RemoveElement
  <2>4. Cardinality(T \ {x}) = n
    BY <2>3
  <2>5. T \ {x} \in G /\ T \ {x} \in SUBSET S /\ x \in S /\ x \notin T \ {x}
    BY <1>3, <2>4
  <2>6. (T \ {x}) \cup {x} = T
    OBVIOUS
  <2>7. (T \ {x}) \cup {x} \in G
    BY <2>5
  <2> QED
    BY <2>6, <2>7
<1> HIDE DEF N
<1>4. Cardinality(S) \in N
  BY <1>1, <1>2, <1>3, NatSteps
<1> QED
  BY <1>4 DEF N

\* One term more.
LEMMA SumAdd ==
  ASSUME NEW f, NEW S, IsFiniteSet(S), NEW z, z \notin S, \A x \in S \cup {z} : f[x] \in Int
  PROVE  Sum(f, S \cup {z}) = f[z] + Sum(f, S)
<1>1. PICK T : T = S \cup {z}
  OBVIOUS
<1>2. IsFiniteSet(T) /\ z \in T /\ T \ {z} = S /\ \A x \in T : f[x] \in Int
  BY <1>1, FS_AddElement
<1>3. Sum(f, T) = f[z] + Sum(f, T \ {z})
  BY <1>2, SumRemove
<1> QED
  BY <1>1, <1>2, <1>3

\* Terms that are not negative make a sum no smaller, terms that are not positive
\* no larger.
LEMMA SumMore ==
  ASSUME NEW f, NEW S, IsFiniteSet(S), \A x \in S : f[x] \in Int, NEW T \in SUBSET S
  PROVE  /\ (\A x \in S \ T : f[x] >= 0) => Sum(f, T) <= Sum(f, S)
         /\ (\A x \in S \ T : f[x] <= 0) => Sum(f, S) <= Sum(f, T)
<1> DEFINE Good(W) == /\ (\A x \in W : f[x] >= 0) => Sum(f, T) <= Sum(f, T \cup W)
                      /\ (\A x \in W : f[x] <= 0) => Sum(f, T \cup W) <= Sum(f, T)
           G == {W \in SUBSET (S \ T) : Good(W)}
<1>1. \A W \in SUBSET S : IsFiniteSet(W) /\ Sum(f, W) \in Int
  BY FS_Subset, SumType
<1>2. {} \in G
  <2>1. T \cup {} = T /\ Sum(f, T) \in Int
    BY <1>1
  <2> QED
    BY <2>1
<1>3. ASSUME NEW W \in SUBSET (S \ T), NEW z \in S \ T, W \in G, z \notin W
      PROVE  W \cup {z} \in G
  <2>1. PICK V : V = T \cup W
    OBVIOUS
  <2>2. V \in SUBSET S /\ z \notin V /\ T \cup (W \cup {z}) = V \cup {z} /\ V \cup {z} \in SUBSET S
    BY <1>3, <2>1
  <2>3. Sum(f, V \cup {z}) = f[z] + Sum(f, V)
    <3>1. IsFiniteSet(V) /\ \A x \in V \cup {z} : f[x] \in Int
      BY <1>1, <2>2
    <3> QED
      BY <2>2, <3>1, SumAdd
  <2>4. f[z] \in Int /\ Sum(f, V) \in Int /\ Sum(f, T) \in Int
    BY <1>1, <2>2
  <2>5. ASSUME \A x \in W \cup {z} : f[x] >= 0 PROVE Sum(f, T) <= Sum(f, V \cup {z})
    <3>1. Sum(f, T) <= Sum(f, V) /\ f[z] >= 0
      BY <1>3, <2>1, <2>5
    <3> QED
      BY <2>3, <2>4, <3>1
  <2>6. ASSUME \A x \in W \cup {z} : f[x] <= 0 PROVE Sum(f, V \cup {z}) <= Sum(f, T)
    <3>1. Sum(f, V) <= Sum(f, T) /\ f[z] <= 0
      BY <1>3, <2>1, <2>6
    <3> QED
      BY <2>3, <2>4, <3>1
  <2> QED
    BY <2>2, <2>5, <2>6
<1>4. IsFiniteSet(S \ T)
  BY FS_Subset
<1> HIDE DEF G
<1>5. S \ T \in G
  BY <1>2, <1>3, <1>4, SetSteps
<1>6. T \cup (S \ T) = S
  OBVIOUS
<1> QED
  BY <1>5, <1>6 DEF G

\* Taking a constant off every term takes it off as often as there are terms.
LEMMA SumShift ==
  ASSUME NEW f, NEW g, NEW k \in Int, NEW S, IsFiniteSet(S),
         \A x \in S : f[x] \in Int /\ g[x] = f[x] - k
  PROVE  Sum(f, S) = Sum(g, S) + k * Cardinality(S)
<1> DEFINE G == {T \in SUBSET S : Sum(f, T) = Sum(g, T) + k * Cardinality(T)}
<1>1. \A T \in SUBSET S : /\ IsFiniteSet(T) /\ Cardinality(T) \in Nat
                          /\ Sum(f, T) \in Int /\ Sum(g, T) \in Int
  <2>1. (\A x \in S : f[x] \in Int) /\ (\A x \in S : g[x] \in Int)
    OBVIOUS
  <2>2. \A T \in SUBSET S : IsFiniteSet(T) /\ Cardinality(T) \in Nat
    BY FS_Subset, FS_CardinalityType
  <2>3. \A T \in SUBSET S : Sum(f, T) \in Int
    BY <2>1, SumType
  <2>4. \A T \in SUBSET S : Sum(g, T) \in Int
    BY <2>1, SumType
  <2> QED
    BY <2>2, <2>3, <2>4
<1>2. {} \in G
  <2>1. Sum(f, {}) = 0 /\ Sum(g, {}) = 0 /\ Cardinality({}) = 0
    BY FS_EmptySet, SumPick
  <2> QED
    BY <2>1
<1>3. ASSUME NEW T \in SUBSET S, NEW z \in S, T \in G, z \notin T
      PROVE  T \cup {z} \in G
  <2>1. IsFiniteSet(T) /\ (\A x \in T \cup {z} : f[x] \in Int) /\ (\A x \in T \cup {z} : g[x] \in Int)
    BY <1>1
  <2>2. Sum(f, T \cup {z}) = f[z] + Sum(f, T)
    BY <1>3, <2>1, SumAdd
  <2>3. Sum(g, T \cup {z}) = g[z] + Sum(g, T)
    BY <1>3, <2>1, SumAdd
  <2>4. Cardinality(T \cup {z}) = Cardinality(T) + 1
    BY <1>3, <2>1, FS_AddElement
  <2>5. /\ f[z] \in Int /\ g[z] = f[z] - k /\ Cardinality(T) \in Nat
        /\ Sum(f, T) \in Int /\ Sum(g, T) \in Int /\ Sum(f, T) = Sum(g, T) + k * Cardinality(T)
    BY <1>1, <1>3
  <2>6. k * (Cardinality(T) + 1) = k * Cardinality(T) + k /\ k * Cardinality(T) \in Int
    BY <2>5
  <2>7. Sum(f, T \cup {z}) = Sum(g, T \cup {z}) + k * Cardinality(T \cup {z})
    BY <2>2, <2>3, <2>4, <2>5, <2>6
  <2> QED
    BY <2>7
<1> HIDE DEF G
<1>4. S \in G
  BY <1>2, <1>3, SetSteps
<1> QED
  BY <1>4 DEF G

-----------------------------------------------------------------------------
(* Matchings *)

Disjoint(m) == \A d, e \in m : d # e => d[1] # e[1] /\ d[2] # e[2]
Left(m) == {e[1] : e \in m}
Right(m) == {e[2] : e \in m}

\* The cost c of every edge is its reduced cost h and the potentials q of its ends.
Splits(c, h, q, m) ==
  \A e \in m : /\ c[e] \in Int /\ q[e[1]] \in Int /\ q[e[2]] \in Int
               /\ h[e] = c[e] + q[e[1]] - q[e[2]]

\* A matching has as many ends on each side as it has edges, and what it costs
\* splits into reduced costs and the potentials of its ends.
LEMMA MatchingSum ==
  ASSUME NEW m, IsFiniteSet(m), Disjoint(m), NEW c, NEW h, NEW q, Splits(c, h, q, m)
  PROVE  /\ IsFiniteSet(Left(m)) /\ Cardinality(Left(m)) = Cardinality(m)
         /\ IsFiniteSet(Right(m)) /\ Cardinality(Right(m)) = Cardinality(m)
         /\ Sum(c, m) = Sum(h, m) + Sum(q, Right(m)) - Sum(q, Left(m))
<1> DEFINE Good(T) == /\ IsFiniteSet(Left(T)) /\ Cardinality(Left(T)) = Cardinality(T)
                      /\ IsFiniteSet(Right(T)) /\ Cardinality(Right(T)) = Cardinality(T)
                      /\ Sum(c, T) = Sum(h, T) + Sum(q, Right(T)) - Sum(q, Left(T))
           G == {T \in SUBSET m : Good(T)}
<1>1. {} \in G
  <2>1. Left({}) = {} /\ Right({}) = {}
    BY DEF Left, Right
  <2>2. IsFiniteSet({}) /\ \A f : Sum(f, {}) = 0
    BY FS_EmptySet, SumPick
  <2>3. Sum(c, {}) = Sum(h, {}) + Sum(q, Right({})) - Sum(q, Left({}))
    <3>1. Sum(q, Right({})) = 0 /\ Sum(q, Left({})) = 0
      BY <2>1, <2>2, Zenon
    <3> QED
      BY <2>2, <3>1
  <2>4. Good({})
    BY <2>1, <2>2, <2>3
  <2> QED
    BY <2>4
<1>2. ASSUME NEW T \in SUBSET m, NEW z \in m, T \in G, z \notin T
      PROVE  T \cup {z} \in G
  <2>1. PICK L, R : L = Left(T) /\ R = Right(T)
    OBVIOUS
  <2>2. Left(T \cup {z}) = L \cup {z[1]} /\ Right(T \cup {z}) = R \cup {z[2]}
    BY <2>1 DEF Left, Right
  <2>3. z[1] \notin L /\ z[2] \notin R
    BY <1>2, <2>1 DEF Left, Right, Disjoint
  <2>4. IsFiniteSet(T) /\ IsFiniteSet(L) /\ IsFiniteSet(R)
    BY <1>2, <2>1, FS_Subset
  <2>5. /\ Cardinality(L) = Cardinality(T) /\ Cardinality(R) = Cardinality(T)
        /\ Sum(c, T) = Sum(h, T) + Sum(q, R) - Sum(q, L)
    BY <1>2, <2>1
  <2>6. /\ IsFiniteSet(L \cup {z[1]}) /\ Cardinality(L \cup {z[1]}) = Cardinality(L) + 1
        /\ IsFiniteSet(R \cup {z[2]}) /\ Cardinality(R \cup {z[2]}) = Cardinality(R) + 1
        /\ Cardinality(T \cup {z}) = Cardinality(T) + 1
    BY <1>2, <2>3, <2>4, FS_AddElement
  <2>7. \A x \in L \cup {z[1]} : q[x] \in Int
    BY <2>1 DEF Left, Splits
  <2>8. \A x \in R \cup {z[2]} : q[x] \in Int
    BY <2>1 DEF Right, Splits
  <2>9. (\A x \in T \cup {z} : c[x] \in Int) /\ (\A x \in T \cup {z} : h[x] \in Int)
    BY DEF Splits
  <2>10. Sum(q, L \cup {z[1]}) = q[z[1]] + Sum(q, L) /\ Sum(q, L) \in Int
    <3>1. \A x \in L : q[x] \in Int
      BY <2>7
    <3> QED
      BY <2>3, <2>4, <2>7, <3>1, SumAdd, SumType
  <2>11. Sum(q, R \cup {z[2]}) = q[z[2]] + Sum(q, R) /\ Sum(q, R) \in Int
    <3>1. \A x \in R : q[x] \in Int
      BY <2>8
    <3> QED
      BY <2>3, <2>4, <2>8, <3>1, SumAdd, SumType
  <2>12. Sum(c, T \cup {z}) = c[z] + Sum(c, T) /\ Sum(c, T) \in Int
    <3>1. \A x \in T : c[x] \in Int
      BY <2>9
    <3> QED
      BY <1>2, <2>4, <2>9, <3>1, SumAdd, SumType
  <2>13. Sum(h, T \cup {z}) = h[z] + Sum(h, T) /\ Sum(h, T) \in Int
    <3>1. \A x \in T : h[x] \in Int
      BY <2>9
    <3> QED
      BY <1>2, <2>4, <2>9, <3>1, SumAdd, SumType
  <2>14. /\ c[z] \in Int /\ q[z[1]] \in Int /\ q[z[2]] \in Int
         /\ h[z] = c[z] + q[z[1]] - q[z[2]]
    BY DEF Splits
  <2>15. Sum(c, T \cup {z}) =
           Sum(h, T \cup {z}) + Sum(q, R \cup {z[2]}) - Sum(q, L \cup {z[1]})
    BY <2>5, <2>10, <2>11, <2>12, <2>13, <2>14
  <2> QED
    BY <2>2, <2>5, <2>6, <2>15
<1> HIDE DEF G
<1>3. m \in G
  BY <1>1, <1>2, SetSteps
<1> QED
  BY <1>3 DEF G

\* Pairs that carry flow.
Pairs == {a \in DOMAIN price : a \in RiderNodes \X DriverNodes}
Matched == {a \in Pairs : Opposite(a) \in arcs}

\* What the solver has spent is what its assignment costs.
Paid == cost = Sum(price, Matched)

\* The pairs are finitely many.
LEMMA PairsFinite == Network => IsFiniteSet(Pairs)
<1> SUFFICES ASSUME Network PROVE IsFiniteSet(Pairs)
  OBVIOUS
<1>1. IsFiniteSet(Nodes \X Nodes)
  BY NodesFinite, FS_Product
<1>2. Pairs \subseteq Nodes \X Nodes
  BY NodeRanges DEF Pairs
<1> QED
  BY <1>1, <1>2, FS_Subset

\* The pairs that carry flow are a matching of the riders the source supplies to
\* the drivers that supply the sink.
LEMMA MatchedEnds ==
  Network /\ Residual /\ Balanced =>
    /\ IsFiniteSet(Matched) /\ Disjoint(Matched)
    /\ Left(Matched) = {u \in RiderNodes : <<u, Source>> \in arcs}
    /\ Right(Matched) = {v \in DriverNodes : <<Sink, v>> \in arcs}
<1> SUFFICES ASSUME Network, Residual, Balanced
             PROVE  /\ IsFiniteSet(Matched) /\ Disjoint(Matched)
                    /\ Left(Matched) = {u \in RiderNodes : <<u, Source>> \in arcs}
                    /\ Right(Matched) = {v \in DriverNodes : <<Sink, v>> \in arcs}
  OBVIOUS
<1>1. ASSUME NEW a \in Matched
      PROVE  /\ a = <<a[1], a[2]>> /\ a[1] \in RiderNodes /\ a[2] \in DriverNodes
             /\ <<a[2], a[1]>> \in arcs
  BY DEF Matched, Pairs, Opposite
<1>2. ASSUME NEW u \in RiderNodes, NEW v \in DriverNodes, <<v, u>> \in arcs
      PROVE  <<u, v>> \in Matched
  <2>1. <<v, u>> \notin DOMAIN price
    BY NodeRanges DEF Network, NetArcs
  <2>2. PICK a \in DOMAIN price : <<v, u>> = Opposite(a)
    BY <1>2, <2>1 DEF Residual
  <2>3. a = <<u, v>>
    BY <2>2, OneWay DEF Opposite, Network
  <2> QED
    BY <1>2, <2>3 DEF Matched, Pairs, Opposite
<1>3. IsFiniteSet(Matched)
  BY PairsFinite, FS_Subset DEF Matched
<1>4. Disjoint(Matched)
  <2> SUFFICES ASSUME NEW d \in Matched, NEW e \in Matched, d[1] = e[1] \/ d[2] = e[2]
               PROVE  d = e
    BY DEF Disjoint
  <2>1. /\ d = <<d[1], d[2]>> /\ d[1] \in RiderNodes /\ d[2] \in DriverNodes
        /\ <<d[2], d[1]>> \in arcs
    BY <1>1
  <2>2. /\ e = <<e[1], e[2]>> /\ e[1] \in RiderNodes /\ e[2] \in DriverNodes
        /\ <<e[2], e[1]>> \in arcs
    BY <1>1
  <2>3. d[1] = e[1] /\ d[2] = e[2]
    BY <2>1, <2>2 DEF Balanced
  <2> QED
    BY <2>1, <2>2, <2>3
<1>5. Left(Matched) = {u \in RiderNodes : <<u, Source>> \in arcs}
  <2>1. ASSUME NEW a \in Matched PROVE a[1] \in RiderNodes /\ <<a[1], Source>> \in arcs
    <3>1. a[1] \in RiderNodes /\ \E v \in DriverNodes : <<v, a[1]>> \in arcs
      BY <1>1
    <3> QED
      BY <3>1 DEF Balanced
  <2>2. ASSUME NEW u \in RiderNodes, <<u, Source>> \in arcs PROVE u \in Left(Matched)
    <3>1. PICK v \in DriverNodes : <<v, u>> \in arcs
      BY <2>2 DEF Balanced
    <3>2. <<u, v>> \in Matched /\ <<u, v>>[1] = u
      BY <1>2, <3>1
    <3> QED
      BY <3>2 DEF Left
  <2>3. Left(Matched) \subseteq {u \in RiderNodes : <<u, Source>> \in arcs}
    BY <2>1 DEF Left
  <2> QED
    BY <2>2, <2>3
<1>6. Right(Matched) = {v \in DriverNodes : <<Sink, v>> \in arcs}
  <2>1. ASSUME NEW a \in Matched PROVE a[2] \in DriverNodes /\ <<Sink, a[2]>> \in arcs
    <3>1. a[2] \in DriverNodes /\ \E u \in RiderNodes : <<a[2], u>> \in arcs
      BY <1>1
    <3> QED
      BY <3>1 DEF Balanced
  <2>2. ASSUME NEW v \in DriverNodes, <<Sink, v>> \in arcs PROVE v \in Right(Matched)
    <3>1. PICK u \in RiderNodes : <<v, u>> \in arcs
      BY <2>2 DEF Balanced
    <3>2. <<u, v>> \in Matched /\ <<u, v>>[2] = v
      BY <1>2, <3>1
    <3> QED
      BY <3>2 DEF Right
  <2>3. Right(Matched) \subseteq {v \in DriverNodes : <<Sink, v>> \in arcs}
    BY <2>1 DEF Right
  <2> QED
    BY <2>2, <2>3
<1> QED
  BY <1>3, <1>4, <1>5, <1>6

\* Two sums that differ by terms that are nothing are the same.
LEMMA SumSame ==
  ASSUME NEW f, NEW S, NEW T, IsFiniteSet(S), IsFiniteSet(T),
         \A x \in S \cup T : f[x] \in Int, \A x \in (S \ T) \cup (T \ S) : f[x] = 0
  PROVE  Sum(f, S) = Sum(f, T)
<1>1. PICK W : W = S \cap T
  OBVIOUS
<1>2. /\ W \in SUBSET S /\ W \in SUBSET T
      /\ (\A x \in S \ W : f[x] >= 0 /\ f[x] <= 0) /\ (\A x \in T \ W : f[x] >= 0 /\ f[x] <= 0)
  BY <1>1
<1>3. (\A x \in S : f[x] \in Int) /\ (\A x \in T : f[x] \in Int)
  OBVIOUS
<1>4. Sum(f, S) \in Int /\ Sum(f, T) \in Int /\ Sum(f, W) \in Int
  BY <1>2, <1>3, SumType
<1>5. Sum(f, W) <= Sum(f, S) /\ Sum(f, S) <= Sum(f, W)
  BY <1>2, <1>3, SumMore
<1>6. Sum(f, W) <= Sum(f, T) /\ Sum(f, T) <= Sum(f, W)
  BY <1>2, <1>3, SumMore
<1> QED
  BY <1>4, <1>5, <1>6

\* The arcs at the source and at the sink are free.
LEMMA FreeArcs ==
  ASSUME Network, Residual
  PROVE  /\ \A u \in RiderNodes : <<Source, u>> \in arcs \/ <<u, Source>> \in arcs =>
              <<Source, u>> \in DOMAIN price /\ Cost(Source, u) = 0 /\ Cost(u, Source) = 0
         /\ \A v \in DriverNodes : <<v, Sink>> \in arcs \/ <<Sink, v>> \in arcs =>
              <<v, Sink>> \in DOMAIN price /\ Cost(v, Sink) = 0 /\ Cost(Sink, v) = 0
<1>1. ASSUME NEW x, NEW y, <<x, y>> \in NetArcs, <<x, y>> \in arcs \/ <<y, x>> \in arcs
      PROVE  /\ <<x, y>> \in DOMAIN price /\ <<y, x>> \notin DOMAIN price
             /\ Cost(x, y) = price[<<x, y>>] /\ Cost(y, x) = 0 - price[<<x, y>>]
  <2>1. <<y, x>> \notin NetArcs
    BY <1>1, OneWay DEF Opposite
  <2>2. <<y, x>> \notin DOMAIN price
    BY <2>1 DEF Network
  <2>3. <<x, y>> \in DOMAIN price
    <3> SUFFICES ASSUME <<x, y>> \notin DOMAIN price PROVE FALSE
      OBVIOUS
    <3>1. PICK a \in DOMAIN price : <<x, y>> = Opposite(a) \/ <<y, x>> = Opposite(a)
      BY <1>1, <2>2 DEF Residual
    <3>2. a = <<y, x>> \/ a = <<x, y>>
      BY <3>1, OneWay DEF Opposite, Network
    <3> QED
      BY <2>2, <3>2
  <2>4. Cost(x, y) = price[<<x, y>>] /\ Cost(y, x) = -price[<<x, y>>] /\ price[<<x, y>>] \in Int
    BY <2>2, <2>3 DEF Cost, Network
  <2>5. -price[<<x, y>>] = 0 - price[<<x, y>>]
    BY <2>4
  <2> QED
    BY <2>2, <2>3, <2>4, <2>5
<1>2. ASSUME NEW u \in RiderNodes, <<Source, u>> \in arcs \/ <<u, Source>> \in arcs
      PROVE  <<Source, u>> \in DOMAIN price /\ Cost(Source, u) = 0 /\ Cost(u, Source) = 0
  <2>1. <<Source, u>> \in NetArcs
    BY DEF NetArcs
  <2>2. /\ <<Source, u>> \in DOMAIN price /\ Cost(Source, u) = price[<<Source, u>>]
        /\ Cost(u, Source) = 0 - price[<<Source, u>>]
    BY <1>1, <1>2, <2>1
  <2>3. price[<<Source, u>>] = 0
    BY <2>2 DEF Network
  <2> QED
    BY <2>2, <2>3
<1>3. ASSUME NEW v \in DriverNodes, <<v, Sink>> \in arcs \/ <<Sink, v>> \in arcs
      PROVE  <<v, Sink>> \in DOMAIN price /\ Cost(v, Sink) = 0 /\ Cost(Sink, v) = 0
  <2>1. <<v, Sink>> \in NetArcs
    BY DEF NetArcs
  <2>2. /\ <<v, Sink>> \in DOMAIN price /\ Cost(v, Sink) = price[<<v, Sink>>]
        /\ Cost(Sink, v) = 0 - price[<<v, Sink>>]
    BY <1>1, <1>3, <2>1
  <2>3. price[<<v, Sink>>] = 0
    BY <2>2 DEF Network
  <2> QED
    BY <2>2, <2>3
<1> QED
  BY <1>2, <1>3

\* A pair costs its price, and refunds it.
LEMMA PairCost ==
  ASSUME Network, NEW a \in Pairs
  PROVE  /\ a = <<a[1], a[2]>> /\ a[1] \in RiderNodes /\ a[2] \in DriverNodes
         /\ a[1] \in Nodes /\ a[2] \in Nodes /\ price[a] \in Int
         /\ Cost(a[1], a[2]) = price[a] /\ Cost(a[2], a[1]) = -price[a]
<1>1. a \in DOMAIN price /\ a = <<a[1], a[2]>> /\ a[1] \in RiderNodes /\ a[2] \in DriverNodes
  BY DEF Pairs
<1>2. <<a[2], a[1]>> \notin DOMAIN price
  BY <1>1, OneWay DEF Network, Opposite
<1>3. price[a] \in Int
  BY <1>1 DEF Network
<1> QED
  BY <1>1, <1>2, <1>3, NodeRanges DEF Cost

\* A path costs what it adds to the cost of the assignment: its arcs attain the
\* distances, so that only its two ends count.
LEMMA AugmentPaid ==
  ASSUME SolverInv, Augment, Paid, Balanced'
  PROVE  Paid'
<1>1. /\ mode = "search" /\ queue = {} /\ Sink \in DOMAIN dist
      /\ arcs' = Augmented(Path) /\ price' = price
  BY DEF Augment
<1>2. Network /\ Residual /\ SearchTypes /\ SearchInv /\ Balanced
  BY <1>1 DEF SolverInv
<1>3. cost' = cost + Delta(Sink)
  <2>1. Rolled[Sink] = pot[Sink] + dist[Sink]
    BY <1>1, NodeRanges DEF Rolled
  <2> QED
    BY <1>1, <2>1 DEF Augment, Delta, DijkstraSearch
<1>4. PICK P : P = Path
  OBVIOUS
<1>5. /\ Simple(P) /\ P \in SUBSET arcs
      /\ \A a \in P : a = <<a[1], a[2]>>
  BY <1>1, <1>2, <1>4, PathIsSimple DEF SearchInv
<1>6. ASSUME NEW x, NEW y, <<x, y>> \in P
      PROVE  /\ <<x, y>> \in arcs /\ x \in DOMAIN dist /\ y \in DOMAIN dist
             /\ Cost(x, y) + Delta(x) - Delta(y) = 0
  <2>1. <<x, y>> \in arcs /\ x \in DOMAIN dist /\ y \in DOMAIN prev /\ prev[y] = x
    BY <1>1, <1>2, <1>4, <1>6, PathIsSimple DEF SearchInv
  <2>2. Cost(prev[y], y) + Delta(prev[y]) - Delta(y) = 0
    BY <1>1, <1>2, <2>1, Distances
  <2> QED
    BY <1>2, <2>1, <2>2 DEF SearchTypes
<1>7. Delta(Source) = 0 /\ \A v \in DOMAIN dist : v \in Nodes /\ Delta(v) \in Int
  BY <1>1, <1>2, Distances DEF SearchTypes
<1>8. PICK q : q = [v \in Nodes |-> IF v \in DOMAIN dist THEN Delta(v) ELSE 0]
  OBVIOUS
<1>9. (\A v \in Nodes : q[v] \in Int) /\ (\A v \in DOMAIN dist : q[v] = Delta(v))
  BY <1>7, <1>8
<1>10. PICK M, N : M = Matched /\ N = Matched'
  OBVIOUS
<1>11. /\ IsFiniteSet(M) /\ Disjoint(M)
       /\ Left(M) = {u \in RiderNodes : <<u, Source>> \in arcs}
       /\ Right(M) = {v \in DriverNodes : <<Sink, v>> \in arcs}
  BY <1>2, <1>10, MatchedEnds
<1>12. Network' /\ Residual'
  <2>1. Network'
    BY <1>1, <1>2 DEF Network
  <2> QED
    BY <1>1, <1>2, <1>4, <1>5, <2>1, AugmentResidual
<1>13. /\ IsFiniteSet(N) /\ Disjoint(N)
       /\ Left(N) = {u \in RiderNodes : <<u, Source>> \in arcs'}
       /\ Right(N) = {v \in DriverNodes : <<Sink, v>> \in arcs'}
  <2>1. /\ IsFiniteSet(Matched') /\ Disjoint(Matched')
        /\ Left(Matched') = {u \in RiderNodes : <<u, Source>> \in arcs'}
        /\ Right(Matched') = {v \in DriverNodes : <<Sink, v>> \in arcs'}
    <3>1. /\ IsFiniteSet(Matched)' /\ Disjoint(Matched)'
          /\ (Left(Matched) = {u \in RiderNodes : <<u, Source>> \in arcs})'
          /\ (Right(Matched) = {v \in DriverNodes : <<Sink, v>> \in arcs})'
      BY <1>12, MatchedEnds, PTL
    <3> QED
      BY <3>1 DEF Disjoint, Left, Right
  <2> QED
    BY <1>10, <2>1
<1>14. /\ \A u \in RiderNodes : <<u, Source>> \in arcs' <=> <<u, Source>> \in arcs \/ <<Source, u>> \in P
       /\ \A v \in DriverNodes : <<Sink, v>> \in arcs' <=> <<Sink, v>> \in arcs \/ <<v, Sink>> \in P
  BY <1>1, <1>2, <1>4, <1>5, AugmentBalanced
<1>15. PICK s \in P : s[1] = Source
  BY <1>5 DEF Simple
<1>16. PICK t \in P : t[2] = Sink
  BY <1>5 DEF Simple
<1>17. PICK i \in RiderNodes : <<Source, i>> \in P /\ \A u : <<Source, u>> \in P => u = i
  <2>1. s = <<Source, s[2]>>
    BY <1>5, <1>15
  <2>2. s[2] \in RiderNodes
    BY <1>2, <1>5, <2>1, ArcKinds, NodeRanges
  <2>3. \A u : <<Source, u>> \in P => u = s[2]
    <3> SUFFICES ASSUME NEW u, <<Source, u>> \in P PROVE u = s[2]
      OBVIOUS
    <3>1. <<Source, u>>[1] = s[1]
      BY <1>15
    <3>2. <<Source, u>> = s
      BY <1>5, <3>1 DEF Simple
    <3> QED
      BY <3>2
  <2> QED
    BY <2>1, <2>2, <2>3
<1>18. PICK j \in DriverNodes : <<j, Sink>> \in P /\ \A v : <<v, Sink>> \in P => v = j
  <2>1. t = <<t[1], Sink>>
    BY <1>5, <1>16
  <2>2. t[1] \in DriverNodes
    BY <1>2, <1>5, <2>1, ArcKinds, NodeRanges
  <2>3. \A v : <<v, Sink>> \in P => v = t[1]
    <3> SUFFICES ASSUME NEW v, <<v, Sink>> \in P PROVE v = t[1]
      OBVIOUS
    <3>1. <<v, Sink>>[2] = t[2]
      BY <1>16
    <3>2. <<v, Sink>> = t
      BY <1>5, <3>1 DEF Simple
    <3> QED
      BY <3>2
  <2> QED
    BY <2>1, <2>2, <2>3
<1>19. Left(N) = Left(M) \cup {i} /\ i \notin Left(M)
  <2>1. <<i, Source>> \notin arcs
    BY <1>2, <1>5, <1>17, ArcKinds
  <2> QED
    BY <1>11, <1>13, <1>14, <1>17, <2>1
<1>20. Right(N) = Right(M) \cup {j} /\ j \notin Right(M)
  <2>1. <<Sink, j>> \notin arcs
    BY <1>2, <1>5, <1>18, ArcKinds
  <2> QED
    BY <1>11, <1>13, <1>14, <1>18, <2>1
<1>21. q[i] = 0
  <2>1. Cost(Source, i) = 0
    BY <1>2, <1>6, <1>17, FreeArcs
  <2>2. Cost(Source, i) + Delta(Source) - Delta(i) = 0 /\ i \in DOMAIN dist
    BY <1>6, <1>17
  <2>3. q[i] = Delta(i) /\ Delta(i) \in Int
    BY <1>7, <1>9, <2>2
  <2>4. PICK a \in Int : a = Delta(i)
    BY <2>3
  <2>5. 0 + 0 - a = 0
    BY <1>7, <2>1, <2>2, <2>4
  <2>6. a = 0
    BY <2>5
  <2> QED
    BY <2>3, <2>4, <2>6
<1>22. q[j] = Delta(Sink)
  <2>1. Cost(j, Sink) = 0
    BY <1>2, <1>6, <1>18, FreeArcs
  <2>2. Cost(j, Sink) + Delta(j) - Delta(Sink) = 0 /\ j \in DOMAIN dist
    BY <1>6, <1>18
  <2>3. q[j] = Delta(j) /\ Delta(j) \in Int /\ Delta(Sink) \in Int
    BY <1>1, <1>7, <1>9, <2>2
  <2>4. PICK a \in Int, b \in Int : a = Delta(j) /\ b = Delta(Sink)
    BY <2>3
  <2>5. 0 + a - b = 0
    BY <2>1, <2>2, <2>4
  <2>6. a = b
    BY <2>5
  <2> QED
    BY <2>3, <2>4, <2>6
<1>23. PICK h : h = [a \in Pairs |-> price[a] + q[a[1]] - q[a[2]]]
  OBVIOUS
<1>24. ASSUME NEW a \in Pairs
       PROVE  /\ price[a] \in Int /\ q[a[1]] \in Int /\ q[a[2]] \in Int
              /\ h[a] = price[a] + q[a[1]] - q[a[2]] /\ h[a] \in Int
  BY <1>2, <1>9, <1>23, PairCost
<1>25. Pairs' = Pairs /\ M \subseteq Pairs /\ N \subseteq Pairs
  BY <1>1, <1>10 DEF Matched, Pairs
<1>26. ASSUME NEW a \in Pairs, <<a[1], a[2]>> \in P \/ <<a[2], a[1]>> \in P PROVE h[a] = 0
  <2>1. /\ Cost(a[1], a[2]) = price[a] /\ Cost(a[2], a[1]) = -price[a] /\ price[a] \in Int
    BY <1>2, PairCost
  <2>2. CASE <<a[1], a[2]>> \in P
    <3>1. /\ a[1] \in DOMAIN dist /\ a[2] \in DOMAIN dist
          /\ price[a] + Delta(a[1]) - Delta(a[2]) = 0
      BY <1>6, <2>1, <2>2
    <3>2. h[a] = price[a] + Delta(a[1]) - Delta(a[2])
      BY <1>9, <1>24, <3>1
    <3> QED
      BY <3>1, <3>2
  <2>3. CASE <<a[2], a[1]>> \in P
    <3>1. /\ a[1] \in DOMAIN dist /\ a[2] \in DOMAIN dist
          /\ -price[a] + Delta(a[2]) - Delta(a[1]) = 0
      BY <1>6, <2>1, <2>3
    <3>2. h[a] = price[a] + Delta(a[1]) - Delta(a[2])
      BY <1>9, <1>24, <3>1
    <3>3. Delta(a[1]) \in Int /\ Delta(a[2]) \in Int
      BY <1>7, <3>1
    <3> QED
      BY <2>1, <3>1, <3>2, <3>3
  <2> QED
    BY <1>26, <2>2, <2>3
<1>27. ASSUME NEW a \in (M \ N) \cup (N \ M) PROVE h[a] = 0
  <2>1. a \in Pairs /\ a = <<a[1], a[2]>>
    BY <1>2, <1>25, PairCost
  <2>2. <<a[2], a[1]>> \in Augmented(P) <=>
          (<<a[2], a[1]>> \in arcs /\ <<a[2], a[1]>> \notin P) \/ <<a[1], a[2]>> \in P
    BY <1>5, Flipped
  <2>3. (a \in M <=> <<a[2], a[1]>> \in arcs) /\ (a \in N <=> <<a[2], a[1]>> \in Augmented(P))
    BY <1>1, <1>4, <1>10, <1>25, <2>1 DEF Matched, Opposite
  <2>4. <<a[1], a[2]>> \in P \/ <<a[2], a[1]>> \in P
    BY <2>2, <2>3
  <2> QED
    BY <1>26, <2>1, <2>4
<1>28. Sum(h, M) = Sum(h, N)
  <2>1. \A a \in M \cup N : h[a] \in Int
    BY <1>24, <1>25
  <2> QED
    BY <1>11, <1>13, <1>27, <2>1, SumSame
<1>29. /\ IsFiniteSet(Left(M)) /\ IsFiniteSet(Right(M))
       /\ Sum(price, M) = Sum(h, M) + Sum(q, Right(M)) - Sum(q, Left(M))
  <2>1. Splits(price, h, q, M)
    BY <1>24, <1>25 DEF Splits
  <2>2. IsFiniteSet(M) /\ Disjoint(M)
    BY <1>11
  <2> QED
    BY <2>1, <2>2, MatchingSum, ZenonT(60)
<1>30. Sum(price, N) = Sum(h, N) + Sum(q, Right(N)) - Sum(q, Left(N))
  <2>1. Splits(price, h, q, N)
    BY <1>24, <1>25 DEF Splits
  <2>2. IsFiniteSet(N) /\ Disjoint(N)
    BY <1>13
  <2> QED
    BY <2>1, <2>2, MatchingSum, ZenonT(60)
<1>31. Sum(q, Left(N)) = q[i] + Sum(q, Left(M)) /\ Sum(q, Left(M)) \in Int
  <2>1. \A x \in Left(M) \cup {i} : q[x] \in Int
    BY <1>9, <1>11, NodeRanges
  <2>2. \A x \in Left(M) : q[x] \in Int
    BY <2>1
  <2>3. Sum(q, Left(M) \cup {i}) = q[i] + Sum(q, Left(M))
    BY <1>19, <1>29, <2>1, SumAdd
  <2>4. Sum(q, Left(M)) \in Int
    BY <1>29, <2>2, SumType
  <2> QED
    BY <1>19, <2>3, <2>4
<1>32. Sum(q, Right(N)) = q[j] + Sum(q, Right(M)) /\ Sum(q, Right(M)) \in Int
  <2>1. \A x \in Right(M) \cup {j} : q[x] \in Int
    BY <1>9, <1>11, NodeRanges
  <2>2. \A x \in Right(M) : q[x] \in Int
    BY <2>1
  <2>3. Sum(q, Right(M) \cup {j}) = q[j] + Sum(q, Right(M))
    BY <1>20, <1>29, <2>1, SumAdd
  <2>4. Sum(q, Right(M)) \in Int
    BY <1>29, <2>2, SumType
  <2> QED
    BY <1>20, <2>3, <2>4
<1>33. Sum(h, M) \in Int /\ Delta(Sink) \in Int
  <2>1. \A a \in M : h[a] \in Int
    BY <1>24, <1>25
  <2>2. Sum(h, M) \in Int
    BY <1>11, <2>1, SumType
  <2> QED
    BY <1>1, <1>7, <2>2
<1>34. Sum(price, N) = Sum(price, M) + Delta(Sink)
  BY <1>21, <1>22, <1>28, <1>29, <1>30, <1>31, <1>32, <1>33
<1>35. cost' = Sum(price, N)
  BY <1>3, <1>10, <1>34 DEF Paid
<1> QED
  BY <1>1, <1>10, <1>35 DEF Paid, Sum, FoldSet, MapThenFoldSet

\* Without flow nothing is spent.
LEMMA NothingPaid == Matched = {} /\ cost = 0 => Paid
<1>1. Sum(price, {}) = 0
  BY FS_EmptySet, SumPick
<1> QED
  BY <1>1 DEF Paid

\* A new network has no flow.
LEMMA StartPaid ==
  ASSUME NEW graph, NEW eng, Start(graph, eng), Network'
  PROVE  Paid'
<1>1. arcs' = DOMAIN price' /\ cost' = 0
  BY DEF Start
<1>2. Matched' = {}
  <2>1. \A a \in DOMAIN price' : Opposite(a) \notin DOMAIN price'
    BY OneWay DEF Network
  <2> QED
    BY <1>1, <2>1 DEF Matched, Pairs
<1>3. (Matched = {} /\ cost = 0)'
  BY <1>1, <1>2
<1> QED
  BY <1>3, NothingPaid, PTL

\* The solver always knows what its assignment costs.
THEOREM SolverKeepsPaid ==
  ASSUME SolverInv, Paid, SolverStep
  PROVE  Paid'
<1>1. ASSUME UNCHANGED <<price, arcs, cost>> PROVE Paid'
  <2>1. Matched' = Matched
    BY <1>1 DEF Matched, Pairs
  <2> QED
    BY <1>1, <2>1 DEF Paid, Sum, FoldSet, MapThenFoldSet
<1>2. ASSUME NEW u \in Nodes, BellmanFordPop(u) PROVE Paid'
  BY <1>1, <1>2 DEF BellmanFordPop
<1>3. ASSUME NEW u \in Nodes, DijkstraPop(u) PROVE Paid'
  BY <1>1, <1>3 DEF DijkstraPop
<1>4. CASE Seed
  BY <1>1, <1>4 DEF Seed
<1>5. CASE Augment
  <2>1. Balanced'
    BY <1>5, AugmentInv DEF SolverInv
  <2> QED
    BY <1>5, <2>1, AugmentPaid
<1>6. CASE NoPath
  BY <1>1, <1>6 DEF NoPath
<1> QED
  BY <1>2, <1>3, <1>4, <1>5, <1>6 DEF SolverStep

-----------------------------------------------------------------------------
(* The assignment is a best one *)

\* No matching of the pairs is larger: along the cut every pair of m names a pair
\* that carries flow, and no two name the same.
LEMMA Largest ==
  ASSUME SolverInv, mode = "done", NEW m \in SUBSET Pairs, Disjoint(m)
  PROVE  IsFiniteSet(m) /\ Cardinality(m) <= Cardinality(Matched)
<1> DEFINE D == DOMAIN dist
<1>1. Network /\ Residual /\ Balanced /\ Cut
  BY DEF SolverInv
<1>2. /\ IsFiniteSet(Matched) /\ Disjoint(Matched)
      /\ Left(Matched) = {u \in RiderNodes : <<u, Source>> \in arcs}
      /\ Right(Matched) = {v \in DriverNodes : <<Sink, v>> \in arcs}
  BY <1>1, MatchedEnds
<1>3. ASSUME NEW e \in Pairs
      PROVE  /\ e \in DOMAIN price /\ e = <<e[1], e[2]>> /\ e[1] \in RiderNodes /\ e[2] \in DriverNodes
             /\ e[1] \in Nodes /\ e[2] \in Nodes
             /\ <<Source, e[1]>> \in DOMAIN price /\ <<e[2], Sink>> \in DOMAIN price
             /\ e \in Matched <=> <<e[2], e[1]>> \in arcs
             /\ e \in Matched <=> e \notin arcs
  <2>1. /\ e \in DOMAIN price /\ e = <<e[1], e[2]>> /\ e[1] \in RiderNodes /\ e[2] \in DriverNodes
        /\ e[1] \in Nodes /\ e[2] \in Nodes
    BY <1>1, PairCost DEF Pairs
  <2>2. <<Source, e[1]>> \in DOMAIN price /\ <<e[2], Sink>> \in DOMAIN price
    BY <1>1, <2>1 DEF Network
  <2>3. e \in Matched <=> <<e[2], e[1]>> \in arcs
    BY DEF Matched, Opposite
  <2>4. e \in arcs <=> <<e[2], e[1]>> \notin arcs
    BY <1>1, <2>1 DEF Residual, Opposite
  <2> QED
    BY <2>1, <2>2, <2>3, <2>4
<1>4. ASSUME NEW e \in Matched PROVE e \in Pairs /\ (e[2] \in D => e[1] \in D)
  <2>1. e \in Pairs
    BY DEF Matched
  <2> QED
    BY <1>1, <1>3, <2>1 DEF Cut
<1>5. ASSUME NEW e \in Pairs, e[1] \notin D PROVE \E a \in Matched : a[1] = e[1]
  <2>1. <<Source, e[1]>> \notin arcs
    BY <1>1, <1>3, <1>5 DEF Cut
  <2>2. <<e[1], Source>> \in arcs
    BY <1>1, <1>3, <2>1 DEF Residual, Opposite
  <2>3. e[1] \in Left(Matched)
    BY <1>2, <1>3, <2>2
  <2> QED
    BY <2>3 DEF Left
<1>6. ASSUME NEW e \in Pairs, e[2] \in D PROVE \E a \in Matched : a[2] = e[2]
  <2>1. <<e[2], Sink>> \notin arcs
    BY <1>1, <1>3, <1>6, NodeRanges DEF Cut
  <2>2. <<Sink, e[2]>> \in arcs
    BY <1>1, <1>3, <2>1 DEF Residual, Opposite
  <2>3. e[2] \in Right(Matched)
    BY <1>2, <1>3, <2>2
  <2> QED
    BY <2>3 DEF Right
<1>7. ASSUME NEW e \in Pairs, e[1] \in D, e[2] \notin D PROVE e \in Matched
  BY <1>1, <1>3, <1>7 DEF Cut
<1> DEFINE Names(e, a) == \/ e[1] \notin D /\ a[1] = e[1]
                          \/ e[1] \in D /\ e[2] \in D /\ a[2] = e[2]
                          \/ e[1] \in D /\ e[2] \notin D /\ a = e
           f == [e \in m |-> CHOOSE a \in Matched : Names(e, a)]
<1>8. ASSUME NEW e \in m PROVE \E a \in Matched : Names(e, a)
  BY <1>5, <1>6, <1>7
<1>9. ASSUME NEW e \in m PROVE f[e] \in Matched /\ Names(e, f[e])
  <2> HIDE DEF Names
  <2>1. f[e] = CHOOSE a \in Matched : Names(e, a)
    OBVIOUS
  <2> QED
    BY <1>8, <2>1
<1>10. ASSUME NEW d \in m, NEW e \in m, NEW a \in Matched, Names(d, a), Names(e, a) PROVE d = e
  <2>1. d[1] = e[1] \/ d[2] = e[2]
    BY <1>4, <1>10
  <2> QED
    BY <2>1 DEF Disjoint
<1>11. f \in Injection(m, Matched)
  <2>1. f \in [m -> Matched]
    BY <1>9
  <2>2. ASSUME NEW d \in m, NEW e \in m, f[d] = f[e] PROVE d = e
    <3> HIDE DEF f, Names
    <3> QED
      BY <1>9, <1>10, <2>2
  <2> HIDE DEF f
  <2> QED
    BY <2>1, <2>2 DEF Injection, IsInjective
<1> HIDE DEF f
<1> QED
  BY <1>2, <1>11, FS_Injection

\* A sum grows when terms that are not positive give way to terms that are not
\* negative.
LEMMA SumLess ==
  ASSUME NEW f, NEW S, NEW T, IsFiniteSet(S), IsFiniteSet(T), \A x \in S \cup T : f[x] \in Int,
         \A x \in S \ T : f[x] <= 0, \A x \in T \ S : f[x] >= 0
  PROVE  Sum(f, S) <= Sum(f, T)
<1>1. PICK W : W = S \cap T
  OBVIOUS
<1>2. /\ W \in SUBSET S /\ W \in SUBSET T
      /\ (\A x \in S \ W : f[x] <= 0) /\ (\A x \in T \ W : f[x] >= 0)
  BY <1>1
<1>3. (\A x \in S : f[x] \in Int) /\ (\A x \in T : f[x] \in Int)
  OBVIOUS
<1>4. Sum(f, S) \in Int /\ Sum(f, T) \in Int /\ Sum(f, W) \in Int
  BY <1>2, <1>3, SumType
<1>5. Sum(f, S) <= Sum(f, W)
  BY <1>2, <1>3, SumMore
<1>6. Sum(f, W) <= Sum(f, T)
  BY <1>2, <1>3, SumMore
<1> QED
  BY <1>4, <1>5, <1>6

\* So does a sum of as many terms when terms up to k give way to terms from k on.
LEMMA SumExchange ==
  ASSUME NEW f, NEW S, NEW T, IsFiniteSet(S), IsFiniteSet(T), \A x \in S \cup T : f[x] \in Int,
         Cardinality(S) = Cardinality(T), NEW k \in Int,
         \A x \in S \ T : f[x] <= k, \A x \in T \ S : f[x] >= k
  PROVE  Sum(f, S) <= Sum(f, T)
<1>1. PICK g : g = [x \in S \cup T |-> f[x] - k]
  OBVIOUS
<1>2. \A x \in S \cup T : g[x] = f[x] - k /\ g[x] \in Int
  BY <1>1
<1>3. /\ \A x \in S : f[x] \in Int /\ g[x] = f[x] - k
      /\ \A x \in T : f[x] \in Int /\ g[x] = f[x] - k
  BY <1>2
<1>4. Sum(f, S) = Sum(g, S) + k * Cardinality(S)
  BY <1>3, SumShift
<1>5. Sum(f, T) = Sum(g, T) + k * Cardinality(T)
  BY <1>3, SumShift
<1>6. Sum(g, S) <= Sum(g, T)
  <2>1. \A x \in S \ T : g[x] <= 0
    BY <1>2
  <2>2. \A x \in T \ S : g[x] >= 0
    BY <1>2
  <2>3. \A x \in S \cup T : g[x] \in Int
    BY <1>2
  <2> QED
    BY <2>1, <2>2, <2>3, SumLess
<1>7. Sum(g, S) \in Int /\ Sum(g, T) \in Int
  BY <1>2, SumType
<1>8. Cardinality(S) \in Nat /\ k * Cardinality(S) \in Int
  BY FS_CardinalityType
<1> QED
  BY <1>4, <1>5, <1>6, <1>7, <1>8

\* No matching of as many pairs is cheaper: with feasible potentials no pair has a
\* reduced cost that would be worth it.
LEMMA Cheapest ==
  ASSUME SolverInv, NEW m \in SUBSET Pairs, Disjoint(m), IsFiniteSet(m),
         Cardinality(m) = Cardinality(Matched)
  PROVE  Sum(price, Matched) <= Sum(price, m)
<1>1. Network /\ Residual /\ Balanced
  BY DEF SolverInv
<1>2. PICK p \in [Nodes -> Int] : Feasible(p)
  BY DEF SolverInv, Priced
<1>3. PICK M : M = Matched
  OBVIOUS
<1>4. /\ IsFiniteSet(M) /\ Disjoint(M) /\ M \in SUBSET Pairs
      /\ Left(M) = {u \in RiderNodes : <<u, Source>> \in arcs}
      /\ Right(M) = {v \in DriverNodes : <<Sink, v>> \in arcs}
  BY <1>1, <1>3, MatchedEnds DEF Matched
<1>5. PICK r : r = [a \in Pairs |-> price[a] + p[a[1]] - p[a[2]]]
  OBVIOUS
<1>6. ASSUME NEW a \in Pairs
      PROVE  /\ price[a] \in Int /\ p[a[1]] \in Int /\ p[a[2]] \in Int
             /\ r[a] = price[a] + p[a[1]] - p[a[2]] /\ r[a] \in Int
             /\ a[1] \in RiderNodes /\ a[2] \in DriverNodes
  BY <1>1, <1>5, PairCost
<1>7. ASSUME NEW a \in Pairs PROVE (a \in M => r[a] <= 0) /\ (a \notin M => r[a] >= 0)
  <2>1. /\ a = <<a[1], a[2]>> /\ a[1] \in Nodes /\ a[2] \in Nodes
        /\ Cost(a[1], a[2]) = price[a] /\ Cost(a[2], a[1]) = -price[a]
    BY <1>1, PairCost
  <2>2. a \in DOMAIN price /\ (a \in M <=> <<a[2], a[1]>> \in arcs)
    BY <1>3 DEF Matched, Opposite, Pairs
  <2>3. a \in arcs <=> <<a[2], a[1]>> \notin arcs
    BY <1>1, <2>2 DEF Residual, Opposite
  <2>4. ASSUME a \in M PROVE r[a] <= 0
    <3>1. Cost(a[2], a[1]) + p[a[2]] - p[a[1]] >= 0
      BY <1>2, <2>1, <2>2, <2>4 DEF Feasible
    <3> QED
      BY <1>6, <2>1, <3>1
  <2>5. ASSUME a \notin M PROVE r[a] >= 0
    <3>1. <<a[1], a[2]>> \in arcs
      BY <2>1, <2>2, <2>3, <2>5
    <3>2. Cost(a[1], a[2]) + p[a[1]] - p[a[2]] >= 0
      BY <1>2, <2>1, <3>1 DEF Feasible
    <3> QED
      BY <1>6, <2>1, <3>2
  <2> QED
    BY <2>4, <2>5
<1>8. Sum(r, M) <= Sum(r, m)
  <2>1. (\A x \in M \cup m : r[x] \in Int) /\ (\A x \in M \ m : r[x] <= 0) /\ (\A x \in m \ M : r[x] >= 0)
    BY <1>4, <1>6, <1>7
  <2> QED
    BY <1>4, <2>1, SumLess
<1>9. /\ IsFiniteSet(Left(M)) /\ Cardinality(Left(M)) = Cardinality(M)
      /\ IsFiniteSet(Right(M)) /\ Cardinality(Right(M)) = Cardinality(M)
      /\ Sum(price, M) = Sum(r, M) + Sum(p, Right(M)) - Sum(p, Left(M))
  <2>1. Splits(price, r, p, M)
    BY <1>4, <1>6 DEF Splits
  <2>2. IsFiniteSet(M) /\ Disjoint(M)
    BY <1>4
  <2> QED
    BY <2>1, <2>2, MatchingSum, ZenonT(60)
<1>10. /\ IsFiniteSet(Left(m)) /\ Cardinality(Left(m)) = Cardinality(m)
       /\ IsFiniteSet(Right(m)) /\ Cardinality(Right(m)) = Cardinality(m)
       /\ Sum(price, m) = Sum(r, m) + Sum(p, Right(m)) - Sum(p, Left(m))
  <2>1. Splits(price, r, p, m)
    BY <1>6 DEF Splits
  <2> QED
    BY <2>1, MatchingSum, ZenonT(60)
<1>11. (\A u \in Left(M) \cup Left(m) : p[u] \in Int) /\ (\A v \in Right(M) \cup Right(m) : p[v] \in Int)
  BY <1>4, <1>6 DEF Left, Right
<1>12. p[Source] \in Int /\ p[Sink] \in Int /\ Source \in Nodes /\ Sink \in Nodes
  BY NodeRanges
<1>13. Sum(p, Right(M)) <= Sum(p, Right(m))
  <2>1. ASSUME NEW v \in Right(M) PROVE p[v] <= p[Sink]
    <3>1. v \in DriverNodes /\ <<Sink, v>> \in arcs /\ v \in Nodes /\ p[v] \in Int
      BY <1>4, NodeRanges
    <3>2. Cost(Sink, v) = 0 /\ Cost(Sink, v) + p[Sink] - p[v] >= 0
      BY <1>1, <1>2, <1>12, <3>1, FreeArcs DEF Feasible
    <3> QED
      BY <1>12, <3>1, <3>2
  <2>2. ASSUME NEW v \in Right(m), v \notin Right(M) PROVE p[v] >= p[Sink]
    <3>1. PICK e \in m : v = e[2]
      BY DEF Right
    <3>2. v \in DriverNodes /\ v \in Nodes /\ p[v] \in Int /\ <<v, Sink>> \in DOMAIN price
      <4>1. e \in DOMAIN price /\ e \in RiderNodes \X DriverNodes
        BY DEF Pairs
      <4> QED
        BY <1>1, <3>1, <4>1, NodeRanges DEF Network
    <3>3. <<Sink, v>> \notin arcs
      BY <1>4, <2>2, <3>2
    <3>4. <<v, Sink>> \in arcs
      BY <1>1, <3>2, <3>3 DEF Residual, Opposite
    <3>5. Cost(v, Sink) = 0 /\ Cost(v, Sink) + p[v] - p[Sink] >= 0
      BY <1>1, <1>2, <1>12, <3>2, <3>4, FreeArcs DEF Feasible
    <3> QED
      BY <1>12, <3>2, <3>5
  <2>3. (\A x \in Right(M) \ Right(m) : p[x] <= p[Sink]) /\ (\A x \in Right(m) \ Right(M) : p[x] >= p[Sink])
    BY <2>1, <2>2
  <2>4. Cardinality(Right(M)) = Cardinality(Right(m))
    BY <1>3, <1>9, <1>10
  <2> QED
    BY <1>9, <1>10, <1>11, <1>12, <2>3, <2>4, SumExchange
<1>14. Sum(p, Left(m)) <= Sum(p, Left(M))
  <2>1. ASSUME NEW u \in Left(M) PROVE p[u] >= p[Source]
    <3>1. u \in RiderNodes /\ <<u, Source>> \in arcs /\ u \in Nodes /\ p[u] \in Int
      BY <1>4, NodeRanges
    <3>2. Cost(u, Source) = 0 /\ Cost(u, Source) + p[u] - p[Source] >= 0
      BY <1>1, <1>2, <1>12, <3>1, FreeArcs DEF Feasible
    <3> QED
      BY <1>12, <3>1, <3>2
  <2>2. ASSUME NEW u \in Left(m), u \notin Left(M) PROVE p[u] <= p[Source]
    <3>1. PICK e \in m : u = e[1]
      BY DEF Left
    <3>2. u \in RiderNodes /\ u \in Nodes /\ p[u] \in Int /\ <<Source, u>> \in DOMAIN price
      <4>1. e \in DOMAIN price /\ e \in RiderNodes \X DriverNodes
        BY DEF Pairs
      <4> QED
        BY <1>1, <3>1, <4>1, NodeRanges DEF Network
    <3>3. <<u, Source>> \notin arcs
      BY <1>4, <2>2, <3>2
    <3>4. <<Source, u>> \in arcs
      BY <1>1, <3>2, <3>3 DEF Residual, Opposite
    <3>5. Cost(Source, u) = 0 /\ Cost(Source, u) + p[Source] - p[u] >= 0
      BY <1>1, <1>2, <1>12, <3>2, <3>4, FreeArcs DEF Feasible
    <3> QED
      BY <1>12, <3>2, <3>5
  <2>3. (\A x \in Left(m) \ Left(M) : p[x] <= p[Source]) /\ (\A x \in Left(M) \ Left(m) : p[x] >= p[Source])
    BY <2>1, <2>2
  <2>4. Cardinality(Left(m)) = Cardinality(Left(M)) /\ \A x \in Left(m) \cup Left(M) : p[x] \in Int
    BY <1>3, <1>9, <1>10, <1>11
  <2> QED
    BY <1>9, <1>10, <1>12, <2>3, <2>4, SumExchange
<1>15. /\ Sum(p, Left(m)) \in Int /\ Sum(p, Left(M)) \in Int
       /\ Sum(p, Right(m)) \in Int /\ Sum(p, Right(M)) \in Int
  <2>1. /\ (\A u \in Left(M) : p[u] \in Int) /\ (\A u \in Left(m) : p[u] \in Int)
        /\ (\A v \in Right(M) : p[v] \in Int) /\ (\A v \in Right(m) : p[v] \in Int)
    BY <1>11
  <2> QED
    BY <1>9, <1>10, <2>1, SumType
<1>16. Sum(r, M) \in Int /\ Sum(r, m) \in Int
  <2>1. (\A a \in M : r[a] \in Int) /\ (\A a \in m : r[a] \in Int)
    BY <1>4, <1>6
  <2> QED
    BY <1>4, <2>1, SumType
<1> QED
  BY <1>3, <1>8, <1>9, <1>10, <1>13, <1>14, <1>15, <1>16
=============================================================================
