-------------------------- MODULE MatchingService --------------------------
(***************************************************************************)
(* SolveBatch, the engine's one operation                                  *)
(* (matching_engine/src/matching_service.cpp, cost_matrix.cpp): checks the *)
(* batch, shortlists drivers for each rider, prices the pairs, drops those *)
(* above the cutoff, solves the assignment and says why each rider left    *)
(* over got nobody.  Composes QuadTree, Router and MinCostFlow.            *)
(*                                                                         *)
(* Riders and drivers are the positions in the request, as in the code.    *)
(* Points are on the projected plane, in units fine enough for the boxes   *)
(* of the quadtree; a negative coordinate is a point in the southern or    *)
(* the western hemisphere.  A cost is a distance in these units, or        *)
(* seconds, rounded.                                                       *)
(***************************************************************************)
EXTENDS QuadTree, Router, MinCostFlow

CONSTANT Batches   \* the requests clients send

\* A place on the projected plane.
Place == [x : Int, y : Int]

ASSUME BatchesAssumption ==
  /\ RoadNodes \subseteq Place
  /\ \A b \in Batches :
       /\ b.riders \in Seq(Place) /\ b.drivers \in Seq(Place)
       /\ b.wellformed \in BOOLEAN /\ b.loaded \in BOOLEAN
       /\ b.metric \in {"euclidean", "travel_time"}
       /\ b.k \in Nat /\ b.cutoff \in Nat

\* The unit of the plane: the boxes of the quadtree down to MaxDepth are whole.
ASSUME UnitAssumption ==
  \A b \in Batches : \A s \in {b.riders, b.drivers} : \A i \in DOMAIN s :
    s[i].x % Pow2[MaxDepth] = 0 /\ s[i].y % Pow2[MaxDepth] = 0

VARIABLES
  phase,       \* where solveBatchImpl is
  batch,       \* the request
  next,        \* the rider or driver its loop is at
  tree,        \* driverTree
  radius,      \* of the box kNearest searches, 0 outside its loop
  shortlist,   \* candidates of the riders so far
  edges,       \* cost of every edge so far
  answer       \* the response

serviceVars == <<phase, batch, next, tree, radius, shortlist, edges, answer>>
vars == <<serviceVars, routerVars, solverVars>>

NoBatch == [riders |-> <<>>, drivers |-> <<>>, k |-> 0, cutoff |-> 0,
            metric |-> "euclidean", wellformed |-> TRUE, loaded |-> TRUE]
NoTree == EmptyTree(Box(0, 0, 0, 0))
NoAnswer == [status |-> "none", matches |-> {}, reasons |-> <<>>, totalCost |-> 0]

Riders == DOMAIN batch.riders
Drivers == DOMAIN batch.drivers
TravelTime == batch.metric = "travel_time"

\* A cap at or above the number of drivers caps nothing: 0, a dense matrix.
K == IF batch.k >= Len(batch.drivers) THEN 0 ELSE batch.k

ServiceInit ==
  /\ phase = "idle" /\ batch = NoBatch /\ next = 1 /\ tree = NoTree /\ radius = 0
  /\ shortlist = <<>> /\ edges = <<>> /\ answer = NoAnswer

Init == ServiceInit /\ RouterInit /\ SolverInit

-----------------------------------------------------------------------------
(* The checks *)

Receive(b) ==
  /\ phase = "idle"
  /\ phase' = "received" /\ batch' = b
  /\ UNCHANGED <<next, tree, radius, shortlist, edges, answer, routerVars, solverVars>>

\* validate, and a road graph that is not loaded: never a silent fallback.
Acceptable ==
  /\ batch.wellformed
  /\ Len(batch.riders) <= MaxRiders /\ Len(batch.drivers) <= MaxDrivers
  /\ TravelTime => batch.loaded

Answered(status) ==
  /\ phase' = "answered"
  /\ UNCHANGED <<batch, next, tree, radius, shortlist, edges, routerVars, solverVars>>
  /\ answer' = [NoAnswer EXCEPT !.status = status]

Refuse ==
  /\ phase = "received" /\ ~Acceptable
  /\ Answered("refused")

\* A quiet window: nobody to match, and no error.
AnswerEmpty ==
  /\ phase = "received" /\ Acceptable
  /\ Riders = {} \/ Drivers = {}
  /\ phase' = "answered"
  /\ answer' = [status |-> "ok", matches |-> {}, totalCost |-> 0,
                reasons |-> [i \in Riders |-> "NO_DRIVER_AVAILABLE"]]
  /\ UNCHANGED <<batch, next, tree, radius, shortlist, edges, routerVars, solverVars>>

-----------------------------------------------------------------------------
(* The cost matrix *)

Points == {batch.riders[i] : i \in Riders} \cup {batch.drivers[j] : j \in Drivers}

\* buildSparseEdges: the square from the origin to twice the largest coordinate,
\* and one more.
SquareWorld ==
  LET maxCoord == Max({0} \cup {p.x : p \in Points} \cup {p.y : p \in Points})
      half == maxCoord + Unit \div 2
  IN Box(half, half, half, half)

\* buildRoadEdgesSparse: the bounding box of drivers and riders, a little larger.
BoundingWorld ==
  LET lo(C(_)) == Min({C(p) : p \in Points})
      hi(C(_)) == Max({C(p) : p \in Points})
      X(p) == p.x
      Y(p) == p.y
      half(C(_)) == Pow2[MaxDepth] * ((hi(C) - lo(C)) \div Unit + 1)
  IN Box((lo(X) + hi(X)) \div 2, (lo(Y) + hi(Y)) \div 2, half(X), half(Y))

\* The quadtree is built only for a capped shortlist.
Build ==
  /\ phase = "received" /\ Acceptable /\ Riders # {} /\ Drivers # {}
  /\ next' = 1
  /\ phase' = IF K = 0 THEN "shortlist" ELSE "index"
  /\ tree' = IF K = 0 THEN tree
             ELSE EmptyTree(IF TravelTime THEN BoundingWorld ELSE SquareWorld)
  /\ UNCHANGED <<batch, radius, shortlist, edges, answer, routerVars, solverVars>>

\* insert: what it returns, false for a point outside the world, is not looked at.
Index ==
  /\ phase = "index"
  /\ LET d == batch.drivers[next]
     IN tree' = insert(tree, [id |-> next, x |-> d.x, y |-> d.y])
  /\ IF next = Len(batch.drivers)
     THEN phase' = "shortlist" /\ next' = 1
     ELSE next' = next + 1 /\ UNCHANGED phase
  /\ UNCHANGED <<batch, radius, shortlist, edges, answer, routerVars, solverVars>>

\* kNearest starts from the leaf of the rider.
Search ==
  /\ phase = "shortlist" /\ K # 0 /\ radius = 0
  /\ radius' = leafHalfExtent(tree, batch.riders[next])
  /\ UNCHANGED <<phase, batch, next, tree, shortlist, edges, answer, routerVars, solverVars>>

\* kNearest searching the box of the leaf again and again.
WidenFromLeaf ==
  /\ phase = "shortlist" /\ radius > 0 /\ ~Final(tree, batch.riders[next], K, radius)
  /\ radius' = leafHalfExtent(tree, batch.riders[next])
  /\ UNCHANGED <<phase, batch, next, tree, shortlist, edges, answer, routerVars, solverVars>>

\* kNearest doubles its radius and searches again.
Widen ==
  /\ phase = "shortlist" /\ radius > 0 /\ ~Final(tree, batch.riders[next], K, radius)
  /\ radius' = 2 * radius
  /\ UNCHANGED <<phase, batch, next, tree, shortlist, edges, answer, routerVars, solverVars>>

\* One of the nearest nodes, as the index of the graph or the scan finds it.
nearestNode(p) ==
  CHOOSE v \in RoadNodes : \A w \in RoadNodes : distSq(v, p) <= distSq(w, p)

\* The drivers one rider is priced against.  On roads this needs a sweep.
Shortlist ==
  /\ phase = "shortlist"
  /\ \/ K = 0 /\ shortlist' = Append(shortlist, Drivers)
     \/ /\ radius > 0 /\ Final(tree, batch.riders[next], K, radius)
        /\ \E near \in kNearest(tree, batch.riders[next], K, radius) :
             shortlist' = Append(shortlist, {e.id : e \in near})
  /\ radius' = 0
  /\ phase' = "price"
  /\ IF TravelTime THEN BeginSweep(nearestNode(batch.riders[next])) ELSE UNCHANGED routerVars
  /\ UNCHANGED <<batch, next, tree, edges, answer, solverVars>>

Sweep ==
  /\ phase = "price" /\ SweepStep
  /\ UNCHANGED <<serviceVars, solverVars>>

\* scaledDistance: the root, rounded.
scaledDistance(a, b) ==
  CHOOSE n \in 0..(Max({a.x, b.x}) - Min({a.x, b.x}) + Max({a.y, b.y}) - Min({a.y, b.y})) :
    /\ (2 * n - 1) * (2 * n - 1) <= 4 * distSq(a, b) \/ n = 0
    /\ 4 * distSq(a, b) < (2 * n + 1) * (2 * n + 1)

\* The edges of one rider: on roads none for a driver who cannot get there.
Edges(i, near) ==
  IF TravelTime
  THEN [e \in {<<i, j>> : j \in {d \in near : nearestNode(batch.drivers[d]) \in DOMAIN secs}} |->
          secs[nearestNode(batch.drivers[e[2]])]]
  ELSE [e \in {<<i, j>> : j \in near} |->
          scaledDistance(batch.riders[i], batch.drivers[e[2]])]

Price ==
  /\ phase = "price" /\ heap = {}
  /\ LET new == Edges(next, shortlist[next])
     IN edges' = [e \in DOMAIN edges \cup DOMAIN new |->
                    IF e \in DOMAIN new THEN new[e] ELSE edges[e]]
  /\ IF next = Len(batch.riders)
     THEN phase' = "built" /\ UNCHANGED next
     ELSE phase' = "shortlist" /\ next' = next + 1
  /\ EndSweep
  /\ UNCHANGED <<batch, tree, radius, shortlist, answer, solverVars>>

\* The caller has given up: looked at once, between the matrix and the solver.
Cancel ==
  /\ phase = "built"
  /\ Answered("cancelled")

-----------------------------------------------------------------------------
(* The assignment *)

\* The edges the cost ceiling leaves.
Kept == {e \in DOMAIN edges : batch.cutoff = 0 \/ edges[e] <= batch.cutoff}

\* solveAssignment: riders hang off the source, drivers off the sink.
FlowGraph ==
  LET fromSource == {<<Source, RiderNode(i)>> : i \in Riders}
      toSink == {<<DriverNode(j), Sink>> : j \in Drivers}
      pairs == {<<RiderNode(e[1]), DriverNode(e[2])>> : e \in Kept}
  IN [a \in fromSource \cup toSink \cup pairs |->
        IF a \in pairs THEN edges[<<a[1], a[2] - MaxRiders>>] ELSE 0]

\* Auto picks the engine by density; either must do.
Solve ==
  /\ phase = "built"
  /\ phase' = "solving"
  /\ \E eng \in {"spfa", "dijkstra"} : Start(FlowGraph, eng)
  /\ UNCHANGED <<batch, next, tree, radius, shortlist, edges, answer, routerVars>>

Solver ==
  /\ phase = "solving" /\ SolverStep
  /\ UNCHANGED <<serviceVars, routerVars>>

Chosen == {e \in Kept : HasFlow(RiderNode(e[1]), DriverNode(e[2]))}

\* The reason with the cutoff looked at before the edges.
ReasonCutoffFirst(i) ==
  IF {e \in Kept : e[1] = i} = {} THEN "ALL_CANDIDATES_ABOVE_CUTOFF"
  ELSE IF {e \in DOMAIN edges : e[1] = i} = {}
  THEN IF TravelTime THEN "UNREACHABLE" ELSE "NO_CANDIDATES_IN_SHORTLIST"
  ELSE "NO_DRIVER_AVAILABLE"

\* Why a rider was left over, the most specific reason first.
Reason(i) ==
  IF {e \in DOMAIN edges : e[1] = i} = {}
  THEN IF TravelTime THEN "UNREACHABLE" ELSE "NO_CANDIDATES_IN_SHORTLIST"
  ELSE IF {e \in Kept : e[1] = i} = {} THEN "ALL_CANDIDATES_ABOVE_CUTOFF"
  ELSE "NO_DRIVER_AVAILABLE"

Respond ==
  /\ phase = "solving" /\ mode = "done"
  /\ phase' = "answered"
  /\ answer' = [status |-> "ok", matches |-> Chosen, totalCost |-> cost,
                reasons |-> [i \in Riders \ {e[1] : e \in Chosen} |-> Reason(i)]]
  /\ UNCHANGED <<batch, next, tree, radius, shortlist, edges, routerVars, solverVars>>

\* The handler returns, and everything it had is gone.
Return ==
  /\ phase = "answered"
  /\ phase' = "idle" /\ batch' = NoBatch /\ next' = 1 /\ tree' = NoTree /\ radius' = 0
  /\ shortlist' = <<>> /\ edges' = <<>> /\ answer' = NoAnswer
  /\ Stop
  /\ UNCHANGED routerVars

solveBatchImpl ==
  \/ Refuse \/ AnswerEmpty \/ Build \/ Index \/ Search \/ Widen \/ Shortlist \/ Sweep \/ Price
  \/ Solve \/ Solver \/ Respond \/ Return

Next == (\E b \in Batches : Receive(b)) \/ Cancel \/ solveBatchImpl

\* The handler runs on: it never waits for anybody.
Spec == Init /\ [][Next]_vars /\ WF_vars(solveBatchImpl)

-----------------------------------------------------------------------------
(* Properties *)

\* TypeOK: the variables of the service, the router and the solver keep their
\* types; every arc of the flow network has its unit of capacity on exactly one
\* of its two directions.
TypeOK ==
  /\ phase \in {"idle", "received", "index", "shortlist", "price", "built",
                "solving", "answered"}
  /\ batch = NoBatch \/ batch \in Batches
  /\ next \in 1..Max({1, Len(batch.riders), Len(batch.drivers)})
  /\ radius \in Nat /\ shortlist \in Seq(SUBSET Drivers)
  /\ DOMAIN edges \subseteq Riders \X Drivers /\ \A e \in DOMAIN edges : edges[e] \in Nat
  /\ answer.status \in {"none", "ok", "refused", "cancelled"}
  /\ RouterTypeOK /\ SolverTypeOK

\* EveryDriverIndexed: the quadtree the shortlists come from holds every driver of
\* the batch: the world it is given encloses all of them.
EveryDriverIndexed ==
  (phase \in {"shortlist", "price"} /\ K # 0) => {e.id : e \in tree.points} = Drivers

\* ShortlistExact: a capped shortlist is the true K nearest: that many drivers, and
\* nobody left out is nearer than somebody on it, wherever the boxes of the tree
\* and the search happen to end.
ShortlistExact ==
  K # 0 => \A i \in DOMAIN shortlist :
    /\ Cardinality(shortlist[i]) = K
    /\ \A a \in shortlist[i], b \in Drivers \ shortlist[i] :
         distSq(batch.drivers[a], batch.riders[i]) <= distSq(batch.drivers[b], batch.riders[i])

\* All ways to give riders drivers along the kept edges.
Matchings ==
  {m \in SUBSET Kept : \A d, e \in m : d # e => d[1] # e[1] /\ d[2] # e[2]}

TotalCost(m) == FoldSet(LAMBDA e, sum : edges[e] + sum, 0, m)

\* Optimal: the answer gives no driver and no rider twice, matches as many riders
\* as any assignment could, costs no more than any other that matches as many, and
\* reports exactly that cost.
Optimal ==
  (phase = "answered" /\ mode = "done") =>
    /\ answer.matches \in Matchings
    /\ answer.totalCost = TotalCost(answer.matches)
    /\ \A m \in Matchings :
         \/ Cardinality(m) < Cardinality(answer.matches)
         \/ /\ Cardinality(m) = Cardinality(answer.matches)
            /\ TotalCost(m) >= answer.totalCost

\* HonestReasons: what a rider who got nobody is told is true of the city.  With
\* UNREACHABLE no shortlisted driver has a road to the rider; with ABOVE_CUTOFF one
\* has, and each that has is too far; with NO_DRIVER_AVAILABLE one is near enough,
\* and all such drivers went to other riders.  No shortlist is empty.
HonestReasons ==
  (phase = "answered" /\ mode = "done") =>
    \A i \in DOMAIN answer.reasons :
      LET here == batch.riders[i]
          far(j) == IF TravelTime THEN Fastest[<<nearestNode(batch.drivers[j]), nearestNode(here)>>]
                    ELSE scaledDistance(here, batch.drivers[j])
          reach == {j \in shortlist[i] :
                      TravelTime =>
                        <<nearestNode(batch.drivers[j]), nearestNode(here)>> \in DOMAIN Fastest}
          near == {j \in reach : batch.cutoff = 0 \/ far(j) <= batch.cutoff}
      IN CASE answer.reasons[i] = "UNREACHABLE" -> reach = {}
           [] answer.reasons[i] = "ALL_CANDIDATES_ABOVE_CUTOFF" -> reach # {} /\ near = {}
           [] answer.reasons[i] = "NO_DRIVER_AVAILABLE" ->
                near # {} /\ near \subseteq {e[2] : e \in answer.matches}
           [] OTHER -> FALSE

\* Termination: every batch is answered.  The box of kNearest grows until it can be
\* trusted, and searches in the residual graph end, since only a strictly cheaper
\* path puts a node back into the queue and every path found adds to the flow.
Termination == phase # "idle" ~> phase = "idle"
=============================================================================
