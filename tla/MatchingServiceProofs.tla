----------------------- MODULE MatchingServiceProofs -----------------------
(***************************************************************************)
(* Proofs about the engine: the road sweep, and the whole of SolveBatch,   *)
(* composed of the quadtree, the sweep and the solver, for any batches,    *)
(* any roads and any limits.                                               *)
(***************************************************************************)
EXTENDS MatchingService, MinCostFlowProofs

-----------------------------------------------------------------------------
(* Driving times, by their definition *)

Trips == RoadNodes \X RoadNodes

\* The trips of no arc.
Stay == [p \in Trips |-> IF p[1] = p[2] THEN {0} ELSE {}]

\* What one more arc adds.
Further(fewer) ==
  [p \in Trips |->
     fewer[p] \cup UNION {{Roads[a] + t : t \in fewer[<<a[2], p[2]>>]} :
                            a \in {b \in DOMAIN Roads : b[1] = p[1]}}]

\* The sets of times Times is made of.
Reached ==
  LET upto[n \in 0..Cardinality(RoadNodes)] ==
        IF n = 0 THEN Stay ELSE Further(upto[n - 1])
  IN upto

\* The nodes of the road network can be counted.
LEMMA RoadsFinite == Cardinality(RoadNodes) \in Nat
BY RouterAssumption, FS_CardinalityType

\* The recursion of Times is well founded.
LEMMA TripsExist ==
  ASSUME NEW N \in Nat
  PROVE  \E f : f = [n \in 0..N |-> IF n = 0 THEN Stay ELSE Further(f[n - 1])]
<1> DEFINE G == {n \in Nat : \E f : f = [k \in 0..n |-> IF k = 0 THEN Stay ELSE Further(f[k - 1])]}
<1>1. 0 \in G
  <2> DEFINE f == [k \in 0..0 |-> Stay]
  <2>1. f = [k \in 0..0 |-> IF k = 0 THEN Stay ELSE Further(f[k - 1])]
    OBVIOUS
  <2> QED
    BY <2>1
<1>2. ASSUME NEW n \in Nat, n \in G PROVE n + 1 \in G
  <2>1. PICK f : f = [k \in 0..n |-> IF k = 0 THEN Stay ELSE Further(f[k - 1])]
    BY <1>2
  <2> DEFINE g == [k \in 0..(n + 1) |-> IF k = n + 1 THEN Further(f[n]) ELSE f[k]]
  <2>2. \A k \in 0..n : g[k] = f[k]
    OBVIOUS
  <2>3. g[n + 1] = Further(g[n])
    BY <2>2
  <2>4. \A k \in 0..n : k # 0 => k - 1 \in 0..n
    OBVIOUS
  <2>5. ASSUME NEW k \in 0..(n + 1) PROVE g[k] = IF k = 0 THEN Stay ELSE Further(g[k - 1])
    <3>1. CASE k = n + 1
      BY <2>3, <3>1
    <3>2. CASE k # n + 1
      <4>1. k \in 0..n
        BY <3>2
      <4>2. f[k] = IF k = 0 THEN Stay ELSE Further(f[k - 1])
        BY <2>1, <4>1
      <4> QED
        BY <2>2, <2>4, <4>1, <4>2
    <3> QED
      BY <3>1, <3>2
  <2>6. g = [k \in 0..(n + 1) |-> IF k = 0 THEN Stay ELSE Further(g[k - 1])]
    <3>1. g = [k \in 0..(n + 1) |-> g[k]]
      OBVIOUS
    <3> HIDE DEF g
    <3> QED
      BY <2>5, <3>1
  <2>7. \E h : h = [k \in 0..(n + 1) |-> IF k = 0 THEN Stay ELSE Further(h[k - 1])]
    <3> HIDE DEF g
    <3> QED
      BY <2>6
  <2> QED
    BY <2>7
<1> HIDE DEF G
<1>3. N \in G
  BY <1>1, <1>2, NatSteps
<1> QED
  BY <1>3 DEF G

\* So it starts from the trips of no arc and goes on with one more.
LEMMA TripSteps ==
  /\ Times = Reached[Cardinality(RoadNodes)]
  /\ Reached[0] = Stay
  /\ \A n \in Nat : n < Cardinality(RoadNodes) => Reached[n + 1] = Further(Reached[n])
<1> DEFINE N == Cardinality(RoadNodes)
<1>1. N \in Nat
  BY RoadsFinite
<1>2. PICK f : f = [n \in 0..N |-> IF n = 0 THEN Stay ELSE Further(f[n - 1])]
  BY <1>1, TripsExist
<1>3. Reached = [n \in 0..N |-> IF n = 0 THEN Stay ELSE Further(Reached[n - 1])]
  BY <1>2 DEF Reached
<1>4. Reached[0] = Stay
  BY <1>1, <1>3
<1>5. ASSUME NEW n \in Nat, n < N PROVE Reached[n + 1] = Further(Reached[n])
  <2>1. n + 1 \in 0..N /\ n + 1 # 0 /\ (n + 1) - 1 = n
    BY <1>1, <1>5
  <2> QED
    BY <1>3, <2>1
<1>6. Times = Reached[Cardinality(RoadNodes)]
  BY DEF Times, Reached, Stay, Further, Trips
<1> QED
  BY <1>4, <1>5, <1>6

\* Times are whole numbers, a trip of fewer arcs is one of more, and an arc in front
\* of a trip makes a trip of one more.
LEMMA TripFacts ==
  ASSUME NEW n \in Nat, n <= Cardinality(RoadNodes), NEW p \in Trips
  PROVE  /\ Reached[n][p] \subseteq Nat
         /\ n < Cardinality(RoadNodes) =>
              /\ Reached[n][p] \subseteq Reached[n + 1][p]
              /\ \A a \in DOMAIN Roads : a[1] = p[1] =>
                   \A t \in Reached[n][<<a[2], p[2]>>] : Roads[a] + t \in Reached[n + 1][p]
              /\ \A t \in Reached[n + 1][p] :
                   \/ t \in Reached[n][p]
                   \/ \E a \in DOMAIN Roads : /\ a[1] = p[1]
                        /\ \E r \in Reached[n][<<a[2], p[2]>>] : t = Roads[a] + r
<1> DEFINE N == Cardinality(RoadNodes)
           G == {k \in Nat : k <= N => \A q \in Trips : Reached[k][q] \subseteq Nat}
<1>1. N \in Nat
  BY RoadsFinite
<1>2. ASSUME NEW k \in Nat, k < N, NEW q \in Trips
      PROVE  Reached[k + 1][q] = Reached[k][q] \cup
               UNION {{Roads[a] + t : t \in Reached[k][<<a[2], q[2]>>]} :
                        a \in {b \in DOMAIN Roads : b[1] = q[1]}}
  BY <1>2, TripSteps DEF Further
<1>3. \A a \in DOMAIN Roads : a[1] \in RoadNodes /\ a[2] \in RoadNodes /\ Roads[a] \in Nat
  BY RouterAssumption
<1>4. 0 \in G
  BY TripSteps DEF Stay
<1>5. ASSUME NEW k \in Nat, k \in G PROVE k + 1 \in G
  <2> SUFFICES ASSUME k + 1 <= N, NEW q \in Trips, NEW t \in Reached[k + 1][q] PROVE t \in Nat
    OBVIOUS
  <2>1. k < N /\ \A o \in Trips : Reached[k][o] \subseteq Nat
    BY <1>1, <1>5
  <2>2. CASE t \in Reached[k][q]
    BY <2>1, <2>2
  <2>3. ASSUME NEW a \in DOMAIN Roads, NEW r \in Reached[k][<<a[2], q[2]>>], t = Roads[a] + r
        PROVE  t \in Nat
    <3>1. <<a[2], q[2]>> \in Trips
      BY <1>3 DEF Trips
    <3>2. r \in Nat
      BY <2>1, <3>1
    <3> QED
      BY <1>3, <2>3, <3>2
  <2>4. t \in Reached[k][q] \/ \E a \in DOMAIN Roads : \E r \in Reached[k][<<a[2], q[2]>>] : t = Roads[a] + r
    BY <1>2, <2>1
  <2> QED
    BY <2>2, <2>3, <2>4
<1>6. n \in G
  <2> HIDE DEF G
  <2> QED
    BY <1>4, <1>5, NatSteps
<1>7. Reached[n][p] \subseteq Nat
  BY <1>6
<1>8. ASSUME n < N
      PROVE  /\ Reached[n][p] \subseteq Reached[n + 1][p]
             /\ \A a \in DOMAIN Roads : a[1] = p[1] =>
                  \A t \in Reached[n][<<a[2], p[2]>>] : Roads[a] + t \in Reached[n + 1][p]
             /\ \A t \in Reached[n + 1][p] :
                  \/ t \in Reached[n][p]
                  \/ \E a \in DOMAIN Roads : /\ a[1] = p[1]
                       /\ \E r \in Reached[n][<<a[2], p[2]>>] : t = Roads[a] + r
  <2>1. Reached[n + 1][p] = Reached[n][p] \cup
          UNION {{Roads[a] + t : t \in Reached[n][<<a[2], p[2]>>]} :
                   a \in {b \in DOMAIN Roads : b[1] = p[1]}}
    BY <1>2, <1>8
  <2>2. Reached[n][p] \subseteq Reached[n + 1][p]
    BY <2>1
  <2>3. ASSUME NEW a \in DOMAIN Roads, a[1] = p[1], NEW t \in Reached[n][<<a[2], p[2]>>]
        PROVE  Roads[a] + t \in Reached[n + 1][p]
    <3>1. PICK T : T = {Roads[a] + r : r \in Reached[n][<<a[2], p[2]>>]}
      OBVIOUS
    <3>2. Roads[a] + t \in T
      BY <3>1
    <3>3. T \in {{Roads[b] + r : r \in Reached[n][<<b[2], p[2]>>]} :
                   b \in {c \in DOMAIN Roads : c[1] = p[1]}}
      BY <2>3, <3>1
    <3> QED
      BY <2>1, <3>2, <3>3
  <2>4. ASSUME NEW t \in Reached[n + 1][p], t \notin Reached[n][p]
        PROVE  \E a \in DOMAIN Roads : /\ a[1] = p[1]
                 /\ \E r \in Reached[n][<<a[2], p[2]>>] : t = Roads[a] + r
    BY <2>1, <2>4
  <2> QED
    BY <2>2, <2>3, <2>4
<1> QED
  BY <1>7, <1>8

-----------------------------------------------------------------------------
(* The sweep *)

\* While a sweep runs: what is settled is no farther than what is in the heap; every
\* arc into a settled node has been looked at; and every time found is one that can
\* be driven, with no more arcs than nodes are settled.
Sweeping ==
  /\ RouterTypeOK /\ goal \in DOMAIN secs /\ secs[goal] = 0
  /\ \A v \in closed, w \in heap : secs[v] <= secs[w]
  /\ \A v \in closed, w \in RoadNodes : <<w, v>> \in DOMAIN Roads =>
       w \in DOMAIN secs /\ secs[w] <= secs[v] + Roads[<<w, v>>]
  /\ \A w \in DOMAIN secs : secs[w] \in Reached[Cardinality(closed)][<<w, goal>>]

\* A sweep begins with the rider's node.
LEMMA SweepBegins ==
  ASSUME NEW v \in RoadNodes, BeginSweep(v)
  PROVE  Sweeping' /\ goal' = v
<1>1. /\ goal' = v /\ DOMAIN secs' = {v} /\ secs'[v] = 0 /\ heap' = {v} /\ closed' = {}
  BY DEF BeginSweep
<1>2. Cardinality(closed') = 0
  BY <1>1, FS_EmptySet
<1>3. <<v, v>> \in Trips /\ Reached[0][<<v, v>>] = {0}
  <2>1. <<v, v>> \in Trips
    BY DEF Trips
  <2> QED
    BY <2>1, TripSteps DEF Stay
<1> QED
  BY <1>1, <1>2, <1>3 DEF Sweeping, RouterTypeOK

\* Settling a node keeps it up.
LEMMA SweepGoesOn ==
  ASSUME Sweeping, NEW v \in RoadNodes, Settle(v)
  PROVE  Sweeping' /\ goal' = goal
<1> DEFINE N == Cardinality(RoadNodes)
<1>1. PICK better : better = {a \in incoming(v) :
                   a.to \notin DOMAIN secs \/ secs[v] + a.travelSeconds < secs[a.to]}
  OBVIOUS
<1>2. PICK from : from = {a.to : a \in better}
  OBVIOUS
<1>3. /\ v \in heap /\ \A w \in heap : secs[v] <= secs[w]
      /\ closed' = closed \cup {v}
      /\ secs' = [w \in DOMAIN secs \cup from |->
                   IF w \in from
                   THEN secs[v] + (CHOOSE a \in better : a.to = w).travelSeconds
                   ELSE secs[w]]
      /\ heap' = (heap \cup from) \ closed'
      /\ goal' = goal
  BY <1>1, <1>2 DEF Settle
<1>4. /\ heap \cup closed = DOMAIN secs /\ heap \cap closed = {} /\ DOMAIN secs \subseteq RoadNodes
      /\ \A w \in DOMAIN secs : secs[w] \in Nat
      /\ goal \in DOMAIN secs /\ secs[goal] = 0
  BY DEF Sweeping, RouterTypeOK
<1>5. /\ v \in DOMAIN secs /\ v \notin closed /\ secs[v] \in Nat
  BY <1>3, <1>4
<1>6. ASSUME NEW w
      PROVE  w \in from <=> /\ w \in RoadNodes /\ <<w, v>> \in DOMAIN Roads
                            /\ w \notin DOMAIN secs \/ secs[v] + Roads[<<w, v>>] < secs[w]
  <2>1. ASSUME w \in from
        PROVE  /\ w \in RoadNodes /\ <<w, v>> \in DOMAIN Roads
               /\ w \notin DOMAIN secs \/ secs[v] + Roads[<<w, v>>] < secs[w]
    <3>1. PICK a \in better : a.to = w
      BY <1>2, <2>1
    <3>2. PICK b \in DOMAIN Roads : b[2] = v /\ a = [to |-> b[1], travelSeconds |-> Roads[b]]
      BY <1>1, <3>1 DEF incoming
    <3>3. b = <<w, v>> /\ w \in RoadNodes
      BY <3>1, <3>2, RouterAssumption
    <3> QED
      BY <1>1, <3>1, <3>2, <3>3
  <2>2. ASSUME w \in RoadNodes, <<w, v>> \in DOMAIN Roads,
               w \notin DOMAIN secs \/ secs[v] + Roads[<<w, v>>] < secs[w]
        PROVE  w \in from
    <3>1. [to |-> w, travelSeconds |-> Roads[<<w, v>>]] \in incoming(v)
      BY <2>2 DEF incoming
    <3> QED
      BY <1>1, <1>2, <2>2, <3>1
  <2> QED
    BY <2>1, <2>2
<1>7. ASSUME NEW w \in from PROVE secs'[w] = secs[v] + Roads[<<w, v>>]
  <2>1. PICK a : a = CHOOSE b \in better : b.to = w
    OBVIOUS
  <2>2. a \in better /\ a.to = w
    BY <1>2, <2>1
  <2>3. PICK b \in DOMAIN Roads : b[2] = v /\ a = [to |-> b[1], travelSeconds |-> Roads[b]]
    BY <1>1, <2>2 DEF incoming
  <2>4. b = <<w, v>>
    BY <2>2, <2>3, RouterAssumption
  <2>5. a.travelSeconds = Roads[<<w, v>>]
    BY <2>3, <2>4
  <2> QED
    BY <1>3, <2>1, <2>5
<1>8. DOMAIN secs' = DOMAIN secs \cup from /\ \A w \in DOMAIN secs \ from : secs'[w] = secs[w]
  BY <1>3
<1>9. \A w \in from : Roads[<<w, v>>] \in Nat /\ secs'[w] \in Nat /\ secs[v] <= secs'[w]
  BY <1>5, <1>6, <1>7, RouterAssumption
<1>10. closed' \cap from = {}
  <2>1. SUFFICES ASSUME NEW w \in closed', w \in from PROVE FALSE
    OBVIOUS
  <2>2. w \in DOMAIN secs /\ secs[w] <= secs[v] /\ secs[w] \in Nat
    BY <1>3, <1>4, <1>5, <2>1 DEF Sweeping
  <2>3. secs[v] + Roads[<<w, v>>] < secs[w] /\ Roads[<<w, v>>] \in Nat
    BY <1>6, <1>9, <2>1, <2>2
  <2> QED
    BY <1>5, <2>2, <2>3
<1>11. ASSUME NEW w \in DOMAIN secs
       PROVE  w \in DOMAIN secs' /\ secs'[w] \in Nat /\ secs'[w] <= secs[w]
  <2>1. CASE w \in from
    <3>1. secs[v] + Roads[<<w, v>>] < secs[w] /\ secs'[w] = secs[v] + Roads[<<w, v>>]
      BY <1>6, <1>7, <2>1
    <3> QED
      BY <1>4, <1>5, <1>8, <1>9, <2>1, <3>1
  <2>2. CASE w \notin from
    BY <1>4, <1>8, <2>2
  <2> QED
    BY <2>1, <2>2
<1>12. \A w \in closed' : w \in DOMAIN secs /\ secs'[w] = secs[w]
  BY <1>3, <1>4, <1>5, <1>8, <1>10
<1>13. RouterTypeOK'
  <2>1. DOMAIN secs' \subseteq RoadNodes
    BY <1>4, <1>6, <1>8
  <2>2. \A w \in DOMAIN secs' : secs'[w] \in Nat
    BY <1>8, <1>9, <1>11
  <2>3. heap' \cup closed' = DOMAIN secs' /\ heap' \cap closed' = {}
    BY <1>3, <1>4, <1>5, <1>8, <1>10
  <2> QED
    BY <2>1, <2>2, <2>3 DEF RouterTypeOK
<1>14. goal \in DOMAIN secs' /\ secs'[goal] = 0
  BY <1>4, <1>11
<1>15. ASSUME NEW u \in closed', NEW w \in heap' PROVE secs'[u] <= secs'[w]
  <2>1. secs'[u] = secs[u] /\ secs[u] <= secs[v] /\ secs[u] \in Nat
    BY <1>3, <1>4, <1>5, <1>12 DEF Sweeping
  <2>2. CASE w \in from
    <3>1. secs[v] <= secs'[w] /\ secs'[w] \in Nat
      BY <1>9, <2>2
    <3> QED
      BY <1>5, <2>1, <3>1
  <2>3. CASE w \notin from
    BY <1>3, <1>4, <1>5, <1>8, <2>1, <2>3
  <2> QED
    BY <2>2, <2>3
<1>16. ASSUME NEW u \in closed', NEW w \in RoadNodes, <<w, u>> \in DOMAIN Roads
       PROVE  w \in DOMAIN secs' /\ secs'[w] <= secs'[u] + Roads[<<w, u>>]
  <2>1. Roads[<<w, u>>] \in Nat /\ secs'[u] = secs[u] /\ secs[u] \in Nat
    BY <1>4, <1>12, <1>16, RouterAssumption
  <2>2. CASE u = v
    BY <1>4, <1>6, <1>7, <1>8, <1>16, <2>1, <2>2
  <2>3. CASE u # v
    <3>1. w \in DOMAIN secs /\ secs[w] <= secs[u] + Roads[<<w, u>>]
      BY <1>3, <1>16, <2>3 DEF Sweeping
    <3> QED
      BY <1>4, <1>11, <2>1, <3>1
  <2> QED
    BY <2>2, <2>3
<1>17. ASSUME NEW w \in DOMAIN secs'
       PROVE  secs'[w] \in Reached[Cardinality(closed')][<<w, goal>>]
  <2>1. PICK n : n = Cardinality(closed)
    OBVIOUS
  <2>2. IsFiniteSet(RoadNodes) /\ closed' \subseteq RoadNodes
    BY <1>3, <1>4, RouterAssumption
  <2>3. IsFiniteSet(closed) /\ IsFiniteSet(closed')
    BY <1>3, <2>2, FS_Subset
  <2>4. Cardinality(closed') <= N
    BY <2>2, FS_Subset
  <2>5. n \in Nat /\ Cardinality(closed') = n + 1
    BY <1>3, <1>5, <2>1, <2>3, FS_CardinalityType, FS_AddElement
  <2>6. n <= N /\ n < N
    BY <2>4, <2>5, RoadsFinite
  <2>7. w \in RoadNodes /\ <<w, goal>> \in Trips /\ <<v, goal>> \in Trips
    BY <1>4, <1>5, <1>6, <1>8 DEF Trips
  <2>8. CASE w \in from
    <3>1. <<w, v>> \in DOMAIN Roads /\ secs'[w] = Roads[<<w, v>>] + secs[v]
      BY <1>5, <1>6, <1>7, <1>9, <2>8
    <3>2. secs[v] \in Reached[n][<<v, goal>>]
      BY <1>5, <2>1 DEF Sweeping
    <3>3. PICK a \in DOMAIN Roads : a = <<w, v>>
      BY <3>1
    <3>4. \A t \in Reached[n][<<a[2], goal>>] : Roads[a] + t \in Reached[n + 1][<<w, goal>>]
      BY <2>5, <2>6, <2>7, <3>3, TripFacts
    <3> QED
      BY <2>5, <3>1, <3>2, <3>3, <3>4
  <2>9. CASE w \notin from
    <3>1. secs'[w] = secs[w] /\ secs[w] \in Reached[n][<<w, goal>>]
      BY <1>8, <2>1, <2>9 DEF Sweeping
    <3>2. Reached[n][<<w, goal>>] \subseteq Reached[n + 1][<<w, goal>>]
      BY <2>5, <2>6, <2>7, TripFacts
    <3> QED
      BY <2>5, <3>1, <3>2
  <2> QED
    BY <2>8, <2>9
<1> QED
  BY <1>3, <1>13, <1>14, <1>15, <1>16, <1>17 DEF Sweeping

\* When its heap is empty the sweep has every trip to the rider, at its fastest.
LEMMA SweepExact == Sweeping => TimesExact
<1> SUFFICES ASSUME Sweeping, heap = {}, NEW v \in RoadNodes
             PROVE  /\ v \in DOMAIN secs <=> <<v, goal>> \in DOMAIN Fastest
                    /\ v \in DOMAIN secs => secs[v] = Fastest[<<v, goal>>]
  BY DEF TimesExact
<1> DEFINE N == Cardinality(RoadNodes)
           G == {n \in Nat : n <= N => \A w \in RoadNodes : \A t \in Reached[n][<<w, goal>>] :
                               w \in DOMAIN secs /\ secs[w] <= t}
<1>1. /\ N \in Nat /\ goal \in RoadNodes /\ closed = DOMAIN secs /\ DOMAIN secs \subseteq RoadNodes
      /\ \A w \in DOMAIN secs : secs[w] \in Nat
      /\ goal \in DOMAIN secs /\ secs[goal] = 0
  BY RoadsFinite DEF Sweeping, RouterTypeOK
<1>2. \A w \in RoadNodes : <<w, goal>> \in Trips
  BY <1>1 DEF Trips
<1>3. 0 \in G
  <2>1. \A w \in RoadNodes : Reached[0][<<w, goal>>] = IF w = goal THEN {0} ELSE {}
    BY <1>2, TripSteps DEF Stay
  <2> QED
    BY <1>1, <2>1
<1>4. ASSUME NEW n \in Nat, n \in G PROVE n + 1 \in G
  <2> SUFFICES ASSUME n + 1 <= N, NEW w \in RoadNodes, NEW t \in Reached[n + 1][<<w, goal>>]
               PROVE  w \in DOMAIN secs /\ secs[w] <= t
    OBVIOUS
  <2>1. n < N /\ n <= N /\ \A u \in RoadNodes : \A r \in Reached[n][<<u, goal>>] :
                               u \in DOMAIN secs /\ secs[u] <= r
    BY <1>1, <1>4
  <2>2. \/ t \in Reached[n][<<w, goal>>]
        \/ \E a \in DOMAIN Roads : /\ a[1] = w
             /\ \E r \in Reached[n][<<a[2], goal>>] : t = Roads[a] + r
    BY <1>2, <2>1, TripFacts
  <2>3. CASE t \in Reached[n][<<w, goal>>]
    BY <2>1, <2>3
  <2>4. ASSUME NEW a \in DOMAIN Roads, a[1] = w,
               NEW r \in Reached[n][<<a[2], goal>>], t = Roads[a] + r
        PROVE  w \in DOMAIN secs /\ secs[w] <= t
    <3>1. PICK u \in RoadNodes : a = <<w, u>>
      BY <2>4, RouterAssumption
    <3>2. u \in DOMAIN secs /\ secs[u] <= r
      BY <2>1, <2>4, <3>1
    <3>3. r \in Nat
      BY <1>2, <2>1, <2>4, <3>1, TripFacts
    <3>4. w \in DOMAIN secs /\ secs[w] <= secs[u] + Roads[<<w, u>>]
      BY <1>1, <3>1, <3>2 DEF Sweeping
    <3>5. Roads[<<w, u>>] \in Nat /\ secs[u] \in Nat /\ secs[w] \in Nat
      BY <1>1, <3>1, <3>2, <3>4, RouterAssumption
    <3> QED
      BY <2>4, <3>1, <3>2, <3>3, <3>4, <3>5
  <2> QED
    BY <2>2, <2>3, <2>4
<1>5. N \in G
  <2> HIDE DEF G
  <2> QED
    BY <1>1, <1>3, <1>4, NatSteps
<1>6. PICK S : S = Times[<<v, goal>>]
  OBVIOUS
<1>7. S = Reached[N][<<v, goal>>] /\ S \subseteq Nat
  BY <1>1, <1>2, <1>6, TripSteps, TripFacts
<1>8. \A t \in S : v \in DOMAIN secs /\ secs[v] <= t
  BY <1>1, <1>5, <1>7
<1>9. ASSUME v \in DOMAIN secs PROVE secs[v] \in S
  <2>1. PICK n : n = Cardinality(closed)
    OBVIOUS
  <2>2. IsFiniteSet(RoadNodes) /\ closed \subseteq RoadNodes
    BY <1>1, RouterAssumption
  <2>3. n \in Nat /\ n <= N
    BY <2>1, <2>2, FS_Subset, FS_CardinalityType
  <2>4. secs[v] \in Reached[n][<<v, goal>>]
    BY <1>9, <2>1 DEF Sweeping
  <2> DEFINE H == {k \in Nat : n + k <= N => secs[v] \in Reached[n + k][<<v, goal>>]}
  <2>5. 0 \in H
    BY <2>3, <2>4
  <2>6. ASSUME NEW k \in Nat, k \in H PROVE k + 1 \in H
    <3> SUFFICES ASSUME n + (k + 1) <= N PROVE secs[v] \in Reached[n + (k + 1)][<<v, goal>>]
      OBVIOUS
    <3>1. PICK m \in Nat : m = n + k
      BY <2>3
    <3>2. m < N /\ m <= N /\ m + 1 = n + (k + 1)
      BY <1>1, <2>3, <3>1
    <3>3. secs[v] \in Reached[m][<<v, goal>>]
      BY <2>6, <3>1, <3>2
    <3>4. Reached[m][<<v, goal>>] \subseteq Reached[m + 1][<<v, goal>>]
      BY <1>2, <3>2, TripFacts
    <3> QED
      BY <3>2, <3>3, <3>4
  <2>7. PICK k \in Nat : n + k = N
    BY <1>1, <2>3
  <2>8. k \in H
    <3> HIDE DEF H
    <3> QED
      BY <2>5, <2>6, NatSteps
  <2>9. N <= N => secs[v] \in Reached[N][<<v, goal>>]
    BY <2>7, <2>8
  <2> QED
    BY <1>1, <1>7, <2>9
<1>10. DOMAIN Fastest = {q \in RoadNodes \X RoadNodes : Times[q] # {}}
  BY DEF Fastest
<1>11. v \in DOMAIN secs <=> <<v, goal>> \in DOMAIN Fastest
  BY <1>1, <1>6, <1>8, <1>9, <1>10
<1>12. ASSUME v \in DOMAIN secs PROVE secs[v] = Fastest[<<v, goal>>]
  <2>1. Fastest[<<v, goal>>] = Min(S)
    BY <1>6, <1>10, <1>11, <1>12 DEF Fastest
  <2>2. PICK m : m = Min(S)
    OBVIOUS
  <2>3. m \in S /\ \A t \in S : m <= t
    <3>1. secs[v] \in S /\ \A t \in S : secs[v] <= t
      BY <1>8, <1>9, <1>12
    <3> QED
      BY <2>2, <3>1 DEF Min
  <2> QED
    BY <1>1, <1>7, <1>8, <1>9, <1>12, <2>1, <2>2, <2>3
<1> QED
  BY <1>11, <1>12

-----------------------------------------------------------------------------
(* Places, distances and the batch *)

\* A request has places and whole numbers in it.
LEMMA BatchTypes ==
  batch = NoBatch \/ batch \in Batches =>
    /\ batch.riders \in Seq(Place) /\ batch.drivers \in Seq(Place)
    /\ batch.k \in Nat /\ batch.cutoff \in Nat
    /\ Len(batch.riders) \in Nat /\ Riders = 1..Len(batch.riders)
    /\ Len(batch.drivers) \in Nat /\ Drivers = 1..Len(batch.drivers)
    /\ \A i \in Riders : batch.riders[i] \in Place
    /\ \A j \in Drivers : batch.drivers[j] \in Place
<1> SUFFICES ASSUME batch = NoBatch \/ batch \in Batches
             PROVE  /\ batch.riders \in Seq(Place) /\ batch.drivers \in Seq(Place)
                    /\ batch.k \in Nat /\ batch.cutoff \in Nat
                    /\ Len(batch.riders) \in Nat /\ Riders = 1..Len(batch.riders)
                    /\ Len(batch.drivers) \in Nat /\ Drivers = 1..Len(batch.drivers)
                    /\ \A i \in Riders : batch.riders[i] \in Place
                    /\ \A j \in Drivers : batch.drivers[j] \in Place
  OBVIOUS
<1>1. /\ batch.riders \in Seq(Place) /\ batch.drivers \in Seq(Place)
      /\ batch.k \in Nat /\ batch.cutoff \in Nat
  <2>1. CASE batch = NoBatch
    <3>1. batch.riders = <<>> /\ batch.drivers = <<>> /\ batch.k = 0 /\ batch.cutoff = 0
      BY <2>1 DEF NoBatch
    <3> QED
      BY <3>1
  <2>2. CASE batch \in Batches
    BY <2>2, BatchesAssumption
  <2> QED
    BY <2>1, <2>2
<1>2. PICK r \in Seq(Place), d \in Seq(Place) : r = batch.riders /\ d = batch.drivers
  BY <1>1
<1>3. Riders = DOMAIN r /\ Drivers = DOMAIN d
  BY <1>2 DEF Riders, Drivers
<1>4. /\ Len(r) \in Nat /\ DOMAIN r = 1..Len(r) /\ \A i \in DOMAIN r : r[i] \in Place
      /\ Len(d) \in Nat /\ DOMAIN d = 1..Len(d) /\ \A i \in DOMAIN d : d[i] \in Place
  OBVIOUS
<1> QED
  BY <1>1, <1>2, <1>3, <1>4

\* Squares of distances are natural numbers.
LEMMA DistNat ==
  ASSUME NEW a \in Place, NEW b \in Place
  PROVE  distSq(a, b) \in Nat
<1>1. PICK u \in Int, v \in Int : u = a.x - b.x /\ v = a.y - b.y
  BY DEF Place
<1>2. u * u \in Nat /\ v * v \in Nat
  OBVIOUS
<1> QED
  BY <1>1, <1>2 DEF distSq

\* There is a nearest node.
LEMMA NearestNode ==
  ASSUME NEW p \in Place
  PROVE  nearestNode(p) \in RoadNodes
<1>1. PICK S : S = {distSq(v, p) : v \in RoadNodes}
  OBVIOUS
<1>2. S \in SUBSET Nat /\ S # {}
  BY <1>1, DistNat, RouterAssumption, BatchesAssumption
<1>3. PICK d \in S : \A k \in S : d <= k
  BY <1>2, NatMin
<1>4. PICK v \in RoadNodes : d = distSq(v, p)
  BY <1>1
<1>5. \A w \in RoadNodes : distSq(v, p) <= distSq(w, p)
  BY <1>1, <1>3, <1>4
<1> QED
  BY <1>5 DEF nearestNode

\* The root of the square of a distance is never more than the two legs.
LEMMA RootBound ==
  ASSUME NEW u \in Int, NEW v \in Int, NEW p \in Nat, NEW q \in Nat,
         u = p \/ u = -p, v = q \/ v = -q
  PROVE  4 * (u * u + v * v) < (2 * (p + q) + 1) * (2 * (p + q) + 1)
<1>1. u * u = p * p /\ v * v = q * q
  OBVIOUS
<1>2. p * q \in Nat /\ p * p \in Nat /\ q * q \in Nat
  OBVIOUS
<1>3. (2 * (p + q) + 1) * (2 * (p + q) + 1) =
        4 * (p * p + q * q) + 8 * (p * q) + 4 * p + 4 * q + 1
  OBVIOUS
<1> QED
  BY <1>1, <1>2, <1>3

\* How far apart two coordinates are.
LEMMA Apart ==
  ASSUME NEW s \in Int, NEW t \in Int
  PROVE  \E p \in Nat : /\ p = Max({s, t}) - Min({s, t}) /\ Max({s, t}) \in Int /\ Min({s, t}) \in Int
                        /\ s - t = p \/ s - t = -p
<1>1. CASE s <= t
  <2>1. Max({s, t}) = t /\ Min({s, t}) = s
    BY <1>1 DEF Max, Min
  <2> QED
    BY <1>1, <2>1
<1>2. CASE t <= s
  <2>1. Max({s, t}) = s /\ Min({s, t}) = t
    BY <1>2 DEF Max, Min
  <2> QED
    BY <1>2, <2>1
<1> QED
  BY <1>1, <1>2

\* The distance that is charged is a natural number.
LEMMA DistanceNat ==
  ASSUME NEW a \in Place, NEW b \in Place
  PROVE  scaledDistance(a, b) \in Nat
<1>1. a.x \in Int /\ a.y \in Int /\ b.x \in Int /\ b.y \in Int
  BY DEF Place
<1>2. PICK p \in Nat : /\ p = Max({a.x, b.x}) - Min({a.x, b.x})
                       /\ a.x - b.x = p \/ a.x - b.x = -p
  BY <1>1, Apart
<1>3. PICK q \in Nat : /\ q = Max({a.y, b.y}) - Min({a.y, b.y})
                       /\ a.y - b.y = q \/ a.y - b.y = -q
  BY <1>1, Apart
<1>4. PICK D \in Nat : D = distSq(a, b)
  BY DistNat
<1>5. 4 * D < (2 * (p + q) + 1) * (2 * (p + q) + 1)
  <2>1. PICK u \in Int, v \in Int : u = a.x - b.x /\ v = a.y - b.y
    BY <1>1
  <2> QED
    BY <1>2, <1>3, <1>4, <2>1, RootBound DEF distSq
<1>6. PICK S : S = {n \in Nat : 4 * D < (2 * n + 1) * (2 * n + 1)}
  OBVIOUS
<1>7. p + q \in S
  BY <1>5, <1>6
<1>8. PICK n \in S : \A k \in S : n <= k
  BY <1>6, <1>7, NatMin
<1>9. n \in 0..(p + q) /\ 4 * D < (2 * n + 1) * (2 * n + 1)
  BY <1>6, <1>7, <1>8
<1>10. (2 * n - 1) * (2 * n - 1) <= 4 * D \/ n = 0
  <2> SUFFICES ASSUME n # 0 PROVE (2 * n - 1) * (2 * n - 1) <= 4 * D
    OBVIOUS
  <2>1. PICK m \in Nat : m + 1 = n
    BY <1>9
  <2>2. m \notin S
    BY <1>8, <2>1
  <2>3. ~ (4 * D < (2 * m + 1) * (2 * m + 1))
    BY <1>6, <2>2
  <2>4. 2 * n - 1 = 2 * m + 1
    BY <2>1
  <2> QED
    BY <2>3, <2>4
<1>11. PICK L : L = Max({a.x, b.x}) - Min({a.x, b.x}) + Max({a.y, b.y}) - Min({a.y, b.y})
  OBVIOUS
<1>12. L = p + q
  <2>1. PICK e \in Int, f \in Int : e = Max({a.y, b.y}) /\ f = Min({a.y, b.y})
    BY <1>1, Apart
  <2> QED
    BY <1>2, <1>3, <1>11, <2>1
<1>13. \E m \in 0..L : /\ (2 * m - 1) * (2 * m - 1) <= 4 * distSq(a, b) \/ m = 0
                       /\ 4 * distSq(a, b) < (2 * m + 1) * (2 * m + 1)
  BY <1>4, <1>9, <1>10, <1>12
<1>14. scaledDistance(a, b) = CHOOSE m \in 0..L :
                                /\ (2 * m - 1) * (2 * m - 1) <= 4 * distSq(a, b) \/ m = 0
                                /\ 4 * distSq(a, b) < (2 * m + 1) * (2 * m + 1)
  BY <1>11 DEF scaledDistance
<1>15. scaledDistance(a, b) \in 0..L
  BY <1>13, <1>14
<1> QED
  BY <1>12, <1>15

\* The fastest time of a trip is a natural number.
LEMMA FastestNat ==
  ASSUME NEW p \in DOMAIN Fastest
  PROVE  Fastest[p] \in Nat
<1>1. p \in Trips /\ Times[p] # {} /\ Fastest[p] = Min(Times[p])
  BY DEF Fastest, Trips
<1>2. PICK S : S = Times[p]
  OBVIOUS
<1>3. S \in SUBSET Nat
  BY <1>1, <1>2, TripSteps, TripFacts, RoadsFinite
<1>4. \E m \in S : \A k \in S : m <= k
  BY <1>1, <1>2, <1>3, NatMin
<1>5. Min(S) \in S
  BY <1>4 DEF Min
<1> QED
  BY <1>1, <1>2, <1>3, <1>5

-----------------------------------------------------------------------------
(* The stages of a batch *)

\* The solver has been asked, and its network is still there.
Served == phase = "solving" \/ (phase = "answered" /\ mode = "done")

\* Where the handler can be with what it has checked.
Stages ==
  /\ phase \in {"idle", "received", "index", "shortlist", "price", "built", "solving", "answered"}
  /\ batch = NoBatch \/ batch \in Batches
  /\ next \in {1} \cup Riders \cup Drivers
  /\ phase \in {"index", "shortlist", "price", "built"} \/ Served =>
       Acceptable /\ Riders # {} /\ Drivers # {}
  /\ phase \in {"idle", "received"} => next = 1
  /\ phase = "index" => next \in Drivers /\ K # 0
  /\ phase \in {"shortlist", "price"} => next \in Riders
  /\ phase = "built" => next = Len(batch.riders)

\* The router works only between a shortlist and its prices, for the rider at hand.
Sweeps ==
  /\ phase = "price" /\ TravelTime => Sweeping /\ goal = nearestNode(batch.riders[next])
  /\ ~(phase = "price" /\ TravelTime) => RouterInit

\* The riders before the one at hand have shortlists, of drivers of the batch.
Lists ==
  /\ shortlist \in Seq(SUBSET Drivers)
  /\ phase \in {"idle", "received", "index"} => shortlist = <<>>
  /\ phase = "shortlist" => Len(shortlist) = next - 1
  /\ phase = "price" => Len(shortlist) = next
  /\ phase = "built" \/ Served => Len(shortlist) = Len(batch.riders)
  /\ phase \in {"idle", "received"} => tree = NoTree
  /\ tree = [root |-> tree.root, points |-> tree.points, divided |-> tree.divided]
  /\ \A e \in tree.points : e.id \in Drivers

\* Who can get to whom, and at which price, by the definition of driving times.
Reaches(i, j) ==
  TravelTime =>
    <<nearestNode(batch.drivers[j]), nearestNode(batch.riders[i])>> \in DOMAIN Fastest

Far(i, j) ==
  IF TravelTime THEN Fastest[<<nearestNode(batch.drivers[j]), nearestNode(batch.riders[i])>>]
  ELSE scaledDistance(batch.riders[i], batch.drivers[j])

\* The edges are those of the first n riders, at these prices.
EdgesUpto(n) ==
  /\ DOMAIN edges = {e \in Riders \X Drivers :
                       e[1] <= n /\ e[2] \in shortlist[e[1]] /\ Reaches(e[1], e[2])}
  /\ \A e \in DOMAIN edges : edges[e] = Far(e[1], e[2])

Edged ==
  /\ phase \in {"idle", "received", "index"} => edges = <<>>
  /\ phase \in {"shortlist", "price"} => EdgesUpto(next - 1)
  /\ phase = "built" \/ Served => EdgesUpto(Len(batch.riders))
  /\ DOMAIN edges \subseteq Riders \X Drivers /\ \A e \in DOMAIN edges : edges[e] \in Nat

\* The solver works on the network of the kept edges, and only when it is asked.
Solves ==
  /\ Served => price = FlowGraph /\ SolverInv /\ Paid
  /\ ~Served => SolverInit

\* What is answered after the solver is done is what it found.
Responds ==
  phase = "answered" /\ mode = "done" =>
    answer = [status |-> "ok", matches |-> Chosen, totalCost |-> cost,
              reasons |-> [i \in Riders \ {e[1] : e \in Chosen} |-> Reason(i)]]

EngineInv == Stages /\ Sweeps /\ Lists /\ Edged /\ Solves /\ Responds

\* It holds of the idle engine.
LEMMA EngineBegins == Init => EngineInv
<1> SUFFICES ASSUME Init PROVE EngineInv
  OBVIOUS
<1>1. /\ phase = "idle" /\ batch = NoBatch /\ next = 1 /\ tree = NoTree /\ radius = 0
      /\ shortlist = <<>> /\ edges = <<>> /\ answer = NoAnswer /\ RouterInit /\ SolverInit
  BY DEF Init, ServiceInit
<1>2. ~Served /\ mode = "off"
  BY <1>1 DEF Served, SolverInit
<1>3. Stages
  BY <1>1, <1>2 DEF Stages
<1>4. Sweeps
  BY <1>1 DEF Sweeps
<1>5. Lists
  <2>1. tree.points = {}
    BY <1>1 DEF NoTree, EmptyTree
  <2>2. tree = [root |-> tree.root, points |-> tree.points, divided |-> tree.divided]
    BY <1>1 DEF NoTree, EmptyTree
  <2> QED
    BY <1>1, <1>2, <2>1, <2>2 DEF Lists
<1>6. Edged
  BY <1>1, <1>2 DEF Edged
<1> QED
  BY <1>1, <1>2, <1>3, <1>4, <1>5, <1>6 DEF EngineInv, Solves, Responds

\* What hangs on the request stays while the request does.
LEMMA SameBatch ==
  ASSUME batch' = batch
  PROVE  /\ Riders' = Riders /\ Drivers' = Drivers /\ K' = K
         /\ TravelTime' <=> TravelTime
         /\ Acceptable' <=> Acceptable
BY DEF Riders, Drivers, K, TravelTime, Acceptable

\* Edges stay while the request and the shortlists do.
LEMMA SameEdges ==
  ASSUME NEW n, EdgesUpto(n), UNCHANGED <<batch, shortlist, edges>>
  PROVE  EdgesUpto(n)'
BY DEF EdgesUpto, Reaches, Far, TravelTime, Riders, Drivers

\* A step that leaves the router and the solver as they are while both are idle
\* keeps them so.
LEMMA StillIdle ==
  ASSUME EngineInv, ~Served, ~(phase = "price" /\ TravelTime), phase' # "price", phase' # "solving",
         UNCHANGED <<routerVars, solverVars>>
  PROVE  Sweeps' /\ Solves' /\ Responds' /\ ~Served'
<1>1. RouterInit /\ SolverInit
  BY DEF EngineInv, Sweeps, Solves
<1>2. RouterInit' /\ SolverInit'
  BY <1>1 DEF routerVars, solverVars, RouterInit, SolverInit
<1>3. ~Served' /\ mode' # "done"
  BY <1>2 DEF Served, SolverInit
<1> QED
  BY <1>2, <1>3 DEF Sweeps, Solves, Responds

\* A request comes in.
LEMMA ReceiveInv ==
  ASSUME EngineInv, NEW b \in Batches, Receive(b)
  PROVE  EngineInv'
<1>1. /\ phase = "idle" /\ phase' = "received" /\ batch' = b
      /\ UNCHANGED <<next, tree, radius, shortlist, edges, answer, routerVars, solverVars>>
  BY DEF Receive
<1>2. ~Served
  BY <1>1 DEF Served
<1>3. Sweeps' /\ Solves' /\ Responds' /\ ~Served'
  BY <1>1, <1>2, StillIdle
<1>4. next = 1 /\ tree = NoTree /\ shortlist = <<>> /\ edges = <<>>
  BY <1>1 DEF EngineInv, Stages, Lists, Edged
<1>5. Stages'
  BY <1>1, <1>3, <1>4 DEF Stages
<1>6. Lists'
  <2>1. tree'.points = {} /\ tree' = [root |-> tree'.root, points |-> tree'.points, divided |-> tree'.divided]
    BY <1>1, <1>4 DEF NoTree, EmptyTree
  <2>2. shortlist' \in Seq(SUBSET Drivers')
    BY <1>1, <1>4
  <2> QED
    BY <1>1, <1>3, <1>4, <2>1, <2>2 DEF Lists
<1>7. Edged'
  BY <1>1, <1>3, <1>4 DEF Edged
<1> QED
  BY <1>3, <1>5, <1>6, <1>7 DEF EngineInv

\* A batch is answered without the solver.
LEMMA AnsweredInv ==
  ASSUME EngineInv, phase \in {"received", "built"}, phase' = "answered",
         UNCHANGED <<batch, next, tree, radius, shortlist, edges, routerVars, solverVars>>
  PROVE  EngineInv'
<1>1. ~Served
  BY DEF Served
<1>2. Sweeps' /\ Solves' /\ Responds' /\ ~Served'
  BY <1>1, StillIdle
<1>3. Riders' = Riders /\ Drivers' = Drivers
  BY SameBatch
<1>4. Stages'
  BY <1>2, <1>3 DEF EngineInv, Stages
<1>5. Lists'
  BY <1>2, <1>3 DEF EngineInv, Lists
<1>6. Edged'
  BY <1>2, <1>3 DEF EngineInv, Edged
<1> QED
  BY <1>2, <1>4, <1>5, <1>6 DEF EngineInv

\* The loops begin.
LEMMA BuildInv ==
  ASSUME EngineInv, Build
  PROVE  EngineInv'
<1>1. /\ phase = "received" /\ Acceptable /\ Riders # {} /\ Drivers # {} /\ next' = 1
      /\ phase' = IF K = 0 THEN "shortlist" ELSE "index"
      /\ tree' = IF K = 0 THEN tree
                 ELSE EmptyTree(IF TravelTime THEN BoundingWorld ELSE SquareWorld)
      /\ UNCHANGED <<batch, radius, shortlist, edges, answer, routerVars, solverVars>>
  BY DEF Build
<1>2. ~Served
  BY <1>1 DEF Served
<1>3. Sweeps' /\ Solves' /\ Responds' /\ ~Served'
  BY <1>1, <1>2, StillIdle
<1>4. Riders' = Riders /\ Drivers' = Drivers /\ K' = K /\ (Acceptable' <=> Acceptable)
  BY <1>1, SameBatch
<1>5. batch = NoBatch \/ batch \in Batches
  BY DEF EngineInv, Stages
<1>6. 1 \in Riders /\ 1 \in Drivers
  BY <1>1, <1>5, BatchTypes
<1>7. shortlist = <<>> /\ edges = <<>> /\ Len(shortlist) = 0
  BY <1>1 DEF EngineInv, Lists, Edged
<1>8. Stages'
  BY <1>1, <1>3, <1>4, <1>5, <1>6 DEF Stages
<1>9. Lists'
  <2>1. tree' = [root |-> tree'.root, points |-> tree'.points, divided |-> tree'.divided]
        /\ \A e \in tree'.points : e.id \in Drivers
    <3>1. CASE K = 0
      BY <1>1, <3>1 DEF EngineInv, Lists
    <3>2. CASE K # 0
      <4>1. PICK r : tree' = EmptyTree(r)
        BY <1>1, <3>2
      <4> QED
        BY <4>1 DEF EmptyTree
    <3> QED
      BY <3>1, <3>2
  <2>2. shortlist' \in Seq(SUBSET Drivers')
    BY <1>1, <1>7
  <2> QED
    BY <1>1, <1>3, <1>4, <1>7, <2>1, <2>2 DEF Lists
<1>10. Edged'
  <2>1. EdgesUpto(0)'
    <3>1. DOMAIN edges' = {}
      BY <1>1, <1>7
    <3>2. {e \in Riders' \X Drivers' : e[1] <= 0 /\ e[2] \in shortlist'[e[1]] /\ Reaches(e[1], e[2])'} = {}
      BY <1>4, <1>5, BatchTypes
    <3> QED
      BY <3>1, <3>2 DEF EdgesUpto
  <2>2. next' - 1 = 0
    BY <1>1
  <2> QED
    BY <1>1, <1>3, <1>7, <2>1, <2>2 DEF Edged
<1> QED
  BY <1>3, <1>8, <1>9, <1>10 DEF EngineInv

Shaped(t) == t = [root |-> t.root, points |-> t.points, divided |-> t.divided]

\* Insertion adds the point or nothing, and leaves the root alone.
LEMMA InsertAdds ==
  ASSUME NEW t, Shaped(t), NEW p
  PROVE  /\ Shaped(insert(t, p)) /\ insert(t, p).root = t.root
         /\ \A e \in insert(t, p).points : e \in t.points \/ e.id = p.id
<1>1. CASE ~contains(t.root, p)
  <2>1. insert(t, p) = t
    BY <1>1 DEF insert
  <2> QED
    BY <2>1
<1>2. CASE contains(t.root, p)
  <2>1. PICK depth : depth = Min({n \in 0..MaxDepth : HasRoom(t, NodeOf(t, p, n))})
    OBVIOUS
  <2>2. PICK node : node = NodeOf(t, p, depth)
    OBVIOUS
  <2>3. PICK e, D : e = [node |-> node, id |-> p.id, x |-> p.x, y |-> p.y]
                    /\ D = {Above(node, n) : n \in 1..depth}
    OBVIOUS
  <2>4. insert(t, p) = [t EXCEPT !.points = @ \cup {e}, !.divided = @ \cup D]
    BY <1>2, <2>1, <2>2, <2>3 DEF insert
  <2>5. insert(t, p) = [root |-> t.root, points |-> t.points \cup {e}, divided |-> t.divided \cup D]
    BY <2>4 DEF Shaped
  <2>6. e.id = p.id
    BY <2>3
  <2> QED
    BY <2>5, <2>6 DEF Shaped
<1> QED
  BY <1>1, <1>2

\* A driver is put into the tree.
LEMMA IndexInv ==
  ASSUME EngineInv, Index
  PROVE  EngineInv'
<1>1. /\ phase = "index"
      /\ UNCHANGED <<batch, radius, shortlist, edges, answer, routerVars, solverVars>>
      /\ \/ next = Len(batch.drivers) /\ phase' = "shortlist" /\ next' = 1
         \/ next # Len(batch.drivers) /\ phase' = "index" /\ next' = next + 1
  BY DEF Index
<1>2. PICK p : p.id = next /\ tree' = insert(tree, p)
  <2>1. PICK p : p = [id |-> next, x |-> batch.drivers[next].x, y |-> batch.drivers[next].y]
    OBVIOUS
  <2>2. p.id = next
    BY <2>1
  <2> QED
    BY <2>1, <2>2 DEF Index
<1>3. ~Served
  BY <1>1 DEF Served
<1>4. Sweeps' /\ Solves' /\ Responds' /\ ~Served'
  BY <1>1, <1>3, StillIdle
<1>5. Riders' = Riders /\ Drivers' = Drivers /\ K' = K /\ (Acceptable' <=> Acceptable)
  BY <1>1, SameBatch
<1>6. /\ batch = NoBatch \/ batch \in Batches
      /\ Acceptable /\ Riders # {} /\ Drivers # {} /\ next \in Drivers /\ K # 0
  BY <1>1 DEF EngineInv, Stages
<1>7. /\ 1 \in Riders /\ next \in Nat /\ Len(batch.drivers) \in Nat
      /\ Drivers = 1..Len(batch.drivers) /\ Riders = 1..Len(batch.riders)
  BY <1>6, BatchTypes
<1>8. shortlist = <<>> /\ edges = <<>> /\ Len(shortlist) = 0
  BY <1>1 DEF EngineInv, Lists, Edged
<1>9. Stages'
  <2>1. CASE phase' = "shortlist"
    BY <1>1, <1>4, <1>5, <1>6, <1>7, <2>1 DEF Stages
  <2>2. CASE phase' = "index"
    <3>1. next' \in Drivers
      BY <1>1, <1>6, <1>7, <2>2
    <3> QED
      BY <1>1, <1>4, <1>5, <1>6, <2>2, <3>1 DEF Stages
  <2> QED
    BY <1>1, <2>1, <2>2
<1>10. Lists'
  <2>1. Shaped(tree) /\ \A e \in tree.points : e.id \in Drivers
    BY DEF EngineInv, Lists, Shaped
  <2>2. Shaped(tree') /\ \A e \in tree'.points : e.id \in Drivers
    BY <1>2, <1>6, <2>1, InsertAdds
  <2>3. shortlist' \in Seq(SUBSET Drivers')
    BY <1>1, <1>8
  <2> QED
    BY <1>1, <1>4, <1>5, <1>8, <2>2, <2>3 DEF Lists, Shaped
<1>11. Edged'
  <2>1. EdgesUpto(0)'
    <3>1. DOMAIN edges' = {}
      BY <1>1, <1>8
    <3>2. {e \in Riders' \X Drivers' : e[1] <= 0 /\ e[2] \in shortlist'[e[1]] /\ Reaches(e[1], e[2])'} = {}
      BY <1>5, <1>7
    <3> QED
      BY <3>1, <3>2 DEF EdgesUpto
  <2>2. phase' = "shortlist" => next' - 1 = 0
    BY <1>1
  <2> QED
    BY <1>1, <1>4, <1>8, <2>1, <2>2 DEF Edged
<1> QED
  BY <1>4, <1>9, <1>10, <1>11 DEF EngineInv

\* Nothing but the box of kNearest changes.
LEMMA RadiusInv ==
  ASSUME EngineInv, phase = "shortlist",
         UNCHANGED <<phase, batch, next, tree, shortlist, edges, answer, routerVars, solverVars>>
  PROVE  EngineInv'
<1>1. ~Served
  BY DEF Served
<1>2. Sweeps' /\ Solves' /\ Responds' /\ ~Served'
  BY <1>1, StillIdle
<1>3. Riders' = Riders /\ Drivers' = Drivers /\ K' = K /\ (Acceptable' <=> Acceptable)
  BY SameBatch
<1>4. Stages'
  BY <1>2, <1>3 DEF EngineInv, Stages
<1>5. Lists'
  BY <1>2, <1>3 DEF EngineInv, Lists
<1>6. Edged'
  <2>1. PICK n : n = next - 1
    OBVIOUS
  <2>2. EdgesUpto(n)
    BY <2>1 DEF EngineInv, Edged
  <2>3. EdgesUpto(n)'
    BY <2>2, SameEdges
  <2>4. n = next' - 1
    BY <2>1
  <2>5. EdgesUpto(next - 1)'
    BY <2>3, <2>4 DEF EdgesUpto
  <2> QED
    BY <1>2, <1>3, <2>5 DEF EngineInv, Edged
<1> QED
  BY <1>2, <1>4, <1>5, <1>6 DEF EngineInv

\* What a rider is priced against is a set of drivers of the batch.
LEMMA ShortlistOne ==
  ASSUME EngineInv, Shortlist
  PROVE  \E near \in SUBSET Drivers :
           /\ shortlist' = Append(shortlist, near)
           /\ \/ K = 0 /\ near = Drivers
              \/ /\ radius > 0 /\ Final(tree, batch.riders[next], K, radius)
                 /\ \E found \in kNearest(tree, batch.riders[next], K, radius) :
                      near = {e.id : e \in found}
<1>1. \/ K = 0 /\ shortlist' = Append(shortlist, Drivers)
      \/ /\ radius > 0 /\ Final(tree, batch.riders[next], K, radius)
         /\ \E near \in kNearest(tree, batch.riders[next], K, radius) :
              shortlist' = Append(shortlist, {e.id : e \in near})
  BY DEF Shortlist
<1>2. ASSUME NEW found \in kNearest(tree, batch.riders[next], K, radius)
      PROVE  {e.id : e \in found} \in SUBSET Drivers
  <2>1. found \subseteq tree.points
    BY <1>2 DEF kNearest, NearestOf, Candidates, queryRange
  <2> QED
    BY <2>1 DEF EngineInv, Lists
<1> QED
  BY <1>1, <1>2

\* A rider gets a shortlist, and on roads a sweep begins.
LEMMA ShortlistInv ==
  ASSUME EngineInv, Shortlist
  PROVE  EngineInv'
<1>1. /\ phase = "shortlist" /\ phase' = "price"
      /\ UNCHANGED <<batch, next, tree, edges, answer, solverVars>>
  BY DEF Shortlist
<1>2. PICK near \in SUBSET Drivers : shortlist' = Append(shortlist, near)
  BY ShortlistOne
<1>3. Riders' = Riders /\ Drivers' = Drivers /\ K' = K /\ (Acceptable' <=> Acceptable)
      /\ (TravelTime' <=> TravelTime)
  BY <1>1, SameBatch
<1>4. /\ batch = NoBatch \/ batch \in Batches
      /\ Acceptable /\ Riders # {} /\ Drivers # {} /\ next \in Riders
  BY <1>1 DEF EngineInv, Stages
<1>5. /\ next \in Nat /\ Len(batch.riders) \in Nat /\ Riders = 1..Len(batch.riders)
      /\ batch.riders[next] \in Place
  BY <1>4, BatchTypes
<1>6. /\ shortlist \in Seq(SUBSET Drivers) /\ Len(shortlist) = next - 1
      /\ EdgesUpto(next - 1) /\ DOMAIN edges \subseteq Riders \X Drivers
      /\ \A e \in DOMAIN edges : edges[e] \in Nat
  BY <1>1 DEF EngineInv, Lists, Edged
<1>7. ~Served /\ SolverInit
  BY <1>1 DEF Served, EngineInv, Solves
<1>8. ~Served' /\ SolverInit'
  BY <1>1, <1>7 DEF Served, solverVars, SolverInit
<1>9. Solves' /\ Responds'
  BY <1>1, <1>8 DEF Solves, Responds
<1>10. Stages'
  BY <1>1, <1>3, <1>4, <1>8 DEF EngineInv, Stages
<1>11. Sweeps'
  <2>1. CASE TravelTime
    <3>1. nearestNode(batch.riders[next]) \in RoadNodes
      BY <1>5, NearestNode
    <3>2. BeginSweep(nearestNode(batch.riders[next]))
      BY <2>1 DEF Shortlist
    <3>3. Sweeping' /\ goal' = nearestNode(batch.riders[next])
      BY <3>1, <3>2, SweepBegins
    <3> QED
      BY <1>1, <1>3, <2>1, <3>3 DEF Sweeps
  <2>2. CASE ~TravelTime
    <3>1. RouterInit /\ UNCHANGED routerVars
      BY <2>2 DEF Shortlist, EngineInv, Sweeps
    <3>2. RouterInit'
      BY <3>1 DEF RouterInit, routerVars
    <3> QED
      BY <1>3, <2>2, <3>2 DEF Sweeps
  <2> QED
    BY <2>1, <2>2
<1>12. /\ shortlist' \in Seq(SUBSET Drivers) /\ Len(shortlist') = next
       /\ \A i \in Riders : i <= next - 1 => shortlist'[i] = shortlist[i]
  <2>1. shortlist' \in Seq(SUBSET Drivers) /\ Len(shortlist') = Len(shortlist) + 1
        /\ \A i \in 1..Len(shortlist) : shortlist'[i] = shortlist[i]
    BY <1>2, <1>6
  <2> QED
    BY <1>5, <1>6, <2>1
<1>13. Lists'
  BY <1>1, <1>3, <1>8, <1>12 DEF EngineInv, Lists
<1>14. Edged'
  <2>1. EdgesUpto(next - 1)'
    <3>1. \A e \in Riders \X Drivers : Reaches(e[1], e[2])' <=> Reaches(e[1], e[2])
      BY <1>1 DEF Reaches, TravelTime
    <3>2. \A e \in Riders \X Drivers : Far(e[1], e[2])' = Far(e[1], e[2])
      BY <1>1 DEF Far, TravelTime
    <3>3. \A e \in Riders \X Drivers : e[1] <= next - 1 => shortlist'[e[1]] = shortlist[e[1]]
      BY <1>12
    <3> QED
      BY <1>1, <1>3, <1>6, <3>1, <3>2, <3>3 DEF EdgesUpto
  <2> QED
    BY <1>1, <1>3, <1>6, <1>8, <2>1 DEF Edged
<1> QED
  BY <1>9, <1>10, <1>11, <1>13, <1>14 DEF EngineInv

\* The sweep takes a node off its heap.
LEMMA SweepInv ==
  ASSUME EngineInv, Sweep
  PROVE  EngineInv'
<1>1. /\ phase = "price" /\ SweepStep /\ UNCHANGED <<serviceVars, solverVars>>
  BY DEF Sweep
<1>2. UNCHANGED <<phase, batch, next, tree, radius, shortlist, edges, answer>> /\ UNCHANGED solverVars
  BY <1>1 DEF serviceVars
<1>3. Riders' = Riders /\ Drivers' = Drivers /\ K' = K /\ (Acceptable' <=> Acceptable)
      /\ (TravelTime' <=> TravelTime)
  BY <1>2, SameBatch
<1>4. ~Served /\ SolverInit
  BY <1>1 DEF Served, EngineInv, Solves
<1>5. ~Served' /\ SolverInit'
  BY <1>1, <1>2, <1>4 DEF Served, solverVars, SolverInit
<1>6. Solves' /\ Responds'
  BY <1>1, <1>2, <1>5 DEF Solves, Responds
<1>7. Stages'
  BY <1>1, <1>2, <1>3, <1>5 DEF EngineInv, Stages
<1>8. Sweeps'
  <2>1. PICK v \in RoadNodes : Settle(v)
    BY <1>1 DEF SweepStep
  <2>2. TravelTime
    <3>1. v \in heap
      BY <2>1 DEF Settle
    <3> QED
      BY <3>1 DEF EngineInv, Sweeps, RouterInit
  <2>3. Sweeping /\ goal = nearestNode(batch.riders[next])
    BY <1>1, <2>2 DEF EngineInv, Sweeps
  <2>4. Sweeping' /\ goal' = goal
    BY <2>1, <2>3, SweepGoesOn
  <2> QED
    BY <1>1, <1>2, <1>3, <2>2, <2>3, <2>4 DEF Sweeps
<1>9. Lists'
  BY <1>1, <1>2, <1>3, <1>5 DEF EngineInv, Lists
<1>10. Edged'
  <2>1. PICK n : n = next - 1
    OBVIOUS
  <2>2. EdgesUpto(n)
    BY <1>1, <2>1 DEF EngineInv, Edged
  <2>3. EdgesUpto(n)'
    BY <1>2, <2>2, SameEdges
  <2>4. EdgesUpto(next - 1)'
    BY <1>2, <2>1, <2>3 DEF EdgesUpto
  <2> QED
    BY <1>1, <1>2, <1>3, <1>5, <2>4 DEF EngineInv, Edged
<1> QED
  BY <1>6, <1>7, <1>8, <1>9, <1>10 DEF EngineInv

\* Prices are natural numbers.
LEMMA FarNat ==
  ASSUME batch = NoBatch \/ batch \in Batches, NEW i \in Riders, NEW j \in Drivers, Reaches(i, j)
  PROVE  Far(i, j) \in Nat
<1>1. batch.riders[i] \in Place /\ batch.drivers[j] \in Place
  BY BatchTypes
<1>2. CASE TravelTime
  BY <1>2, FastestNat DEF Reaches, Far
<1>3. CASE ~TravelTime
  BY <1>1, <1>3, DistanceNat DEF Far
<1> QED
  BY <1>2, <1>3

\* The edges of one rider are the drivers on the shortlist who can get there, each
\* at the price of its trip.
LEMMA EdgesOfOne ==
  ASSUME EngineInv, phase = "price", heap = {}, NEW new, new = Edges(next, shortlist[next])
  PROVE  /\ DOMAIN new = {e \in Riders \X Drivers :
                            e[1] = next /\ e[2] \in shortlist[next] /\ Reaches(next, e[2])}
         /\ \A e \in DOMAIN new : new[e] = Far(next, e[2])
<1>1. /\ batch = NoBatch \/ batch \in Batches
      /\ next \in Riders /\ shortlist \in Seq(SUBSET Drivers) /\ Len(shortlist) = next
  BY DEF EngineInv, Stages, Lists
<1>2. next \in 1..Len(shortlist)
  BY <1>1, BatchTypes
<1>3. PICK near : near = shortlist[next] /\ near \subseteq Drivers
  BY <1>1, <1>2
<1>4. CASE TravelTime
  <2>1. Sweeping /\ goal = nearestNode(batch.riders[next])
    BY <1>4 DEF EngineInv, Sweeps
  <2>2. TimesExact /\ closed # {}
    BY <2>1, SweepExact DEF Sweeping, RouterTypeOK
  <2>3. ASSUME NEW j \in Drivers
        PROVE  /\ nearestNode(batch.drivers[j]) \in DOMAIN secs <=> Reaches(next, j)
               /\ nearestNode(batch.drivers[j]) \in DOMAIN secs =>
                    secs[nearestNode(batch.drivers[j])] = Far(next, j)
    <3>1. PICK v \in RoadNodes : v = nearestNode(batch.drivers[j])
      BY <1>1, BatchTypes, NearestNode
    <3>2. /\ v \in DOMAIN secs <=> <<v, goal>> \in DOMAIN Fastest
          /\ v \in DOMAIN secs => secs[v] = Fastest[<<v, goal>>]
      BY <2>2 DEF TimesExact
    <3>3. Reaches(next, j) <=> <<v, goal>> \in DOMAIN Fastest
      BY <1>4, <2>1, <3>1 DEF Reaches
    <3>4. Far(next, j) = Fastest[<<v, goal>>]
      BY <1>4, <2>1, <3>1 DEF Far
    <3> QED
      BY <3>1, <3>2, <3>3, <3>4
  <2>4. new = [e \in {<<next, j>> : j \in {d \in near : nearestNode(batch.drivers[d]) \in DOMAIN secs}} |->
                 secs[nearestNode(batch.drivers[e[2]])]]
    BY <1>3, <1>4 DEF Edges
  <2>5. PICK ok : ok = {d \in near : nearestNode(batch.drivers[d]) \in DOMAIN secs}
    OBVIOUS
  <2>6. /\ DOMAIN new = {<<next, j>> : j \in ok}
        /\ \A e \in DOMAIN new : new[e] = secs[nearestNode(batch.drivers[e[2]])]
    BY <2>4, <2>5
  <2>7. ok = {d \in near : Reaches(next, d)}
    BY <1>3, <2>3, <2>5
  <2>8. DOMAIN new = {e \in Riders \X Drivers :
                            e[1] = next /\ e[2] \in shortlist[next] /\ Reaches(next, e[2])}
    BY <1>1, <1>3, <2>6, <2>7
  <2>9. ASSUME NEW e \in DOMAIN new PROVE new[e] = Far(next, e[2])
    <3>1. PICK j \in ok : e = <<next, j>>
      BY <2>6
    <3>2. j \in Drivers /\ nearestNode(batch.drivers[j]) \in DOMAIN secs
      BY <1>3, <2>5
    <3> QED
      BY <2>3, <2>6, <3>1, <3>2
  <2> QED
    BY <2>8, <2>9
<1>5. CASE ~TravelTime
  <2>1. new = [e \in {<<next, j>> : j \in near} |->
                 scaledDistance(batch.riders[next], batch.drivers[e[2]])]
    BY <1>3, <1>5 DEF Edges
  <2>2. /\ DOMAIN new = {<<next, j>> : j \in near}
        /\ \A e \in DOMAIN new : new[e] = scaledDistance(batch.riders[next], batch.drivers[e[2]])
    BY <2>1
  <2>3. \A j \in Drivers : Reaches(next, j)
    BY <1>5 DEF Reaches
  <2>4. \A e \in DOMAIN new : new[e] = Far(next, e[2])
    BY <1>5, <2>2 DEF Far
  <2>5. DOMAIN new = {e \in Riders \X Drivers :
                            e[1] = next /\ e[2] \in shortlist[next] /\ Reaches(next, e[2])}
    BY <1>1, <1>3, <2>2, <2>3
  <2> QED
    BY <2>4, <2>5
<1> QED
  BY <1>4, <1>5

\* A rider's edges are priced, and its sweep is over.
LEMMA PriceInv ==
  ASSUME EngineInv, Price
  PROVE  EngineInv'
<1>1. PICK new : new = Edges(next, shortlist[next])
  OBVIOUS
<1>2. /\ phase = "price" /\ heap = {}
      /\ edges' = [e \in DOMAIN edges \cup DOMAIN new |->
                     IF e \in DOMAIN new THEN new[e] ELSE edges[e]]
      /\ \/ next = Len(batch.riders) /\ phase' = "built" /\ next' = next
         \/ next # Len(batch.riders) /\ phase' = "shortlist" /\ next' = next + 1
      /\ EndSweep
      /\ UNCHANGED <<batch, tree, radius, shortlist, answer, solverVars>>
  BY <1>1 DEF Price
<1>3. Riders' = Riders /\ Drivers' = Drivers /\ K' = K /\ (Acceptable' <=> Acceptable)
      /\ (TravelTime' <=> TravelTime)
  BY <1>2, SameBatch
<1>4. /\ batch = NoBatch \/ batch \in Batches
      /\ Acceptable /\ Riders # {} /\ Drivers # {} /\ next \in Riders
  BY <1>2 DEF EngineInv, Stages
<1>5. next \in Nat /\ Len(batch.riders) \in Nat /\ Riders = 1..Len(batch.riders)
  BY <1>4, BatchTypes
<1>6. ~Served /\ SolverInit
  BY <1>2 DEF Served, EngineInv, Solves
<1>7. ~Served' /\ SolverInit'
  BY <1>2, <1>6 DEF Served, solverVars, SolverInit
<1>8. Solves' /\ Responds'
  BY <1>2, <1>7 DEF Solves, Responds
<1>9. Sweeps'
  BY <1>2 DEF Sweeps, EndSweep, RouterInit
<1>10. Stages'
  <2>1. CASE phase' = "built"
    BY <1>2, <1>3, <1>4, <1>7, <2>1 DEF EngineInv, Stages
  <2>2. CASE phase' = "shortlist"
    <3>1. next' \in Riders
      BY <1>2, <1>4, <1>5, <2>2
    <3> QED
      BY <1>2, <1>3, <1>4, <1>7, <2>2, <3>1 DEF EngineInv, Stages
  <2> QED
    BY <1>2, <2>1, <2>2
<1>11. Lists'
  <2>1. Len(shortlist) = next
    BY <1>2 DEF EngineInv, Lists
  <2> QED
    BY <1>2, <1>3, <1>5, <1>7, <2>1 DEF EngineInv, Lists
<1>12. /\ DOMAIN new = {e \in Riders \X Drivers :
                          e[1] = next /\ e[2] \in shortlist[next] /\ Reaches(next, e[2])}
       /\ \A e \in DOMAIN new : new[e] = Far(next, e[2])
  BY <1>1, <1>2, EdgesOfOne
<1>13. EdgesUpto(next - 1)
  BY <1>2 DEF EngineInv, Edged
<1>14. DOMAIN edges' = {e \in Riders \X Drivers :
                         e[1] <= next /\ e[2] \in shortlist[e[1]] /\ Reaches(e[1], e[2])}
  <2>1. DOMAIN edges' = DOMAIN edges \cup DOMAIN new
    BY <1>2
  <2>2. \A i \in Riders : i <= next <=> i <= next - 1 \/ i = next
    BY <1>5
  <2> QED
    BY <1>12, <1>13, <2>1, <2>2 DEF EdgesUpto
<1>15. ASSUME NEW e \in DOMAIN edges' PROVE edges'[e] = Far(e[1], e[2])
  <2>1. CASE e \in DOMAIN new
    BY <1>2, <1>12, <2>1
  <2>2. CASE e \notin DOMAIN new
    <3>1. e \in DOMAIN edges /\ edges'[e] = edges[e]
      BY <1>2, <2>2
    <3> QED
      BY <1>13, <3>1 DEF EdgesUpto
  <2> QED
    BY <2>1, <2>2
<1>16. \A n : n = next => EdgesUpto(n)'
  <2> SUFFICES ASSUME NEW n, n = next PROVE EdgesUpto(n)'
    OBVIOUS
  <2>1. \A e \in Riders \X Drivers : Reaches(e[1], e[2])' <=> Reaches(e[1], e[2])
    BY <1>2 DEF Reaches, TravelTime
  <2>2. \A e \in Riders \X Drivers : Far(e[1], e[2])' = Far(e[1], e[2])
    BY <1>2 DEF Far, TravelTime
  <2>3. DOMAIN edges' \subseteq Riders \X Drivers
    BY <1>14
  <2> QED
    BY <1>2, <1>3, <1>14, <1>15, <2>1, <2>2, <2>3 DEF EdgesUpto
<1>17. DOMAIN edges' \subseteq Riders' \X Drivers' /\ \A e \in DOMAIN edges' : edges'[e] \in Nat
  BY <1>3, <1>4, <1>14, <1>15, FarNat
<1>18. Edged'
  <2>1. PICK n : n = next
    OBVIOUS
  <2>2. EdgesUpto(n)'
    BY <1>16, <2>1
  <2>3. CASE phase' = "built"
    <3>1. n = Len(batch.riders)'
      BY <1>2, <2>1, <2>3
    <3>2. EdgesUpto(Len(batch.riders))'
      BY <2>2, <3>1 DEF EdgesUpto
    <3> QED
      BY <1>7, <1>17, <2>3, <3>2 DEF Edged
  <2>4. CASE phase' = "shortlist"
    <3>1. n = next' - 1
      BY <1>2, <1>5, <2>1, <2>4
    <3>2. EdgesUpto(next - 1)'
      BY <2>2, <3>1 DEF EdgesUpto
    <3> QED
      BY <1>7, <1>17, <2>4, <3>2 DEF Edged
  <2> QED
    BY <1>2, <2>3, <2>4
<1> QED
  BY <1>8, <1>9, <1>10, <1>11, <1>18 DEF EngineInv

-----------------------------------------------------------------------------
(* The network of a batch *)

\* The arc of an edge, and the edge of an arc.
ArcOf(e) == <<RiderNode(e[1]), DriverNode(e[2])>>
EdgeOf(a) == <<a[1], a[2] - MaxRiders>>

\* The arcs between riders and drivers are those of the kept edges, at their cost;
\* the others are free, and every rider and driver of an edge has one.
LEMMA FlowFacts ==
  ASSUME batch = NoBatch \/ batch \in Batches, Acceptable,
         DOMAIN edges \subseteq Riders \X Drivers, \A e \in DOMAIN edges : edges[e] \in Nat,
         NEW g, g = FlowGraph
  PROVE  /\ DOMAIN g \subseteq NetArcs
         /\ \A a \in DOMAIN g : g[a] \in Nat
         /\ \A a \in DOMAIN g : a[1] = Source \/ a[2] = Sink => g[a] = 0
         /\ \A a \in DOMAIN g : a \in RiderNodes \X DriverNodes =>
              /\ <<Source, a[1]>> \in DOMAIN g /\ <<a[2], Sink>> \in DOMAIN g
              /\ EdgeOf(a) \in Kept /\ ArcOf(EdgeOf(a)) = a
         /\ \A e \in Kept : /\ ArcOf(e) \in DOMAIN g /\ ArcOf(e) \in RiderNodes \X DriverNodes
                            /\ EdgeOf(ArcOf(e)) = e /\ g[ArcOf(e)] = edges[e]
<1> DEFINE fromSource == {<<Source, RiderNode(i)>> : i \in Riders}
           toSink == {<<DriverNode(j), Sink>> : j \in Drivers}
           pairs == {<<RiderNode(e[1]), DriverNode(e[2])>> : e \in Kept}
<1>1. /\ MaxRiders \in Nat /\ MaxDrivers \in Nat
      /\ Riders \subseteq RiderNodes /\ Riders \subseteq Nat
      /\ \A j \in Drivers : j \in Nat /\ j >= 1 /\ j <= MaxDrivers
  BY BatchTypes, MinCostFlowAssumption DEF Acceptable, RiderNodes
<1>2. \A j \in Drivers : DriverNode(j) \in DriverNodes /\ DriverNode(j) - MaxRiders = j
  BY <1>1 DEF DriverNode, DriverNodes
<1>3. \A e \in Kept : e \in DOMAIN edges /\ e = <<e[1], e[2]>> /\ e[1] \in Riders /\ e[2] \in Drivers
  BY DEF Kept
<1>4. \A e \in Kept : /\ ArcOf(e) \in pairs /\ ArcOf(e) \in RiderNodes \X DriverNodes
                      /\ EdgeOf(ArcOf(e)) = e
  BY <1>1, <1>2, <1>3 DEF ArcOf, EdgeOf, RiderNode
<1>5. ASSUME NEW a \in pairs
      PROVE  /\ a \in RiderNodes \X DriverNodes /\ EdgeOf(a) \in Kept /\ ArcOf(EdgeOf(a)) = a
             /\ a[1] \in Riders /\ \E j \in Drivers : a[2] = DriverNode(j)
  <2>1. PICK e \in Kept : a = ArcOf(e)
    BY DEF ArcOf
  <2> QED
    BY <1>3, <1>4, <2>1 DEF ArcOf, RiderNode
<1>6. /\ DOMAIN g = fromSource \cup toSink \cup pairs
      /\ \A a \in DOMAIN g : g[a] = IF a \in pairs THEN edges[EdgeOf(a)] ELSE 0
  BY DEF FlowGraph, EdgeOf
<1>7. /\ Source \notin RiderNodes /\ Sink \notin DriverNodes /\ Source \notin DriverNodes
      /\ Sink \notin RiderNodes
  BY NodeRanges
<1>8. ASSUME NEW a \in fromSource PROVE a \in {Source} \X RiderNodes
  BY <1>1 DEF RiderNode
<1>9. ASSUME NEW a \in toSink PROVE a \in DriverNodes \X {Sink}
  BY <1>2
<1> HIDE DEF pairs
<1>10. DOMAIN g \subseteq NetArcs
  BY <1>5, <1>6, <1>8, <1>9 DEF NetArcs
<1>11. \A a \in DOMAIN g : g[a] \in Nat
  BY <1>3, <1>5, <1>6
<1>12. \A a \in DOMAIN g : a[1] = Source \/ a[2] = Sink => g[a] = 0
  BY <1>5, <1>6, <1>7
<1>13. ASSUME NEW a \in DOMAIN g, a \in RiderNodes \X DriverNodes
       PROVE  /\ <<Source, a[1]>> \in DOMAIN g /\ <<a[2], Sink>> \in DOMAIN g
              /\ EdgeOf(a) \in Kept /\ ArcOf(EdgeOf(a)) = a
  <2>1. a \in pairs
    BY <1>6, <1>7, <1>8, <1>9, <1>13
  <2>2. <<Source, a[1]>> \in fromSource /\ <<a[2], Sink>> \in toSink
    BY <1>5, <2>1 DEF RiderNode
  <2> QED
    BY <1>5, <1>6, <2>1, <2>2
<1>14. \A e \in Kept : /\ ArcOf(e) \in DOMAIN g /\ ArcOf(e) \in RiderNodes \X DriverNodes
                       /\ EdgeOf(ArcOf(e)) = e /\ g[ArcOf(e)] = edges[e]
  BY <1>4, <1>6
<1> QED
  BY <1>10, <1>11, <1>12, <1>13, <1>14

\* The solver is asked.
LEMMA SolveInv ==
  ASSUME EngineInv, Solve
  PROVE  EngineInv'
<1>1. /\ phase = "built" /\ phase' = "solving"
      /\ UNCHANGED <<batch, next, tree, radius, shortlist, edges, answer, routerVars>>
  BY DEF Solve
<1>2. PICK eng \in {"spfa", "dijkstra"} : Start(FlowGraph, eng)
  BY DEF Solve
<1>3. Riders' = Riders /\ Drivers' = Drivers /\ K' = K /\ (Acceptable' <=> Acceptable)
      /\ (TravelTime' <=> TravelTime)
  BY <1>1, SameBatch
<1>4. /\ batch = NoBatch \/ batch \in Batches
      /\ Acceptable /\ Riders # {} /\ Drivers # {}
      /\ DOMAIN edges \subseteq Riders \X Drivers /\ \A e \in DOMAIN edges : edges[e] \in Nat
  BY <1>1 DEF EngineInv, Stages, Edged
<1>5. Served' /\ phase' # "answered"
  BY <1>1 DEF Served
<1>6. PICK g : g = FlowGraph
  OBVIOUS
<1>7. price' = g /\ Start(g, eng)
  BY <1>2, <1>6 DEF Start
<1>8. Network'
  BY <1>4, <1>6, <1>7, FlowFacts DEF Network
<1>9. SolverInv' /\ Paid'
  BY <1>7, <1>8, StartInv, StartPaid
<1>10. FlowGraph' = FlowGraph
  BY <1>1 DEF FlowGraph, Kept, Riders, Drivers
<1>11. Solves' /\ Responds'
  BY <1>5, <1>6, <1>7, <1>9, <1>10 DEF Solves, Responds
<1>12. Sweeps'
  BY <1>1 DEF EngineInv, Sweeps, RouterInit, routerVars
<1>13. Stages'
  BY <1>1, <1>3, <1>4 DEF EngineInv, Stages
<1>14. Lists'
  BY <1>1, <1>3 DEF EngineInv, Lists
<1>15. Edged'
  <2>1. PICK n : n = Len(batch.riders)
    OBVIOUS
  <2>2. EdgesUpto(n)
    BY <1>1, <2>1 DEF EngineInv, Edged
  <2>3. EdgesUpto(n)'
    BY <1>1, <2>2, SameEdges
  <2>4. EdgesUpto(Len(batch.riders))'
    BY <1>1, <2>1, <2>3 DEF EdgesUpto
  <2> QED
    BY <1>1, <1>3, <1>4, <2>4 DEF Edged
<1> QED
  BY <1>11, <1>12, <1>13, <1>14, <1>15 DEF EngineInv

\* The solver's invariants are about its variables.
LEMMA StillSolved ==
  ASSUME SolverInv, Paid,
         UNCHANGED <<price, arcs, engine, mode, dist, prev, queue, settled, pot, flow, cost>>
  PROVE  SolverInv' /\ Paid'
<1>1. Matched' = Matched
  BY DEF Matched, Pairs
<1>2. Paid'
  BY <1>1 DEF Paid, Sum, FoldSet, MapThenFoldSet
<1>3. Network' /\ Residual' /\ Balanced' /\ SearchTypes'
  BY DEF SolverInv, Network, Residual, Balanced, SearchTypes
<1>4. Priced'
  <2>1. Priced
    BY DEF SolverInv
  <2> QED
    BY <2>1 DEF Priced, Feasible, Cost, Plain
<1>5. mode' \in {"seed", "search"} => SearchInv'
  <2>1. mode' \in {"seed", "search"} => SearchInv
    BY DEF SolverInv
  <2> QED
    BY <2>1 DEF SearchInv, Tree, Scanned, Grounded, Weight, Cost
<1>6. DijkstraSearch' => Ordered' /\ (\E C \in SUBSET Nodes : Guide(C, NoPotential))'
  <2>1. DijkstraSearch' => Ordered /\ \E C \in SUBSET Nodes : Guide(C, NoPotential)
    BY DEF SolverInv, DijkstraSearch
  <2> QED
    BY <2>1 DEF Ordered, Guide, Weight, Cost
<1>7. mode' = "done" => Cut'
  <2>1. mode' = "done" => Cut
    BY DEF SolverInv
  <2> QED
    BY <2>1 DEF Cut
<1> QED
  BY <1>2, <1>3, <1>4, <1>5, <1>6, <1>7 DEF SolverInv

\* While the solver is asked, the rest of the handler stands still.
LEMMA ServedInv ==
  ASSUME EngineInv, phase = "solving", Served', phase' \in {"solving", "answered"},
         SolverInv', Paid', price' = price, Responds',
         UNCHANGED <<batch, next, tree, radius, shortlist, edges, routerVars>>
  PROVE  EngineInv'
<1>1. Riders' = Riders /\ Drivers' = Drivers /\ K' = K /\ (Acceptable' <=> Acceptable)
      /\ (TravelTime' <=> TravelTime)
  BY SameBatch
<1>2. Served
  BY DEF Served
<1>3. FlowGraph' = FlowGraph
  BY DEF FlowGraph, Kept, Riders, Drivers
<1>4. Solves'
  BY <1>2, <1>3 DEF EngineInv, Solves
<1>5. Sweeps'
  BY DEF EngineInv, Sweeps, RouterInit, routerVars
<1>6. Stages'
  BY <1>1, <1>2 DEF EngineInv, Stages
<1>7. Lists'
  BY <1>1, <1>2 DEF EngineInv, Lists
<1>8. Edged'
  <2>1. PICK n : n = Len(batch.riders)
    OBVIOUS
  <2>2. EdgesUpto(n)
    BY <1>2, <2>1 DEF EngineInv, Edged
  <2>3. EdgesUpto(n)'
    BY <2>2, SameEdges
  <2>4. EdgesUpto(Len(batch.riders))'
    BY <2>1, <2>3 DEF EdgesUpto
  <2> QED
    BY <1>1, <1>2, <2>4 DEF EngineInv, Edged
<1> QED
  BY <1>4, <1>5, <1>6, <1>7, <1>8 DEF EngineInv

\* The solver takes a step.
LEMMA SolverInvStep ==
  ASSUME EngineInv, Solver
  PROVE  EngineInv'
<1>1. /\ phase = "solving" /\ SolverStep /\ UNCHANGED <<serviceVars, routerVars>>
  BY DEF Solver
<1>2. UNCHANGED <<phase, batch, next, tree, radius, shortlist, edges, answer>> /\ UNCHANGED routerVars
  BY <1>1 DEF serviceVars
<1>3. Served /\ Served' /\ phase' = "solving" /\ Responds'
  BY <1>1, <1>2 DEF Served, Responds
<1>4. SolverInv /\ Paid
  BY <1>3 DEF EngineInv, Solves
<1>5. SolverInv' /\ Paid'
  BY <1>1, <1>4, SolverKeepsInv, SolverKeepsPaid
<1>6. price' = price
  BY <1>1 DEF SolverStep, BellmanFordPop, DijkstraPop, Seed, Augment, NoPath
<1> QED
  BY <1>1, <1>2, <1>3, <1>5, <1>6, ServedInv

\* The answer is what the solver found.
LEMMA RespondInv ==
  ASSUME EngineInv, Respond
  PROVE  EngineInv'
<1>1. /\ phase = "solving" /\ mode = "done" /\ phase' = "answered"
      /\ answer' = [status |-> "ok", matches |-> Chosen, totalCost |-> cost,
                    reasons |-> [i \in Riders \ {e[1] : e \in Chosen} |-> Reason(i)]]
      /\ UNCHANGED <<batch, next, tree, radius, shortlist, edges, routerVars>>
      /\ UNCHANGED solverVars
  BY DEF Respond
<1>2. Served /\ Served'
  BY <1>1 DEF Served, solverVars
<1>3. SolverInv /\ Paid
  BY <1>2 DEF EngineInv, Solves
<1>4. UNCHANGED <<price, arcs, engine, mode, dist, prev, queue, settled, pot, flow, cost>>
  BY <1>1 DEF solverVars
<1>5. SolverInv' /\ Paid'
  BY <1>3, <1>4, StillSolved
<1>6. Responds'
  <2>1. Kept' = Kept /\ Riders' = Riders /\ (TravelTime' <=> TravelTime)
    BY <1>1 DEF Kept, Riders, TravelTime
  <2>2. Chosen' = Chosen
    BY <1>4, <2>1 DEF Chosen, HasFlow
  <2>3. \A i : Reason(i)' = Reason(i)
    BY <1>1, <2>1 DEF Reason
  <2> QED
    BY <1>1, <1>4, <2>1, <2>2, <2>3 DEF Responds
<1> QED
  BY <1>1, <1>2, <1>4, <1>5, <1>6, ServedInv

\* The handler returns.
LEMMA ReturnInv ==
  ASSUME EngineInv, Return
  PROVE  EngineInv'
<1>1. /\ phase = "answered" /\ phase' = "idle" /\ batch' = NoBatch /\ next' = 1 /\ tree' = NoTree
      /\ shortlist' = <<>> /\ edges' = <<>> /\ answer' = NoAnswer /\ radius' = 0
      /\ Stop /\ UNCHANGED routerVars
  BY DEF Return
<1>2. SolverInit' /\ RouterInit'
  BY <1>1 DEF Stop, SolverInit, EngineInv, Sweeps, RouterInit, routerVars
<1>3. Init'
  BY <1>1, <1>2 DEF Init, ServiceInit
<1> QED
  BY <1>3, EngineBegins, PTL

\* Nothing happens.
LEMMA StutterInv ==
  ASSUME EngineInv, UNCHANGED vars
  PROVE  EngineInv'
<1>1. /\ UNCHANGED <<phase, batch, next, tree, radius, shortlist, edges, answer>>
      /\ UNCHANGED routerVars
      /\ UNCHANGED <<price, arcs, engine, mode, dist, prev, queue, settled, pot, flow, cost>>
  BY DEF vars, serviceVars, solverVars
<1>2. Riders' = Riders /\ Drivers' = Drivers /\ K' = K /\ (Acceptable' <=> Acceptable)
      /\ (TravelTime' <=> TravelTime) /\ (Served' <=> Served)
  BY <1>1, SameBatch DEF Served
<1>3. Stages'
  BY <1>1, <1>2 DEF EngineInv, Stages
<1>4. Lists'
  BY <1>1, <1>2 DEF EngineInv, Lists
<1>5. Edged'
  <2>1. PICK m, n : m = next - 1 /\ n = Len(batch.riders)
    OBVIOUS
  <2>2. EdgesUpto(m) => EdgesUpto(m)'
    BY <1>1, SameEdges
  <2>3. EdgesUpto(n) => EdgesUpto(n)'
    BY <1>1, SameEdges
  <2>4. EdgesUpto(next - 1) => EdgesUpto(next - 1)'
    BY <1>1, <2>1, <2>2 DEF EdgesUpto
  <2>5. EdgesUpto(Len(batch.riders)) => EdgesUpto(Len(batch.riders))'
    BY <1>1, <2>1, <2>3 DEF EdgesUpto
  <2> QED
    BY <1>1, <1>2, <2>4, <2>5 DEF EngineInv, Edged
<1>6. Sweeps'
  <2>1. Sweeping => Sweeping'
    BY <1>1 DEF routerVars, Sweeping, RouterTypeOK
  <2>2. RouterInit => RouterInit'
    BY <1>1 DEF routerVars, RouterInit
  <2> QED
    BY <1>1, <1>2, <2>1, <2>2 DEF EngineInv, Sweeps, routerVars
<1>7. FlowGraph' = FlowGraph
  BY <1>1 DEF FlowGraph, Kept, Riders, Drivers
<1>8. Solves'
  <2>1. SolverInit => SolverInit'
    BY <1>1 DEF SolverInit
  <2>2. SolverInv /\ Paid => SolverInv' /\ Paid'
    BY <1>1, StillSolved
  <2> QED
    BY <1>1, <1>2, <1>7, <2>1, <2>2 DEF EngineInv, Solves
<1>9. Responds'
  <2>1. Kept' = Kept
    BY <1>1 DEF Kept
  <2>2. Chosen' = Chosen
    BY <1>1, <2>1 DEF Chosen, HasFlow
  <2>3. \A i : Reason(i)' = Reason(i)
    BY <1>1, <1>2, <2>1 DEF Reason
  <2> QED
    BY <1>1, <1>2, <2>2, <2>3 DEF EngineInv, Responds
<1> QED
  BY <1>3, <1>4, <1>5, <1>6, <1>8, <1>9 DEF EngineInv

\* Every step of the engine keeps its invariant.
LEMMA EngineSteps == EngineInv /\ [Next]_vars => EngineInv'
<1> SUFFICES ASSUME EngineInv, [Next]_vars PROVE EngineInv'
  OBVIOUS
<1>1. ASSUME NEW b \in Batches, Receive(b) PROVE EngineInv'
  BY <1>1, ReceiveInv
<1>2. CASE Cancel \/ Refuse
  BY <1>2, AnsweredInv DEF Cancel, Refuse, Answered
<1>3. CASE AnswerEmpty
  BY <1>3, AnsweredInv DEF AnswerEmpty
<1>4. CASE Build \/ Index
  BY <1>4, BuildInv, IndexInv
<1>5. CASE Search \/ Widen
  BY <1>5, RadiusInv DEF Search, Widen
<1>6. CASE Shortlist \/ Sweep \/ Price
  BY <1>6, ShortlistInv, SweepInv, PriceInv
<1>7. CASE Solve \/ Solver \/ Respond \/ Return
  BY <1>7, SolveInv, SolverInvStep, RespondInv, ReturnInv
<1>8. CASE UNCHANGED vars
  BY <1>8, StutterInv
<1> QED
  BY <1>1, <1>2, <1>3, <1>4, <1>5, <1>6, <1>7, <1>8 DEF Next, solveBatchImpl

\* EngineInvariant: whatever the batches, the roads and the limits, the handler is
\* where it can be with what it has checked, sweeps only for the rider at hand,
\* prices the shortlisted drivers at their true costs, and has the solver work on
\* the network of the kept edges.
THEOREM EngineInvariant == Spec => []EngineInv
BY EngineBegins, EngineSteps, PTL DEF Spec

\* TimesExact: a finished sweep has found exactly the nodes a driver can come from,
\* each with its fastest time, on every road network.
THEOREM TimesAreExact == Spec => []TimesExact
<1>1. EngineInv => TimesExact
  BY SweepExact DEF EngineInv, Sweeps, RouterInit, TimesExact
<1> QED
  BY <1>1, EngineInvariant, PTL

\* SettledIsFinal: with the potentials as they are kept, no arc out of a node that
\* Dijkstra has popped leads to a cheaper path, in every search of every batch.
THEOREM SettledStaysFinal == Spec => []SettledIsFinal
<1>1. EngineInv => SettledIsFinal
  BY SolverSettles DEF EngineInv, Solves, SolverInit, SettledIsFinal
<1> QED
  BY <1>1, EngineInvariant, PTL

-----------------------------------------------------------------------------
(* The answer *)

ArcsOf(m) == {ArcOf(e) : e \in m}

\* What the network knows of the kept edges.
LEMMA KeptArcs ==
  ASSUME EngineInv, Served
  PROVE  /\ Kept \subseteq DOMAIN edges /\ IsFiniteSet(Kept)
         /\ \A e \in Kept : e \in Riders \X Drivers /\ edges[e] \in Nat
         /\ \A e \in Kept : ArcOf(e) \in Pairs /\ EdgeOf(ArcOf(e)) = e /\ price[ArcOf(e)] = edges[e]
         /\ \A a \in Pairs : EdgeOf(a) \in Kept /\ ArcOf(EdgeOf(a)) = a
<1>1. /\ batch = NoBatch \/ batch \in Batches
      /\ Acceptable /\ DOMAIN edges \subseteq Riders \X Drivers
      /\ \A e \in DOMAIN edges : edges[e] \in Nat
      /\ price = FlowGraph
  BY DEF EngineInv, Stages, Edged, Solves
<1>2. Kept \subseteq DOMAIN edges
  BY DEF Kept
<1>3. IsFiniteSet(Kept)
  <2>1. IsFiniteSet(Riders) /\ IsFiniteSet(Drivers)
    <3>1. \A n \in Nat : IsFiniteSet(1..n)
      BY FS_Interval
    <3> QED
      BY <1>1, <3>1, BatchTypes
  <2>2. IsFiniteSet(Riders \X Drivers)
    BY <2>1, FS_Product
  <2> QED
    BY <1>1, <1>2, <2>2, FS_Subset
<1>4. PICK g : g = price
  OBVIOUS
<1>5. /\ \A a \in DOMAIN g : a \in RiderNodes \X DriverNodes =>
              EdgeOf(a) \in Kept /\ ArcOf(EdgeOf(a)) = a
      /\ \A e \in Kept : /\ ArcOf(e) \in DOMAIN g /\ ArcOf(e) \in RiderNodes \X DriverNodes
                         /\ EdgeOf(ArcOf(e)) = e /\ g[ArcOf(e)] = edges[e]
  BY <1>1, <1>4, FlowFacts
<1> QED
  BY <1>1, <1>2, <1>3, <1>4, <1>5 DEF Pairs

\* A set of edges has as many arcs, and the arcs cost what the edges do.
LEMMA SameSum ==
  ASSUME NEW f, NEW g, NEW m, IsFiniteSet(m),
         \A e \in m : EdgeOf(ArcOf(e)) = e /\ f[e] \in Int /\ g[ArcOf(e)] = f[e]
  PROVE  /\ IsFiniteSet(ArcsOf(m)) /\ Cardinality(ArcsOf(m)) = Cardinality(m)
         /\ Sum(g, ArcsOf(m)) = Sum(f, m)
<1> DEFINE Good(T) == /\ IsFiniteSet(ArcsOf(T)) /\ Cardinality(ArcsOf(T)) = Cardinality(T)
                      /\ Sum(g, ArcsOf(T)) = Sum(f, T)
           G == {T \in SUBSET m : Good(T)}
<1>1. {} \in G
  <2>1. ArcsOf({}) = {}
    BY DEF ArcsOf
  <2>2. IsFiniteSet({}) /\ Sum(g, {}) = 0 /\ Sum(f, {}) = 0
    BY FS_EmptySet, SumPick
  <2> QED
    BY <2>1, <2>2
<1>2. ASSUME NEW T \in SUBSET m, NEW x \in m, T \in G, x \notin T PROVE T \cup {x} \in G
  <2>1. PICK A, z : A = ArcsOf(T) /\ z = ArcOf(x)
    OBVIOUS
  <2>2. IsFiniteSet(A) /\ Cardinality(A) = Cardinality(T) /\ Sum(g, A) = Sum(f, T)
    BY <1>2, <2>1
  <2>3. z \notin A
    <3>1. \A e \in T : ArcOf(e) # ArcOf(x)
      BY <1>2
    <3> QED
      BY <2>1, <3>1 DEF ArcsOf
  <2>4. ArcsOf(T \cup {x}) = A \cup {z}
    BY <2>1 DEF ArcsOf
  <2>5. IsFiniteSet(T) /\ T \cup {x} \subseteq m
    BY FS_Subset
  <2>6. /\ IsFiniteSet(A \cup {z}) /\ Cardinality(A \cup {z}) = Cardinality(A) + 1
        /\ Cardinality(T \cup {x}) = Cardinality(T) + 1
    BY <1>2, <2>2, <2>3, <2>5, FS_AddElement
  <2>7. /\ \A e \in T \cup {x} : f[e] \in Int
        /\ \A a \in A \cup {z} : g[a] \in Int
    BY <2>1, <2>5 DEF ArcsOf
  <2>8. Sum(f, T \cup {x}) = f[x] + Sum(f, T)
    BY <1>2, <2>5, <2>7, SumAdd
  <2>9. Sum(g, A \cup {z}) = g[z] + Sum(g, A)
    BY <2>2, <2>3, <2>7, SumAdd
  <2> HIDE DEF ArcOf
  <2>10. g[z] = f[x]
    BY <2>1
  <2>11. Good(T \cup {x})
    BY <2>2, <2>4, <2>6, <2>8, <2>9, <2>10
  <2> QED
    BY <2>5, <2>11
<1>3. m \in G
  <2> HIDE DEF G
  <2> QED
    BY <1>1, <1>2, SetSteps
<1> QED
  BY <1>3

\* The chosen edges are those of the pairs that carry flow.
LEMMA ChosenArcs ==
  ASSUME EngineInv, Served
  PROVE  Chosen \subseteq Kept /\ ArcsOf(Chosen) = Matched
<1>1. Chosen \subseteq Kept
  BY DEF Chosen
<1>2. \A e \in Kept : e \in Chosen <=> Opposite(ArcOf(e)) \in arcs
  BY DEF Chosen, HasFlow, Opposite, ArcOf
<1>3. ASSUME NEW a \in Matched PROVE a \in ArcsOf(Chosen)
  <2>1. a \in Pairs /\ Opposite(a) \in arcs
    BY DEF Matched
  <2>2. PICK e \in Kept : ArcOf(e) = a
    BY <2>1, KeptArcs
  <2> QED
    BY <1>2, <2>1, <2>2 DEF ArcsOf
<1>4. ASSUME NEW e \in Chosen PROVE ArcOf(e) \in Matched
  BY <1>1, <1>2, KeptArcs DEF Matched
<1> QED
  BY <1>1, <1>3, <1>4 DEF ArcsOf

\* An assignment along edges is one along arcs, and the other way round.
LEMMA SameMatching ==
  ASSUME EngineInv, Served, NEW m \in SUBSET Kept
  PROVE  ArcsOf(m) \in SUBSET Pairs /\ (Disjoint(m) <=> Disjoint(ArcsOf(m)))
<1>1. \A e \in m : /\ ArcOf(e) \in Pairs /\ EdgeOf(ArcOf(e)) = e
                   /\ e[1] \in Nat /\ e[2] \in Nat
  BY KeptArcs, BatchTypes DEF EngineInv, Stages
<1>2. ArcsOf(m) \in SUBSET Pairs
  BY <1>1 DEF ArcsOf
<1>3. ASSUME NEW d \in m, NEW e \in m
      PROVE  /\ d = e <=> ArcOf(d) = ArcOf(e)
             /\ d[1] = e[1] <=> ArcOf(d)[1] = ArcOf(e)[1]
             /\ d[2] = e[2] <=> ArcOf(d)[2] = ArcOf(e)[2]
  <2>1. d = e <=> ArcOf(d) = ArcOf(e)
    BY <1>1
  <2>2. ArcOf(d)[1] = d[1] /\ ArcOf(e)[1] = e[1]
        /\ ArcOf(d)[2] = MaxRiders + d[2] /\ ArcOf(e)[2] = MaxRiders + e[2]
    BY DEF ArcOf, RiderNode, DriverNode
  <2>3. d[2] = e[2] <=> MaxRiders + d[2] = MaxRiders + e[2]
    BY <1>1, MinCostFlowAssumption
  <2> QED
    BY <2>1, <2>2, <2>3
<1>4. ASSUME Disjoint(m) PROVE Disjoint(ArcsOf(m))
  BY <1>3, <1>4 DEF Disjoint, ArcsOf
<1>5. ASSUME Disjoint(ArcsOf(m)) PROVE Disjoint(m)
  BY <1>3, <1>5 DEF Disjoint, ArcsOf
<1> QED
  BY <1>2, <1>4, <1>5

\* Optimal: the answer gives no driver and no rider twice, matches as many riders
\* as any assignment along the kept edges could, costs no more than any other that
\* matches as many, and reports exactly that cost.
THEOREM AnswersAreOptimal == Spec => []Optimal
<1>1. ASSUME EngineInv, phase = "answered", mode = "done"
      PROVE  /\ answer.matches \in Matchings
             /\ answer.totalCost = TotalCost(answer.matches)
             /\ \A m \in Matchings :
                  \/ Cardinality(m) < Cardinality(answer.matches)
                  \/ /\ Cardinality(m) = Cardinality(answer.matches)
                     /\ TotalCost(m) >= answer.totalCost
  <2>1. Served
    BY <1>1 DEF Served
  <2>2. SolverInv /\ Paid /\ Network /\ Residual /\ Balanced
    BY <1>1, <2>1 DEF EngineInv, Solves, SolverInv
  <2>3. answer.matches = Chosen /\ answer.totalCost = cost
    BY <1>1 DEF EngineInv, Responds
  <2>4. IsFiniteSet(Kept) /\ Chosen \in SUBSET Kept /\ ArcsOf(Chosen) = Matched
    BY <1>1, <2>1, KeptArcs, ChosenArcs
  <2>5. \A e \in Kept : EdgeOf(ArcOf(e)) = e /\ edges[e] \in Int /\ price[ArcOf(e)] = edges[e]
    BY <1>1, <2>1, KeptArcs
  <2>6. Matchings = {m \in SUBSET Kept : Disjoint(m)}
    BY DEF Matchings, Disjoint
  <2>7. \A m : TotalCost(m) = Sum(edges, m)
    BY DEF TotalCost, Sum
  <2>8. ASSUME NEW m \in SUBSET Kept
        PROVE  /\ IsFiniteSet(m) /\ Cardinality(ArcsOf(m)) = Cardinality(m)
               /\ IsFiniteSet(ArcsOf(m)) /\ Sum(price, ArcsOf(m)) = Sum(edges, m)
               /\ Sum(edges, m) \in Int /\ Cardinality(m) \in Nat
    <3>1. IsFiniteSet(m) /\ Cardinality(m) \in Nat
      BY <2>4, FS_Subset, FS_CardinalityType
    <3>2. PICK f, g : f = edges /\ g = price
      OBVIOUS
    <3>3. \A e \in m : EdgeOf(ArcOf(e)) = e /\ f[e] \in Int /\ g[ArcOf(e)] = f[e]
      BY <2>5, <3>2
    <3>4. /\ IsFiniteSet(ArcsOf(m)) /\ Cardinality(ArcsOf(m)) = Cardinality(m)
          /\ Sum(g, ArcsOf(m)) = Sum(f, m)
      BY <3>1, <3>3, SameSum
    <3>5. Sum(f, m) \in Int
      BY <3>1, <3>3, SumType
    <3> QED
      BY <3>1, <3>2, <3>4, <3>5
  <2>9. Chosen \in Matchings
    <3>1. Disjoint(Matched)
      BY <2>2, MatchedEnds
    <3>2. Disjoint(Chosen)
      BY <1>1, <2>1, <2>4, <3>1, SameMatching
    <3> QED
      BY <2>4, <2>6, <3>2
  <2>10. cost = Sum(edges, Chosen) /\ cost = Sum(price, Matched)
    BY <2>2, <2>4, <2>8 DEF Paid
  <2>11. ASSUME NEW m \in Matchings
         PROVE  \/ Cardinality(m) < Cardinality(Chosen)
                \/ /\ Cardinality(m) = Cardinality(Chosen)
                   /\ Sum(edges, m) >= cost
    <3>1. m \in SUBSET Kept /\ Disjoint(m)
      BY <2>6
    <3>2. PICK A : A = ArcsOf(m)
      OBVIOUS
    <3>3. A \in SUBSET Pairs /\ Disjoint(A)
      BY <1>1, <2>1, <3>1, <3>2, SameMatching
    <3>4. Cardinality(A) = Cardinality(m) /\ IsFiniteSet(A) /\ Sum(price, A) = Sum(edges, m)
      BY <2>8, <3>1, <3>2
    <3>5. Cardinality(A) <= Cardinality(Matched)
      BY <1>1, <2>2, <3>3, Largest
    <3>6. Cardinality(Matched) = Cardinality(Chosen) /\ Cardinality(Chosen) \in Nat
          /\ Cardinality(m) \in Nat
      BY <2>4, <2>8, <3>1
    <3>7. CASE Cardinality(m) = Cardinality(Chosen)
      <4>1. Sum(price, Matched) <= Sum(price, A)
        BY <2>2, <3>3, <3>4, <3>6, <3>7, Cheapest
      <4>2. Sum(edges, m) \in Int /\ Sum(edges, Chosen) \in Int
        BY <2>4, <2>8, <3>1
      <4> QED
        BY <2>10, <3>4, <3>7, <4>1, <4>2
    <3>8. CASE Cardinality(m) # Cardinality(Chosen)
      BY <3>4, <3>5, <3>6, <3>8
    <3> QED
      BY <3>7, <3>8
  <2> QED
    BY <2>3, <2>7, <2>9, <2>10, <2>11
<1>2. EngineInv => Optimal
  BY <1>1 DEF Optimal
<1> QED
  BY <1>2, EngineInvariant, PTL

-----------------------------------------------------------------------------
(* The quadtree: powers of two *)

\* The recursion of Pow2 is well founded.
LEMMA PowersExist ==
  ASSUME NEW N \in Nat
  PROVE  \E f : f = [n \in 0..N |-> IF n = 0 THEN 1 ELSE 2 * f[n - 1]]
<1> DEFINE G == {n \in Nat : \E f : f = [k \in 0..n |-> IF k = 0 THEN 1 ELSE 2 * f[k - 1]]}
<1>1. 0 \in G
  <2> DEFINE f == [k \in 0..0 |-> 1]
  <2>1. f = [k \in 0..0 |-> IF k = 0 THEN 1 ELSE 2 * f[k - 1]]
    OBVIOUS
  <2> QED
    BY <2>1
<1>2. ASSUME NEW n \in Nat, n \in G PROVE n + 1 \in G
  <2>1. PICK f : f = [k \in 0..n |-> IF k = 0 THEN 1 ELSE 2 * f[k - 1]]
    BY <1>2
  <2> DEFINE g == [k \in 0..(n + 1) |-> IF k = n + 1 THEN 2 * f[n] ELSE f[k]]
  <2>2. \A k \in 0..n : g[k] = f[k]
    OBVIOUS
  <2>3. g[n + 1] = 2 * g[n]
    BY <2>2
  <2>4. \A k \in 0..n : k # 0 => k - 1 \in 0..n
    OBVIOUS
  <2>5. ASSUME NEW k \in 0..(n + 1) PROVE g[k] = IF k = 0 THEN 1 ELSE 2 * g[k - 1]
    <3>1. CASE k = n + 1
      BY <2>3, <3>1
    <3>2. CASE k # n + 1
      <4>1. k \in 0..n
        BY <3>2
      <4>2. f[k] = IF k = 0 THEN 1 ELSE 2 * f[k - 1]
        BY <2>1, <4>1
      <4> QED
        BY <2>2, <2>4, <4>1, <4>2
    <3> QED
      BY <3>1, <3>2
  <2>6. g = [k \in 0..(n + 1) |-> IF k = 0 THEN 1 ELSE 2 * g[k - 1]]
    <3>1. g = [k \in 0..(n + 1) |-> g[k]]
      OBVIOUS
    <3> HIDE DEF g
    <3> QED
      BY <2>5, <3>1
  <2>7. \E h : h = [k \in 0..(n + 1) |-> IF k = 0 THEN 1 ELSE 2 * h[k - 1]]
    <3> HIDE DEF g
    <3> QED
      BY <2>6, Zenon
  <2>8. n + 1 \in Nat
    OBVIOUS
  <2> QED
    BY <2>7, <2>8, Zenon
<1> HIDE DEF G
<1>3. N \in G
  BY <1>1, <1>2, NatSteps
<1> QED
  BY <1>3 DEF G

\* They start from 1 and double, and are never 0.
LEMMA PowerSteps ==
  /\ Pow2[0] = 1
  /\ \A n \in 0..MaxDepth : Pow2[n + 1] = 2 * Pow2[n]
  /\ \A n \in 0..(MaxDepth + 1) : Pow2[n] \in Nat \ {0}
<1> DEFINE N == MaxDepth + 1
           G == {n \in Nat : n <= N => Pow2[n] \in Nat \ {0}}
<1>1. N \in Nat /\ MaxDepth \in Nat
  BY QuadTreeAssumption
<1>2. PICK f : f = [n \in 0..N |-> IF n = 0 THEN 1 ELSE 2 * f[n - 1]]
  BY <1>1, PowersExist
<1>3. Pow2 = [n \in 0..N |-> IF n = 0 THEN 1 ELSE 2 * Pow2[n - 1]]
  BY <1>2 DEF Pow2
<1>4. Pow2[0] = 1
  BY <1>1, <1>3
<1>5. ASSUME NEW n \in 0..MaxDepth PROVE Pow2[n + 1] = 2 * Pow2[n]
  <2>1. n + 1 \in 0..N /\ n + 1 # 0 /\ (n + 1) - 1 = n
    BY <1>1, <1>5
  <2> QED
    BY <1>3, <2>1
<1>6. 0 \in G
  BY <1>4
<1>7. ASSUME NEW n \in Nat, n \in G PROVE n + 1 \in G
  <2> SUFFICES ASSUME n + 1 <= N PROVE Pow2[n + 1] \in Nat \ {0}
    OBVIOUS
  <2>1. n \in 0..MaxDepth /\ Pow2[n] \in Nat \ {0}
    BY <1>1, <1>7
  <2>2. Pow2[n + 1] = 2 * Pow2[n]
    BY <1>5, <2>1
  <2> QED
    BY <2>1, <2>2
<1>8. Nat \subseteq G
  <2> HIDE DEF G
  <2> QED
    BY <1>6, <1>7, NatSteps
<1>9. \A n \in 0..N : Pow2[n] \in Nat \ {0}
  BY <1>1, <1>8
<1> QED
  BY <1>4, <1>5, <1>9

\* A finite set of whole numbers has a largest and a smallest one.
LEMMA Extremes ==
  ASSUME NEW S, S \subseteq Int, S # {}, IsFiniteSet(S)
  PROVE  /\ Max(S) \in S /\ \A x \in S : x <= Max(S)
         /\ Min(S) \in S /\ \A x \in S : Min(S) <= x
<1> DEFINE Good(T) == T # {} => /\ \E m \in T : \A x \in T : m >= x
                                /\ \E m \in T : \A x \in T : m <= x
           G == {T \in SUBSET S : Good(T)}
<1>1. {} \in G
  OBVIOUS
<1>2. ASSUME NEW T \in SUBSET S, NEW z \in S, T \in G, z \notin T PROVE T \cup {z} \in G
  <2>1. T \subseteq Int /\ z \in Int
    OBVIOUS
  <2>2. CASE T = {}
    BY <2>1, <2>2
  <2>3. CASE T # {}
    <3>1. PICK m \in T : \A x \in T : m >= x
      BY <1>2, <2>3
    <3>2. PICK n \in T : \A x \in T : n <= x
      BY <1>2, <2>3
    <3>3. \E u \in T \cup {z} : \A x \in T \cup {z} : u >= x
      <4>1. CASE m >= z
        BY <2>1, <3>1, <4>1
      <4>2. CASE z >= m
        BY <2>1, <3>1, <4>2
      <4> QED
        BY <2>1, <4>1, <4>2
    <3>4. \E u \in T \cup {z} : \A x \in T \cup {z} : u <= x
      <4>1. CASE n <= z
        BY <2>1, <3>2, <4>1
      <4>2. CASE z <= n
        BY <2>1, <3>2, <4>2
      <4> QED
        BY <2>1, <4>1, <4>2
    <3> QED
      BY <3>3, <3>4
  <2> QED
    BY <2>2, <2>3
<1>3. S \in G
  <2> HIDE DEF G
  <2> QED
    BY <1>1, <1>2, SetSteps
<1>4. (\E m \in S : \A x \in S : m >= x) /\ (\E m \in S : \A x \in S : m <= x)
  BY <1>3
<1>5. Max(S) \in S /\ \A x \in S : Max(S) >= x
  BY <1>4 DEF Max
<1>6. Min(S) \in S /\ \A x \in S : Min(S) <= x
  BY <1>4 DEF Min
<1> QED
  BY <1>5, <1>6

-----------------------------------------------------------------------------
(* The quadtree: its world *)

\* A finite set has finitely many values.
LEMMA ImageFinite ==
  ASSUME NEW f, NEW S, IsFiniteSet(S)
  PROVE  IsFiniteSet({f[x] : x \in S})
<1>1. PICK T, g : T = {f[x] : x \in S} /\ g = [x \in S |-> f[x]]
  OBVIOUS
<1>2. g \in Surjection(S, T)
  BY <1>1 DEF Surjection
<1>3. IsFiniteSet(T)
  BY <1>2, FS_Surjection
<1> QED
  BY <1>1, <1>3

\* So has a set of places finitely many coordinates.
LEMMA CoordinatesFinite ==
  ASSUME NEW P, IsFiniteSet(P)
  PROVE  IsFiniteSet({p.x : p \in P}) /\ IsFiniteSet({p.y : p \in P})
<1>1. PICK f, g : f = [p \in P |-> p.x] /\ g = [p \in P |-> p.y]
  OBVIOUS
<1>2. {p.x : p \in P} = {f[p] : p \in P} /\ {p.y : p \in P} = {g[p] : p \in P}
  BY <1>1
<1>3. IsFiniteSet({f[p] : p \in P}) /\ IsFiniteSet({g[p] : p \in P})
  BY ImageFinite
<1> QED
  BY <1>2, <1>3

\* The places of a batch are finitely many.
LEMMA PointsFinite ==
  ASSUME batch = NoBatch \/ batch \in Batches
  PROVE  /\ IsFiniteSet(Points) /\ Points \subseteq Place
         /\ \A i \in Riders : batch.riders[i] \in Points
         /\ \A j \in Drivers : batch.drivers[j] \in Points
<1>1. IsFiniteSet(Riders) /\ IsFiniteSet(Drivers)
  <2>1. \A n \in Nat : IsFiniteSet(1..n)
    BY FS_Interval
  <2> QED
    BY <2>1, BatchTypes
<1>2. PICK r, d : r = batch.riders /\ d = batch.drivers
  OBVIOUS
<1>3. PICK R, D : R = {r[i] : i \in Riders} /\ D = {d[j] : j \in Drivers}
  OBVIOUS
<1>4. IsFiniteSet(R)
  BY <1>1, <1>3, ImageFinite
<1>5. IsFiniteSet(D)
  BY <1>1, <1>3, ImageFinite
<1>6. Points = R \cup D
  BY <1>2, <1>3 DEF Points
<1>7. IsFiniteSet(Points)
  BY <1>4, <1>5, <1>6, FS_Union
<1>8. R \subseteq Place /\ D \subseteq Place
  BY <1>2, <1>3, BatchTypes
<1> QED
  BY <1>2, <1>3, <1>6, <1>7, <1>8

\* The square reaches from the origin beyond the largest coordinate.
LEMMA SquareFacts ==
  ASSUME batch = NoBatch \/ batch \in Batches
  PROVE  \E m \in Nat, h \in Nat :
           /\ SquareWorld = Box(h, h, h, h) /\ h = m + Unit \div 2
           /\ \A p \in Points : p.x <= m /\ p.y <= m
           /\ m = 0 \/ \E p \in Points : m = p.x \/ m = p.y
<1>1. PICK P : P = Points /\ IsFiniteSet(P) /\ P \subseteq Place
  BY PointsFinite
<1>2. PICK X, Y : X = {p.x : p \in P} /\ Y = {p.y : p \in P}
  OBVIOUS
<1>3. X \subseteq Int /\ Y \subseteq Int
  BY <1>1, <1>2 DEF Place
<1>4. IsFiniteSet(X)
  BY <1>1, <1>2, CoordinatesFinite
<1>5. IsFiniteSet(Y)
  BY <1>1, <1>2, CoordinatesFinite
<1>6. PICK S : S = {0} \cup X \cup Y
  OBVIOUS
<1>7. IsFiniteSet(S)
  <2>1. IsFiniteSet(X \cup Y)
    BY <1>4, <1>5, FS_Union
  <2>2. IsFiniteSet((X \cup Y) \cup {0})
    BY <2>1, FS_AddElement
  <2>3. S = (X \cup Y) \cup {0}
    BY <1>6
  <2> QED
    BY <2>2, <2>3
<1>8. S \subseteq Int /\ S # {} /\ 0 \in S
  BY <1>3, <1>6
<1>9. PICK m : m = Max(S)
  OBVIOUS
<1>10. m \in S /\ (\A x \in S : x <= m) /\ m \in Nat
  <2>1. m \in S /\ \A x \in S : x <= m
    BY <1>7, <1>8, <1>9, Extremes
  <2> QED
    BY <1>8, <2>1
<1>11. Unit \div 2 \in Nat
  BY PowerSteps, QuadTreeAssumption DEF Unit
<1>12. PICK h \in Nat : h = m + Unit \div 2
  BY <1>10, <1>11
<1>13. SquareWorld = Box(h, h, h, h)
  BY <1>1, <1>2, <1>6, <1>9, <1>12 DEF SquareWorld
<1>14. \A p \in Points : p.x <= m /\ p.y <= m
  BY <1>1, <1>2, <1>6, <1>10
<1>15. m = 0 \/ \E p \in Points : m = p.x \/ m = p.y
  BY <1>1, <1>2, <1>6, <1>10
<1> QED
  BY <1>10, <1>12, <1>13, <1>14, <1>15

\* The bounding box has the largest and the smallest coordinates in it.
LEMMA BoundingFacts ==
  ASSUME batch = NoBatch \/ batch \in Batches, Riders # {}
  PROVE  \E a, b, c, d \in Int :
           /\ BoundingWorld = Box((a + b) \div 2, (c + d) \div 2,
                                  Pow2[MaxDepth] * ((b - a) \div Unit + 1),
                                  Pow2[MaxDepth] * ((d - c) \div Unit + 1))
           /\ a <= b /\ c <= d
           /\ \A p \in Points : a <= p.x /\ p.x <= b /\ c <= p.y /\ p.y <= d
<1>1. PICK P : P = Points /\ IsFiniteSet(P) /\ P \subseteq Place /\ P # {}
  BY PointsFinite
<1>2. PICK X, Y : X = {p.x : p \in P} /\ Y = {p.y : p \in P}
  OBVIOUS
<1>3. X \subseteq Int /\ Y \subseteq Int /\ X # {} /\ Y # {}
  BY <1>1, <1>2 DEF Place
<1>4. IsFiniteSet(X)
  BY <1>1, <1>2, CoordinatesFinite
<1>5. IsFiniteSet(Y)
  BY <1>1, <1>2, CoordinatesFinite
<1>6. PICK a, b, c, d : a = Min(X) /\ b = Max(X) /\ c = Min(Y) /\ d = Max(Y)
  OBVIOUS
<1>7. a \in X /\ b \in X /\ \A x \in X : a <= x /\ x <= b
  BY <1>3, <1>4, <1>6, Extremes
<1>8. c \in Y /\ d \in Y /\ \A x \in Y : c <= x /\ x <= d
  BY <1>3, <1>5, <1>6, Extremes
<1>9. BoundingWorld = Box((a + b) \div 2, (c + d) \div 2,
                          Pow2[MaxDepth] * ((b - a) \div Unit + 1),
                          Pow2[MaxDepth] * ((d - c) \div Unit + 1))
  BY <1>1, <1>2, <1>6 DEF BoundingWorld
<1>10. \A p \in Points : a <= p.x /\ p.x <= b /\ c <= p.y /\ p.y <= d
  BY <1>1, <1>2, <1>7, <1>8
<1> QED
  BY <1>3, <1>7, <1>8, <1>9, <1>10

\* The world has an extent, and a node at the depth cap is never divided: there is
\* always a leaf to start from.
TreeTypes ==
  /\ tree.root.hw \in Nat /\ tree.root.hh \in Nat
  /\ \A d \in tree.divided : d[1] < MaxDepth
  /\ radius \in Nat

AnswerTypes == answer.status \in {"none", "ok", "refused", "cancelled"}

\* A set of depths that is not empty has a smallest one in it.
LEMMA LeastDepth ==
  ASSUME NEW S, S \subseteq 0..MaxDepth, S # {}
  PROVE  Min(S) \in S
<1>1. S \in SUBSET Nat
  BY QuadTreeAssumption
<1>2. \E m \in S : \A k \in S : m <= k
  BY <1>1, NatMin
<1> QED
  BY <1>2 DEF Min

\* The search starts from a whole half extent.
LEMMA LeafNat ==
  ASSUME TreeTypes, NEW p
  PROVE  leafHalfExtent(tree, p) \in Nat
<1>1. PICK S : S = {n \in 0..MaxDepth : NodeOf(tree, p, n) \notin tree.divided}
  OBVIOUS
<1>2. MaxDepth \in Nat /\ MaxDepth \in 0..MaxDepth
  BY QuadTreeAssumption
<1>3. NodeOf(tree, p, MaxDepth)[1] = MaxDepth
  BY DEF NodeOf
<1>4. MaxDepth \in S
  BY <1>1, <1>2, <1>3 DEF TreeTypes
<1>5. Min(S) \in 0..MaxDepth
  BY <1>1, <1>4, LeastDepth
<1>6. PICK depth : depth = IF contains(tree.root, p) THEN Min(S) ELSE 0
  OBVIOUS
<1>7. depth \in 0..MaxDepth
  BY <1>2, <1>5, <1>6
<1>8. Pow2[depth] \in Nat \ {0}
  BY <1>2, <1>7, PowerSteps
<1>9. PICK h \in Nat : h = Max({tree.root.hw, tree.root.hh})
  BY Apart DEF TreeTypes, Max
<1>10. leafHalfExtent(tree, p) = h \div Pow2[depth]
  BY <1>1, <1>6, <1>9 DEF leafHalfExtent
<1>11. \A q \in Nat \ {0} : h \div q \in Nat
  OBVIOUS
<1> QED
  BY <1>8, <1>10, <1>11

\* Insertion divides no node at the depth cap.
LEMMA InsertDivides ==
  ASSUME NEW t, Shaped(t), NEW p, \A d \in t.divided : d[1] < MaxDepth
  PROVE  \A d \in insert(t, p).divided : d[1] < MaxDepth
<1>1. CASE ~contains(t.root, p)
  BY <1>1 DEF insert
<1>2. CASE contains(t.root, p)
  <2>1. PICK S : S = {n \in 0..MaxDepth : HasRoom(t, NodeOf(t, p, n))}
    OBVIOUS
  <2>2. MaxDepth \in Nat /\ MaxDepth \in 0..MaxDepth
    BY QuadTreeAssumption
  <2>3. NodeOf(t, p, MaxDepth)[1] = MaxDepth
    BY DEF NodeOf
  <2>4. MaxDepth \in S
    BY <2>1, <2>2, <2>3 DEF HasRoom
  <2>5. PICK depth \in 0..MaxDepth : depth = Min(S)
    BY <2>1, <2>4, LeastDepth
  <2>6. PICK node : node = NodeOf(t, p, depth)
    OBVIOUS
  <2>7. node[1] = depth
    BY <2>6 DEF NodeOf
  <2>8. PICK D : D = {Above(node, n) : n \in 1..depth}
    OBVIOUS
  <2>9. \A d \in D : d[1] < MaxDepth
    <3> SUFFICES ASSUME NEW n \in 1..depth PROVE Above(node, n)[1] < MaxDepth
      BY <2>8
    <3>1. Above(node, n)[1] = depth - n
      BY <2>7 DEF Above
    <3> QED
      BY <2>2, <3>1
  <2>10. PICK e : e = [node |-> node, id |-> p.id, x |-> p.x, y |-> p.y]
    OBVIOUS
  <2>11. insert(t, p) = [t EXCEPT !.points = @ \cup {e}, !.divided = @ \cup D]
    BY <1>2, <2>1, <2>5, <2>6, <2>8, <2>10 DEF insert
  <2>12. insert(t, p).divided = t.divided \cup D
    BY <2>11 DEF Shaped
  <2> QED
    BY <2>9, <2>12
<1> QED
  BY <1>1, <1>2

\* Every step of the engine keeps the tree's types.
LEMMA TreeTypesStep == EngineInv /\ TreeTypes /\ [Next]_vars => TreeTypes'
<1> SUFFICES ASSUME EngineInv, TreeTypes, [Next]_vars PROVE TreeTypes'
  OBVIOUS
<1>1. ASSUME UNCHANGED tree, radius' \in Nat PROVE TreeTypes'
  BY <1>1 DEF TreeTypes
<1>2. radius \in Nat /\ 0 \in Nat /\ 2 * radius \in Nat
  BY DEF TreeTypes
<1>3. ASSUME NEW b \in Batches, Receive(b) PROVE TreeTypes'
  BY <1>1, <1>2, <1>3 DEF Receive
<1>4. CASE Cancel \/ Refuse \/ AnswerEmpty
  BY <1>1, <1>2, <1>4 DEF Cancel, Refuse, Answered, AnswerEmpty
<1>5. CASE Build
  <2>1. /\ batch = NoBatch \/ batch \in Batches
        /\ Riders # {} /\ radius' = radius
        /\ tree' = IF K = 0 THEN tree
                   ELSE EmptyTree(IF TravelTime THEN BoundingWorld ELSE SquareWorld)
    BY <1>5 DEF EngineInv, Stages, Build
  <2>2. CASE K = 0
    BY <1>1, <1>2, <2>1, <2>2
  <2>3. ASSUME NEW r, tree' = EmptyTree(r), r.hw \in Nat, r.hh \in Nat PROVE TreeTypes'
    <3>1. tree'.root = r /\ tree'.divided = {}
      BY <2>3 DEF EmptyTree
    <3> QED
      BY <1>2, <2>1, <2>3, <3>1 DEF TreeTypes
  <2>4. CASE K # 0 /\ ~TravelTime
    <3>1. PICK h \in Nat : SquareWorld = Box(h, h, h, h)
      BY <2>1, SquareFacts
    <3>2. SquareWorld.hw \in Nat /\ SquareWorld.hh \in Nat
      BY <3>1 DEF Box
    <3> QED
      BY <2>1, <2>3, <2>4, <3>2
  <2>5. CASE K # 0 /\ TravelTime
    <3>1. PICK a, b, c, d \in Int :
           /\ BoundingWorld = Box((a + b) \div 2, (c + d) \div 2,
                                  Pow2[MaxDepth] * ((b - a) \div Unit + 1),
                                  Pow2[MaxDepth] * ((d - c) \div Unit + 1))
           /\ a <= b /\ c <= d
      BY <2>1, BoundingFacts
    <3>2. PICK s \in Nat, u \in Nat \ {0} : s = Pow2[MaxDepth] /\ u = Unit
      BY PowerSteps, QuadTreeAssumption DEF Unit
    <3>3. /\ s * ((b - a) \div u + 1) \in Nat /\ s * ((d - c) \div u + 1) \in Nat
      <4>1. (b - a) \div u \in Nat /\ (d - c) \div u \in Nat
        BY <3>1
      <4> QED
        BY <4>1
    <3>4. BoundingWorld.hw \in Nat /\ BoundingWorld.hh \in Nat
      BY <3>1, <3>2, <3>3 DEF Box
    <3> QED
      BY <2>1, <2>3, <2>5, <3>4
  <2> QED
    BY <2>2, <2>4, <2>5
<1>6. CASE Index
  <2>1. PICK p : tree' = insert(tree, p) /\ radius' = radius
    BY <1>6 DEF Index
  <2>2. Shaped(tree)
    BY DEF EngineInv, Lists, Shaped
  <2>3. tree'.root = tree.root
    BY <2>1, <2>2, InsertAdds
  <2>4. \A d \in tree'.divided : d[1] < MaxDepth
    BY <2>1, <2>2, InsertDivides DEF TreeTypes
  <2> QED
    BY <1>2, <2>1, <2>3, <2>4 DEF TreeTypes
<1>7. CASE Search
  BY <1>1, <1>7, LeafNat DEF Search
<1>8. CASE Widen
  BY <1>1, <1>2, <1>8 DEF Widen
<1>9. CASE Shortlist
  BY <1>1, <1>9 DEF Shortlist
<1>10. CASE Sweep \/ Price
  BY <1>1, <1>2, <1>10 DEF Sweep, Price, serviceVars
<1>11. CASE Solve \/ Solver \/ Respond
  BY <1>1, <1>2, <1>11 DEF Solve, Solver, Respond, serviceVars
<1>12. CASE Return
  <2>1. tree' = NoTree /\ radius' = 0
    BY <1>12 DEF Return
  <2> QED
    BY <2>1 DEF NoTree, EmptyTree, Box, TreeTypes
<1>13. CASE UNCHANGED vars
  BY <1>1, <1>2, <1>13 DEF vars, serviceVars
<1> QED
  BY <1>3, <1>4, <1>5, <1>6, <1>7, <1>8, <1>9, <1>10, <1>11, <1>12, <1>13 DEF Next, solveBatchImpl

\* So they do the answer's.
LEMMA AnswerTypesStep == AnswerTypes /\ [Next]_vars => AnswerTypes'
<1> SUFFICES ASSUME AnswerTypes, [Next]_vars PROVE AnswerTypes'
  OBVIOUS
<1>1. ASSUME answer' = answer PROVE AnswerTypes'
  BY <1>1 DEF AnswerTypes
<1>2. ASSUME NEW b \in Batches, Receive(b) PROVE AnswerTypes'
  BY <1>1, <1>2 DEF Receive
<1>3. CASE Cancel \/ Refuse
  <2>1. answer' = [NoAnswer EXCEPT !.status = "cancelled"] \/ answer' = [NoAnswer EXCEPT !.status = "refused"]
    BY <1>3 DEF Cancel, Refuse, Answered
  <2> QED
    BY <2>1 DEF NoAnswer, AnswerTypes
<1>4. CASE AnswerEmpty \/ Respond
  <2>1. answer'.status = "ok"
    BY <1>4 DEF AnswerEmpty, Respond
  <2> QED
    BY <2>1 DEF AnswerTypes
<1>5. CASE Return
  BY <1>5 DEF Return, NoAnswer, AnswerTypes
<1>6. CASE Build \/ Index \/ Search \/ Widen \/ Shortlist \/ Price \/ Solve
  BY <1>1, <1>6 DEF Build, Index, Search, Widen, Shortlist, Price, Solve
<1>7. CASE Sweep \/ Solver \/ UNCHANGED vars
  BY <1>1, <1>7 DEF Sweep, Solver, serviceVars, vars
<1> QED
  BY <1>2, <1>3, <1>4, <1>5, <1>6, <1>7 DEF Next, solveBatchImpl

\* TypeOK: the variables of the service, the router and the solver keep their types;
\* every arc of the flow network has its unit of capacity on one of its directions.
THEOREM TypesHold == Spec => []TypeOK
<1>1. Init => TreeTypes
  BY DEF Init, ServiceInit, NoTree, EmptyTree, Box, TreeTypes
<1>2. Spec => []TreeTypes
  BY <1>1, EngineInvariant, TreeTypesStep, PTL DEF Spec
<1>3. Init => AnswerTypes
  BY DEF Init, ServiceInit, NoAnswer, AnswerTypes
<1>4. Spec => []AnswerTypes
  BY <1>3, AnswerTypesStep, PTL DEF Spec
<1>5. ASSUME EngineInv, TreeTypes, AnswerTypes PROVE TypeOK
  <2>1. /\ batch = NoBatch \/ batch \in Batches
        /\ next \in {1} \cup Riders \cup Drivers
    BY <1>5 DEF EngineInv, Stages
  <2>2. next \in 1..Max({1, Len(batch.riders), Len(batch.drivers)})
    <3>1. PICK S : S = {1, Len(batch.riders), Len(batch.drivers)}
      OBVIOUS
    <3>2. S \subseteq Int /\ S # {} /\ 1 \in S
      BY <2>1, <3>1, BatchTypes
    <3>3. IsFiniteSet(S)
      <4>1. IsFiniteSet({1})
        BY FS_Singleton
      <4>2. IsFiniteSet({1} \cup {Len(batch.riders)})
        BY <4>1, FS_AddElement
      <4>3. IsFiniteSet(({1} \cup {Len(batch.riders)}) \cup {Len(batch.drivers)})
        BY <4>2, FS_AddElement
      <4>4. S = ({1} \cup {Len(batch.riders)}) \cup {Len(batch.drivers)}
        BY <3>1
      <4> QED
        BY <4>3, <4>4
    <3>4. PICK m : m = Max(S)
      OBVIOUS
    <3>5. m \in S /\ \A x \in S : x <= m
      BY <3>2, <3>3, <3>4, Extremes
    <3>6. m \in Int /\ 1 <= m /\ Len(batch.riders) <= m /\ Len(batch.drivers) <= m
      BY <3>1, <3>2, <3>5
    <3>7. next \in 1..m
      BY <2>1, <3>6, BatchTypes
    <3> QED
      BY <3>1, <3>4, <3>7
  <2>3. answer.status \in {"none", "ok", "refused", "cancelled"}
    BY <1>5 DEF AnswerTypes
  <2>4. RouterTypeOK
    <3>1. CASE phase = "price" /\ TravelTime
      BY <1>5, <3>1 DEF EngineInv, Sweeps, Sweeping
    <3>2. CASE ~(phase = "price" /\ TravelTime)
      BY <1>5, <3>2 DEF EngineInv, Sweeps, RouterInit, RouterTypeOK
    <3> QED
      BY <3>1, <3>2
  <2>5. SolverTypeOK
    <3>1. SolverInv
      BY <1>5, NoNetwork DEF EngineInv, Solves, SolverInit
    <3>2. Network /\ Residual /\ SearchTypes
      BY <3>1 DEF SolverInv
    <3>3. ASSUME NEW a \in DOMAIN price
          PROVE  /\ a \in Nodes \X Nodes /\ price[a] \in Int
                 /\ Cardinality({a, <<a[2], a[1]>>} \cap arcs) = 1
      <4>1. a \in NetArcs
        BY <3>2 DEF Network
      <4>2. a[1] \in Nodes /\ a[2] \in Nodes /\ a = <<a[1], a[2]>> /\ a[1] # a[2]
        BY <4>1, OneWay
      <4>3. a \in arcs <=> <<a[2], a[1]>> \notin arcs
        BY <3>2 DEF Residual, Opposite
      <4>4. \E x : {a, <<a[2], a[1]>>} \cap arcs = {x}
        BY <4>3
      <4>5. Cardinality({a, <<a[2], a[1]>>} \cap arcs) = 1
        BY <4>4, FS_Singleton
      <4> QED
        BY <3>2, <4>2, <4>5 DEF Network
    <3>4. arcs \subseteq DOMAIN price \cup {<<a[2], a[1]>> : a \in DOMAIN price}
      BY <3>2 DEF Residual, Opposite
    <3> QED
      BY <3>2, <3>3, <3>4 DEF SolverTypeOK, SearchTypes
  <2> QED
    BY <1>5, <2>1, <2>2, <2>3, <2>4, <2>5 DEF TypeOK, EngineInv, Stages, Lists, Edged, TreeTypes
<1> QED
  BY <1>2, <1>4, <1>5, EngineInvariant, PTL

-----------------------------------------------------------------------------
(* The quadtree: every box a point is kept under contains it *)

\* Halving m times and n times more.
LEMMA PowerAdds ==
  ASSUME NEW m \in Nat, NEW n \in Nat, m + n <= MaxDepth + 1
  PROVE  Pow2[m + n] = Pow2[m] * Pow2[n]
<1> DEFINE G == {k \in Nat : m + k <= MaxDepth + 1 => Pow2[m + k] = Pow2[m] * Pow2[k]}
<1>1. MaxDepth \in Nat
  BY QuadTreeAssumption
<1>2. 0 \in G
  <2> SUFFICES ASSUME m + 0 <= MaxDepth + 1 PROVE Pow2[m + 0] = Pow2[m] * Pow2[0]
    OBVIOUS
  <2>1. m + 0 = m /\ m \in 0..(MaxDepth + 1)
    BY <1>1
  <2>2. Pow2[m] \in Nat /\ Pow2[0] = 1
    BY <2>1, PowerSteps
  <2> QED
    BY <2>1, <2>2
<1>3. ASSUME NEW k \in Nat, k \in G PROVE k + 1 \in G
  <2> SUFFICES ASSUME m + (k + 1) <= MaxDepth + 1 PROVE Pow2[m + (k + 1)] = Pow2[m] * Pow2[k + 1]
    OBVIOUS
  <2>1. PICK j : j = m + k
    OBVIOUS
  <2>2. /\ j \in 0..MaxDepth /\ k \in 0..MaxDepth /\ j + 1 = m + (k + 1) /\ j <= MaxDepth + 1
        /\ m \in 0..(MaxDepth + 1) /\ k \in 0..(MaxDepth + 1)
    BY <1>1, <2>1
  <2>3. Pow2[j] = Pow2[m] * Pow2[k]
    BY <1>3, <2>1, <2>2
  <2>4. Pow2[j + 1] = 2 * Pow2[j] /\ Pow2[k + 1] = 2 * Pow2[k]
    BY <2>2, PowerSteps
  <2>5. PICK a \in Nat, b \in Nat : a = Pow2[m] /\ b = Pow2[k]
    BY <2>2, PowerSteps
  <2>6. 2 * (a * b) = a * (2 * b)
    OBVIOUS
  <2> QED
    BY <2>2, <2>3, <2>4, <2>5, <2>6
<1>4. n \in G
  <2> HIDE DEF G
  <2> QED
    BY <1>2, <1>3, NatSteps
<1> QED
  BY <1>4

\* What divides MaxDepth times divides as often as it is asked.
LEMMA Halved ==
  ASSUME NEW a \in Nat, NEW k \in 0..MaxDepth
  PROVE  /\ (a * Pow2[MaxDepth]) \div Pow2[k] = a * Pow2[MaxDepth - k]
         /\ (a * Pow2[MaxDepth - k]) * Pow2[k] = a * Pow2[MaxDepth]
         /\ a * Pow2[MaxDepth - k] \in Nat /\ Pow2[k] \in Nat \ {0} /\ Pow2[MaxDepth - k] \in Nat \ {0}
<1>1. PICK m \in Nat : m = MaxDepth - k /\ m + k = MaxDepth
  BY QuadTreeAssumption
<1>2. MaxDepth <= MaxDepth + 1 /\ m \in 0..(MaxDepth + 1) /\ k \in 0..(MaxDepth + 1) /\ k \in Nat
  BY <1>1, QuadTreeAssumption
<1>3. Pow2[MaxDepth] = Pow2[m] * Pow2[k]
  BY <1>1, <1>2, PowerAdds
<1>4. PICK c \in Nat \ {0}, s \in Nat \ {0} : c = Pow2[m] /\ s = Pow2[k]
  BY <1>2, PowerSteps
<1>5. a * (c * s) = (a * c) * s /\ a * c \in Nat
  OBVIOUS
<1>6. \A x \in Nat : (x * s) \div s = x
  OBVIOUS
<1> QED
  BY <1>1, <1>3, <1>4, <1>5, <1>6

\* The column a coordinate falls into, and every coarser one, has it in it.
LEMMA Columns ==
  ASSUME NEW w \in Nat \ {0}, NEW s \in Nat \ {0}, NEW X \in Nat, NEW c \in Nat,
         (2 * w) * c <= X, X <= (2 * w) * (c + 1)
  PROVE  LET q == c \div s
         IN  q \in Nat /\ 2 * (w * s) * q <= X /\ X <= 2 * (w * s) * (q + 1)
<1>1. PICK q \in Nat : q = c \div s /\ s * q <= c /\ c < s * q + s
  OBVIOUS
<1>2. PICK r \in Nat : r = s * q
  OBVIOUS
<1>3. s * (q + 1) = r + s /\ c + 1 <= r + s
  BY <1>1, <1>2
<1>4. w * r <= w * c
  BY <1>1, <1>2
<1>5. w * (c + 1) <= w * (r + s)
  BY <1>3
<1>6. 2 * (w * s) * q = 2 * (w * r)
  BY <1>2
<1>7. 2 * (w * s) * (q + 1) = 2 * (w * (r + s))
  BY <1>2
<1>8. (2 * w) * c = 2 * (w * c) /\ (2 * w) * (c + 1) = 2 * (w * (c + 1))
  OBVIOUS
<1>9. w * r \in Nat /\ w * c \in Nat /\ w * (c + 1) \in Nat /\ w * (r + s) \in Nat
  OBVIOUS
<1>10. 2 * (w * s) * q <= X
  BY <1>4, <1>6, <1>8, <1>9
<1>11. X <= 2 * (w * s) * (q + 1)
  BY <1>5, <1>7, <1>8, <1>9
<1> QED
  BY <1>1, <1>10, <1>11

\* The western column wins on an edge.
LEMMA Western ==
  ASSUME NEW w \in Nat \ {0}, NEW X \in Nat, NEW c, c = Max({0, (X - 1) \div (2 * w)})
  PROVE  c \in Nat /\ (2 * w) * c <= X /\ X <= (2 * w) * (c + 1)
<1>1. PICK v \in Nat \ {0} : v = 2 * w
  OBVIOUS
<1>2. PICK f \in Int : f = (X - 1) \div v /\ v * f <= X - 1 /\ X - 1 < v * f + v
  OBVIOUS
<1>3. c = IF f >= 0 THEN f ELSE 0
  <2>1. CASE f >= 0
    BY <1>1, <1>2, <2>1 DEF Max
  <2>2. CASE f < 0
    BY <1>1, <1>2, <2>2 DEF Max
  <2> QED
    BY <1>2, <2>1, <2>2
<1>4. CASE f >= 0
  <2>1. c = f /\ v * (c + 1) = v * f + v
    BY <1>3, <1>4
  <2> QED
    BY <1>1, <1>2, <1>4, <2>1
<1>5. CASE f < 0
  <2>1. X = 0
    <3>1. v * f + v <= 0
      BY <1>2, <1>5
    <3> QED
      BY <1>2, <3>1
  <2> QED
    BY <1>1, <1>3, <1>5, <2>1
<1> QED
  BY <1>2, <1>4, <1>5

\* The northern row wins on an edge, and the last row ends the world.
LEMMA Northern ==
  ASSUME NEW w \in Nat \ {0}, NEW r \in Nat \ {0}, NEW Y \in Nat, Y <= 2 * (w * r),
         NEW c, c = Min({r - 1, Y \div (2 * w)})
  PROVE  c \in Nat /\ (2 * w) * c <= Y /\ Y <= (2 * w) * (c + 1)
<1>1. PICK v \in Nat \ {0} : v = 2 * w
  OBVIOUS
<1>2. PICK f \in Nat : f = Y \div v /\ v * f <= Y /\ Y < v * f + v
  OBVIOUS
<1>3. c = IF f <= r - 1 THEN f ELSE r - 1
  <2>1. CASE f <= r - 1
    BY <1>1, <1>2, <2>1 DEF Min
  <2>2. CASE f > r - 1
    BY <1>1, <1>2, <2>2 DEF Min
  <2> QED
    BY <1>2, <2>1, <2>2
<1>4. CASE f <= r - 1
  <2>1. c = f /\ v * (c + 1) = v * f + v
    BY <1>3, <1>4
  <2> QED
    BY <1>1, <1>2, <2>1
<1>5. CASE f > r - 1
  <2>1. c = r - 1 /\ c + 1 = r /\ c \in Nat /\ c <= f
    BY <1>2, <1>3, <1>5
  <2>2. v * c <= v * f
    BY <1>2, <2>1
  <2>3. 2 * (w * r) = v * r
    BY <1>1
  <2> QED
    BY <1>1, <1>2, <2>1, <2>2, <2>3
<1> QED
  BY <1>2, <1>4, <1>5

\* A world that can be halved MaxDepth times.
Wide(r) ==
  /\ r.x \in Int /\ r.y \in Int
  /\ \E a, b \in Nat \ {0} : r.hw = a * Pow2[MaxDepth] /\ r.hh = b * Pow2[MaxDepth]

\* The half extents of the boxes of one depth, and of n depths above.
LEMMA Extents ==
  ASSUME NEW a \in Nat \ {0}, NEW d \in 0..MaxDepth, NEW n \in 0..d
  PROVE  /\ Pow2[n] \in Nat \ {0} /\ a * Pow2[MaxDepth] \in Nat
         /\ (a * Pow2[MaxDepth]) \div Pow2[d] \in Nat \ {0}
         /\ (a * Pow2[MaxDepth]) \div Pow2[d - n] = ((a * Pow2[MaxDepth]) \div Pow2[d]) * Pow2[n]
         /\ a * Pow2[MaxDepth] = ((a * Pow2[MaxDepth]) \div Pow2[d]) * Pow2[d]
<1>1. PICK k \in 0..MaxDepth : k = d - n
  BY QuadTreeAssumption
<1>2. /\ MaxDepth - d \in Nat /\ n \in Nat /\ MaxDepth - k = (MaxDepth - d) + n
      /\ (MaxDepth - d) + n <= MaxDepth + 1 /\ n \in 0..MaxDepth
  BY <1>1, QuadTreeAssumption
<1>3. PICK c \in Nat \ {0}, s \in Nat \ {0} : c = Pow2[MaxDepth - d] /\ s = Pow2[n]
  BY <1>2, Halved
<1>4. PICK h : h = a * Pow2[MaxDepth]
  OBVIOUS
<1>5. h \div Pow2[d] = a * c /\ (a * c) * Pow2[d] = h
  BY <1>3, <1>4, Halved
<1>6. h \div Pow2[k] = a * Pow2[MaxDepth - k]
  BY <1>4, Halved
<1>7. Pow2[MaxDepth - k] = c * s
  BY <1>2, <1>3, PowerAdds
<1>8. a * (c * s) = (a * c) * s /\ a * c \in Nat \ {0}
  OBVIOUS
<1>9. h \in Nat
  <2>1. Pow2[d] \in Nat
    BY Halved
  <2> QED
    BY <1>5, <1>8, <2>1
<1> QED
  BY <1>1, <1>3, <1>4, <1>5, <1>6, <1>7, <1>8, <1>9

\* The node of a point, and every node above it, has the point in its box: the query
\* that prunes by boxes loses nobody.
LEMMA KeptUnder ==
  ASSUME NEW t, Wide(t.root), NEW p, p.x \in Int, p.y \in Int, contains(t.root, p),
         NEW d \in 0..MaxDepth, NEW n \in 0..d
  PROVE  \E x, y, w, h \in Int :
           /\ boundary(t, Above(NodeOf(t, p, d), n)) = Box(x, y, w, h)
           /\ contains(Box(x, y, w, h), p)
<1>1. PICK r : r = t.root
  OBVIOUS
<1>2. PICK a, b \in Nat \ {0} : r.hw = a * Pow2[MaxDepth] /\ r.hh = b * Pow2[MaxDepth]
  BY <1>1 DEF Wide
<1>3. PICK s \in Nat \ {0} : s = Pow2[n]
  BY Extents
<1>4. PICK w \in Nat \ {0} : /\ w = r.hw \div Pow2[d] /\ r.hw \div Pow2[d - n] = w * s
                             /\ r.hw = w * Pow2[d] /\ r.hw \in Nat
  BY <1>2, <1>3, Extents
<1>5. PICK v \in Nat \ {0} : /\ v = r.hh \div Pow2[d] /\ r.hh \div Pow2[d - n] = v * s
                             /\ r.hh = v * Pow2[d] /\ r.hh \in Nat
  BY <1>2, <1>3, Extents
<1>6. PICK m \in Nat \ {0} : m = Pow2[d]
  BY Halved
<1>7. r.x \in Int /\ r.y \in Int
  BY <1>1 DEF Wide
<1>8. PICK X \in Nat, Y \in Nat : /\ X = p.x - (r.x - r.hw) /\ Y = p.y - (r.y - r.hh)
                                  /\ Y <= 2 * r.hh
  BY <1>1, <1>4, <1>5, <1>7 DEF contains
<1>9. PICK c, e : c = Max({0, (X - 1) \div (2 * w)}) /\ e = Min({m - 1, Y \div (2 * v)})
  OBVIOUS
<1>10. NodeOf(t, p, d) = <<d, c, e>>
  BY <1>1, <1>4, <1>5, <1>6, <1>8, <1>9 DEF NodeOf
<1>11. c \in Nat /\ (2 * w) * c <= X /\ X <= (2 * w) * (c + 1)
  BY <1>9, Western
<1>12. e \in Nat /\ (2 * v) * e <= Y /\ Y <= (2 * v) * (e + 1)
  BY <1>5, <1>6, <1>8, <1>9, Northern
<1>13. PICK q, u : q = c \div s /\ u = e \div s
  OBVIOUS
<1>14. q \in Nat /\ 2 * (w * s) * q <= X /\ X <= 2 * (w * s) * (q + 1)
  BY <1>11, <1>13, Columns
<1>15. u \in Nat /\ 2 * (v * s) * u <= Y /\ Y <= 2 * (v * s) * (u + 1)
  BY <1>12, <1>13, Columns
<1>16. Above(NodeOf(t, p, d), n) = <<d - n, q, u>>
  BY <1>3, <1>10, <1>13 DEF Above
<1>17. PICK W \in Nat, V \in Nat : W = w * s /\ V = v * s
  OBVIOUS
<1>18. boundary(t, <<d - n, q, u>>) =
         Box(r.x - r.hw + (2 * q + 1) * W, r.y - r.hh + (2 * u + 1) * V, W, V)
  BY <1>1, <1>4, <1>5, <1>17 DEF boundary
<1>19. /\ (2 * q + 1) * W = 2 * W * q + W /\ 2 * W * (q + 1) = 2 * W * q + 2 * W
       /\ (2 * u + 1) * V = 2 * V * u + V /\ 2 * V * (u + 1) = 2 * V * u + 2 * V
       /\ 2 * W * q \in Nat /\ 2 * V * u \in Nat
  BY <1>14, <1>15
<1>20. PICK A \in Nat, B \in Nat : A = 2 * W * q /\ B = 2 * V * u
  BY <1>19
<1>21. A <= X /\ X <= A + 2 * W /\ B <= Y /\ Y <= B + 2 * V
  BY <1>14, <1>15, <1>17, <1>19, <1>20
<1>22. boundary(t, <<d - n, q, u>>) = Box(r.x - r.hw + A + W, r.y - r.hh + B + V, W, V)
  BY <1>4, <1>5, <1>7, <1>18, <1>19, <1>20
<1>23. PICK x, y \in Int : x = r.x - r.hw + A + W /\ y = r.y - r.hh + B + V
  BY <1>4, <1>5, <1>7
<1>24. contains(Box(x, y, W, V), p)
  BY <1>4, <1>5, <1>7, <1>8, <1>21, <1>23 DEF contains, Box
<1> QED
  BY <1>16, <1>22, <1>23, <1>24

-----------------------------------------------------------------------------
(* The quadtree: it holds every driver *)

\* No coordinate of a batch priced by distance is negative: the hemispheres the
\* square world is made for.
NorthEast ==
  \A b \in Batches : b.metric = "euclidean" =>
    \A s \in {b.riders, b.drivers} : \A i \in DOMAIN s : s[i].x >= 0 /\ s[i].y >= 0

\* Everybody of the batch is in the world, and the first n drivers are in the tree,
\* each where it is, at a node that has the place in it.
Encloses(r) == Wide(r) /\ \A p \in Points : contains(r, p)

Planted(n) ==
  /\ Encloses(tree.root)
  /\ {e.id : e \in tree.points} = {j \in Drivers : j <= n}
  /\ \A e \in tree.points :
       /\ e.x = batch.drivers[e.id].x /\ e.y = batch.drivers[e.id].y
       /\ \E d \in 0..MaxDepth : e.node = NodeOf(tree, e, d)
  /\ \A e, f \in tree.points : e.id = f.id => e = f

TreeInv ==
  /\ phase = "index" => Planted(next - 1)
  /\ phase \in {"shortlist", "price"} /\ K # 0 => Planted(Len(batch.drivers))

\* A number that leaves no remainder is a multiple.
LEMMA Divides ==
  ASSUME NEW m \in Nat, NEW s \in Nat \ {0}, m % s = 0
  PROVE  \E q \in Nat : m = s * q
<1>1. m \div s \in Nat /\ s * (m \div s) = m
  OBVIOUS
<1> QED
  BY <1>1

\* The square world has everybody in it.
LEMMA SquareEncloses ==
  ASSUME batch \in Batches, NorthEast, ~TravelTime
  PROVE  Encloses(SquareWorld)
<1>1. PICK m \in Nat, h \in Nat :
           /\ SquareWorld = Box(h, h, h, h) /\ h = m + Unit \div 2
           /\ \A p \in Points : p.x <= m /\ p.y <= m
           /\ m = 0 \/ \E p \in Points : m = p.x \/ m = p.y
  BY SquareFacts
<1>2. PICK s \in Nat \ {0} : s = Pow2[MaxDepth]
  BY PowerSteps, QuadTreeAssumption
<1>3. Unit \div 2 = s
  <2>1. Unit = 2 * s
    BY <1>2, PowerSteps, QuadTreeAssumption DEF Unit
  <2> QED
    BY <1>2, <2>1
<1>4. \A p \in Points : p \in Place /\ p.x >= 0 /\ p.y >= 0 /\ p.x % s = 0 /\ p.y % s = 0
  <2>1. batch.metric = "euclidean"
    BY BatchesAssumption DEF TravelTime
  <2>2. PICK r, d : r = batch.riders /\ d = batch.drivers
    OBVIOUS
  <2>3. \A i \in DOMAIN r : r[i].x >= 0 /\ r[i].y >= 0 /\ r[i].x % s = 0 /\ r[i].y % s = 0
    BY <1>2, <2>1, <2>2, UnitAssumption DEF NorthEast
  <2>4. \A i \in DOMAIN d : d[i].x >= 0 /\ d[i].y >= 0 /\ d[i].x % s = 0 /\ d[i].y % s = 0
    BY <1>2, <2>1, <2>2, UnitAssumption DEF NorthEast
  <2>5. Points = {r[i] : i \in DOMAIN r} \cup {d[i] : i \in DOMAIN d}
    BY <2>2 DEF Points, Riders, Drivers
  <2>6. Points \subseteq Place
    BY PointsFinite
  <2> QED
    BY <2>3, <2>4, <2>5, <2>6
<1>5. m % s = 0
  <2>1. 0 % s = 0
    OBVIOUS
  <2> QED
    BY <1>1, <1>4, <2>1
<1>6. PICK q \in Nat : m = s * q
  BY <1>5, Divides
<1>7. h = (q + 1) * s /\ q + 1 \in Nat \ {0}
  <2>1. (q + 1) * s = s * q + s
    OBVIOUS
  <2> QED
    BY <1>1, <1>3, <1>6, <2>1
<1>8. Wide(SquareWorld)
  BY <1>1, <1>2, <1>7 DEF Wide, Box
<1>9. ASSUME NEW p \in Points PROVE contains(SquareWorld, p)
  <2>1. p.x \in Int /\ p.y \in Int /\ p.x >= 0 /\ p.y >= 0 /\ p.x <= m /\ p.y <= m
    BY <1>1, <1>4 DEF Place
  <2> QED
    BY <1>1, <1>3, <2>1 DEF contains, Box
<1> QED
  BY <1>8, <1>9 DEF Encloses

\* A bounding box a little wider than what it bounds.
LEMMA Widened ==
  ASSUME NEW a \in Int, NEW b \in Int, a <= b, NEW s \in Nat \ {0},
         NEW x \in Int, a <= x, x <= b
  PROVE  LET h == s * ((b - a) \div (2 * s) + 1) IN
         (a + b) \div 2 - h <= x /\ x <= (a + b) \div 2 + h
<1>1. PICK q \in Nat : q = (b - a) \div (2 * s) /\ b - a < (2 * s) * q + 2 * s
  OBVIOUS
<1>2. PICK h \in Nat : h = s * (q + 1)
  OBVIOUS
<1>3. b - a < 2 * h
  <2>1. 2 * (s * (q + 1)) = (2 * s) * q + 2 * s
    OBVIOUS
  <2> QED
    BY <1>1, <1>2, <2>1
<1>4. PICK c \in Int : c = (a + b) \div 2 /\ 2 * c <= a + b /\ a + b <= 2 * c + 1
  OBVIOUS
<1>5. c - h <= x /\ x <= c + h
  BY <1>3, <1>4
<1> QED
  BY <1>1, <1>2, <1>4, <1>5

\* So has the bounding box.
LEMMA BoundingEncloses ==
  ASSUME batch \in Batches, Riders # {}
  PROVE  Encloses(BoundingWorld)
<1>1. PICK a, b, c, d \in Int :
           /\ BoundingWorld = Box((a + b) \div 2, (c + d) \div 2,
                                  Pow2[MaxDepth] * ((b - a) \div Unit + 1),
                                  Pow2[MaxDepth] * ((d - c) \div Unit + 1))
           /\ a <= b /\ c <= d
           /\ \A p \in Points : a <= p.x /\ p.x <= b /\ c <= p.y /\ p.y <= d
  BY BoundingFacts
<1>2. PICK s \in Nat \ {0} : s = Pow2[MaxDepth] /\ Unit = 2 * s
  BY PowerSteps, QuadTreeAssumption DEF Unit
<1>3. PICK g, h : g = s * ((b - a) \div (2 * s) + 1) /\ h = s * ((d - c) \div (2 * s) + 1)
  OBVIOUS
<1>4. BoundingWorld = Box((a + b) \div 2, (c + d) \div 2, g, h)
  BY <1>1, <1>2, <1>3
<1>5. Wide(BoundingWorld)
  <2>1. PICK u, v \in Nat \ {0} : u = (b - a) \div (2 * s) + 1 /\ v = (d - c) \div (2 * s) + 1
    <3>1. (b - a) \div (2 * s) \in Nat /\ (d - c) \div (2 * s) \in Nat
      BY <1>1
    <3> QED
      BY <3>1
  <2>2. g = u * s /\ h = v * s
    BY <1>3, <2>1
  <2>3. (a + b) \div 2 \in Int /\ (c + d) \div 2 \in Int
    OBVIOUS
  <2> QED
    BY <1>2, <1>4, <2>2, <2>3 DEF Wide, Box
<1>6. ASSUME NEW p \in Points PROVE contains(BoundingWorld, p)
  <2>1. p.x \in Int /\ p.y \in Int
    BY PointsFinite DEF Place
  <2>2. (a + b) \div 2 - g <= p.x /\ p.x <= (a + b) \div 2 + g
    BY <1>1, <1>3, <2>1, Widened
  <2>3. (c + d) \div 2 - h <= p.y /\ p.y <= (c + d) \div 2 + h
    BY <1>1, <1>3, <2>1, Widened
  <2> QED
    BY <1>4, <2>2, <2>3 DEF contains, Box
<1> QED
  BY <1>5, <1>6 DEF Encloses

\* A point of the world is kept at its node of some depth.
LEMMA InsertPlants ==
  ASSUME NEW t, Shaped(t), NEW p, contains(t.root, p)
  PROVE  \E d \in 0..MaxDepth :
           insert(t, p).points =
             t.points \cup {[node |-> NodeOf(t, p, d), id |-> p.id, x |-> p.x, y |-> p.y]}
<1>1. PICK S : S = {n \in 0..MaxDepth : HasRoom(t, NodeOf(t, p, n))}
  OBVIOUS
<1>2. MaxDepth \in Nat /\ MaxDepth \in 0..MaxDepth
  BY QuadTreeAssumption
<1>3. NodeOf(t, p, MaxDepth)[1] = MaxDepth
  BY DEF NodeOf
<1>4. MaxDepth \in S
  BY <1>1, <1>2, <1>3 DEF HasRoom
<1>5. PICK depth \in 0..MaxDepth : depth = Min(S)
  BY <1>1, <1>4, LeastDepth
<1>6. PICK node, D : node = NodeOf(t, p, depth) /\ D = {Above(node, n) : n \in 1..depth}
  OBVIOUS
<1>7. PICK e : e = [node |-> node, id |-> p.id, x |-> p.x, y |-> p.y]
  OBVIOUS
<1>8. insert(t, p) = [t EXCEPT !.points = @ \cup {e}, !.divided = @ \cup D]
  BY <1>1, <1>5, <1>6, <1>7 DEF insert
<1>9. insert(t, p).points = t.points \cup {e}
  BY <1>8 DEF Shaped
<1> QED
  BY <1>6, <1>7, <1>9

\* A node is a matter of the root and the place.
LEMMA SameNode ==
  ASSUME NEW t, NEW u, NEW p, NEW q, NEW d, t.root = u.root, p.x = q.x, p.y = q.y
  PROVE  NodeOf(t, p, d) = NodeOf(u, q, d)
BY DEF NodeOf

\* A tree that stays keeps what is in it.
LEMMA StillPlanted ==
  ASSUME NEW n, Planted(n), UNCHANGED <<batch, tree>>
  PROVE  Planted(n)'
BY DEF Planted, Encloses, Points, Riders, Drivers


\* The next driver goes in.
LEMMA PlantOne ==
  ASSUME EngineInv, Index, NEW n, n = next, Planted(n - 1)
  PROVE  Planted(n)'
<1>1. phase = "index" /\ batch' = batch
  BY DEF Index
<1>2. /\ batch = NoBatch \/ batch \in Batches
      /\ n \in Drivers
  BY <1>1 DEF EngineInv, Stages
<1>3. n \in Nat /\ Drivers = 1..Len(batch.drivers) /\ Len(batch.drivers) \in Nat
  BY <1>2, BatchTypes
<1>4. Drivers' = Drivers /\ Riders' = Riders /\ Points' = Points
  BY <1>1 DEF Drivers, Riders, Points
<1>5. PICK c : c = batch.drivers[n]
  OBVIOUS
<1>6. c \in Points
  BY <1>2, <1>5, PointsFinite
<1>7. PICK p : p = [id |-> n, x |-> c.x, y |-> c.y]
  OBVIOUS
<1>8. p.id = n /\ p.x = c.x /\ p.y = c.y /\ tree' = insert(tree, p)
  BY <1>5, <1>7 DEF Index
<1>9. Shaped(tree)
  BY DEF EngineInv, Lists, Shaped
<1>10. tree'.root = tree.root
  BY <1>8, <1>9, InsertAdds
<1>11. contains(tree.root, p)
  <2>1. contains(tree.root, c)
    BY <1>6 DEF Planted, Encloses
  <2> QED
    BY <1>8, <2>1 DEF contains
<1>12. PICK d \in 0..MaxDepth :
         tree'.points = tree.points \cup
           {[node |-> NodeOf(tree, p, d), id |-> p.id, x |-> p.x, y |-> p.y]}
  BY <1>8, <1>9, <1>11, InsertPlants
<1>13. PICK f : f = [node |-> NodeOf(tree, p, d), id |-> p.id, x |-> p.x, y |-> p.y]
  OBVIOUS
<1>14. /\ f.id = n /\ f.x = c.x /\ f.y = c.y /\ f.node = NodeOf(tree, p, d)
       /\ tree'.points = tree.points \cup {f}
  BY <1>8, <1>12, <1>13
<1>15. f.node = NodeOf(tree', f, d)
  BY <1>8, <1>10, <1>14, SameNode
<1>16. Encloses(tree.root)'
  BY <1>4, <1>10 DEF Planted, Encloses
<1>17. {e.id : e \in tree.points} = {j \in Drivers : j <= n - 1}
  BY DEF Planted
<1>18. {e.id : e \in tree'.points} = {j \in Drivers : j <= n}
  <2>1. {e.id : e \in tree'.points} = {e.id : e \in tree.points} \cup {n}
    BY <1>14
  <2>2. {j \in Drivers : j <= n} = {j \in Drivers : j <= n - 1} \cup {n}
    BY <1>2, <1>3
  <2> QED
    BY <1>17, <2>1, <2>2
<1>19. ASSUME NEW e \in tree'.points
       PROVE  /\ e.x = batch.drivers[e.id].x /\ e.y = batch.drivers[e.id].y
              /\ \E k \in 0..MaxDepth : e.node = NodeOf(tree', e, k)
  <2>1. CASE e = f
    BY <1>5, <1>14, <1>15, <2>1
  <2>2. CASE e \in tree.points
    <3>1. /\ e.x = batch.drivers[e.id].x /\ e.y = batch.drivers[e.id].y
          /\ \E k \in 0..MaxDepth : e.node = NodeOf(tree, e, k)
      BY <2>2 DEF Planted
    <3>2. \A k \in 0..MaxDepth : NodeOf(tree', e, k) = NodeOf(tree, e, k)
      BY <1>10, SameNode
    <3> QED
      BY <3>1, <3>2
  <2> QED
    BY <1>14, <2>1, <2>2
<1>20. ASSUME NEW e \in tree'.points, NEW g \in tree'.points, e.id = g.id PROVE e = g
  <2>1. \A a \in tree.points : a.id # n
    <3>1. n \notin {j \in Drivers : j <= n - 1}
      BY <1>3
    <3> QED
      BY <1>17, <3>1
  <2>2. \A a, b \in tree.points : a.id = b.id => a = b
    BY DEF Planted
  <2> QED
    BY <1>14, <1>20, <2>1, <2>2
<1> QED
  BY <1>1, <1>4, <1>16, <1>18, <1>19, <1>20 DEF Planted

\* Every step keeps the tree right.
LEMMA TreeInvStep ==
  ASSUME NorthEast
  PROVE  EngineInv /\ TreeInv /\ [Next]_vars => TreeInv'
<1> SUFFICES ASSUME EngineInv, TreeInv, [Next]_vars PROVE TreeInv'
  OBVIOUS
<1>1. ASSUME phase' \notin {"index", "shortlist", "price"} PROVE TreeInv'
  BY <1>1 DEF TreeInv
<1>2. ASSUME UNCHANGED <<batch, tree>>, phase \in {"shortlist", "price"}, phase' # "index"
      PROVE  TreeInv'
  <2>1. PICK n : n = Len(batch.drivers)
    OBVIOUS
  <2>2. K' = K /\ Len(batch'.drivers) = n
    BY <1>2, <2>1 DEF K
  <2>3. K # 0 => Planted(n)
    BY <1>2, <2>1 DEF TreeInv
  <2>4. K # 0 => Planted(n)'
    BY <1>2, <2>3, StillPlanted
  <2>5. K # 0 => Planted(Len(batch.drivers))'
    BY <2>2, <2>4 DEF Planted
  <2> QED
    BY <1>2, <2>2, <2>5 DEF TreeInv
<1>3. ASSUME NEW b \in Batches, Receive(b) PROVE TreeInv'
  BY <1>1, <1>3 DEF Receive
<1>4. CASE Cancel \/ Refuse \/ AnswerEmpty
  BY <1>1, <1>4 DEF Cancel, Refuse, Answered, AnswerEmpty
<1>5. CASE Build
  <2>1. /\ phase = "received" /\ batch' = batch /\ Riders # {} /\ next' = 1
        /\ phase' = IF K = 0 THEN "shortlist" ELSE "index"
        /\ tree' = IF K = 0 THEN tree
                   ELSE EmptyTree(IF TravelTime THEN BoundingWorld ELSE SquareWorld)
    BY <1>5 DEF Build
  <2>2. K' = K /\ Drivers' = Drivers /\ Riders' = Riders /\ Points' = Points
    BY <2>1 DEF K, Drivers, Riders, Points
  <2>3. CASE K = 0
    BY <2>1, <2>2, <2>3 DEF TreeInv
  <2>4. CASE K # 0
    <3>1. PICK r : r = IF TravelTime THEN BoundingWorld ELSE SquareWorld
      OBVIOUS
    <3>2. batch \in Batches
      <4>1. batch # NoBatch
        BY <2>1 DEF NoBatch, Riders
      <4> QED
        BY <4>1 DEF EngineInv, Stages
    <3>3. Encloses(r)
      <4>1. CASE TravelTime
        BY <2>1, <3>1, <3>2, <4>1, BoundingEncloses
      <4>2. CASE ~TravelTime
        BY <3>1, <3>2, <4>2, SquareEncloses
      <4> QED
        BY <4>1, <4>2
    <3>4. tree'.root = r /\ tree'.points = {}
      BY <2>1, <2>4, <3>1 DEF EmptyTree
    <3>5. Encloses(tree.root)'
      BY <2>2, <3>3, <3>4 DEF Encloses
    <3>6. {j \in Drivers : j <= 0} = {}
      BY <3>2, BatchTypes
    <3>7. next' - 1 = 0
      BY <2>1
    <3>8. Planted(next - 1)'
      BY <2>1, <2>2, <3>4, <3>5, <3>6, <3>7 DEF Planted
    <3> QED
      BY <2>1, <2>4, <3>8 DEF TreeInv
  <2> QED
    BY <2>3, <2>4
<1>6. CASE Index
  <2>1. PICK n : n = next
    OBVIOUS
  <2>2. /\ phase = "index" /\ batch' = batch
        /\ \/ next = Len(batch.drivers) /\ phase' = "shortlist" /\ next' = 1
           \/ next # Len(batch.drivers) /\ phase' = "index" /\ next' = next + 1
    BY <1>6 DEF Index
  <2>3. Planted(n - 1)
    BY <2>1, <2>2 DEF TreeInv
  <2>4. Planted(n)'
    BY <1>6, <2>1, <2>3, PlantOne
  <2>5. n \in Nat
    <3>1. batch = NoBatch \/ batch \in Batches
      BY DEF EngineInv, Stages
    <3>2. n \in Drivers
      BY <2>1, <2>2 DEF EngineInv, Stages
    <3> QED
      BY <3>1, <3>2, BatchTypes
  <2>6. CASE phase' = "shortlist"
    <3>1. Len(batch'.drivers) = n
      BY <2>1, <2>2, <2>6
    <3>2. Planted(Len(batch.drivers))'
      BY <2>4, <3>1 DEF Planted
    <3> QED
      BY <2>6, <3>2 DEF TreeInv
  <2>7. CASE phase' = "index"
    <3>1. next' - 1 = n
      BY <2>1, <2>2, <2>5, <2>7
    <3>2. Planted(next - 1)'
      BY <2>4, <3>1 DEF Planted
    <3> QED
      BY <2>7, <3>2 DEF TreeInv
  <2> QED
    BY <2>2, <2>6, <2>7
<1>7. CASE Search \/ Widen \/ Shortlist
  BY <1>2, <1>7 DEF Search, Widen, Shortlist
<1>8. CASE Sweep
  BY <1>2, <1>8 DEF Sweep, serviceVars
<1>9. CASE Price
  <2>1. phase = "price" /\ UNCHANGED <<batch, tree>> /\ phase' # "index"
    BY <1>9 DEF Price
  <2> QED
    BY <1>2, <2>1
<1>10. CASE Solve \/ Solver \/ Respond \/ Return
  BY <1>1, <1>10 DEF Solve, Solver, Respond, Return, serviceVars
<1>11. CASE UNCHANGED vars
  <2>1. UNCHANGED <<phase, batch, tree, next>>
    BY <1>11 DEF vars, serviceVars
  <2>2. CASE phase = "index"
    <3>1. PICK n : n = next - 1
      OBVIOUS
    <3>2. Planted(n)'
      BY <2>1, <2>2, <3>1, StillPlanted DEF TreeInv
    <3>3. Planted(next - 1)'
      BY <2>1, <3>1, <3>2 DEF Planted
    <3> QED
      BY <2>1, <2>2, <3>3 DEF TreeInv
  <2>3. CASE phase \in {"shortlist", "price"}
    BY <1>2, <2>1, <2>3
  <2>4. CASE phase \notin {"index", "shortlist", "price"}
    BY <1>1, <2>1, <2>4
  <2> QED
    BY <2>2, <2>3, <2>4
<1> QED
  BY <1>3, <1>4, <1>5, <1>6, <1>7, <1>8, <1>9, <1>10, <1>11 DEF Next, solveBatchImpl

\* So is the tree.
LEMMA TreeInvHolds == ASSUME NorthEast PROVE Spec => []TreeInv
<1>1. Init => TreeInv
  BY DEF Init, ServiceInit, TreeInv
<1>2. EngineInv /\ TreeInv /\ [Next]_vars => TreeInv'
  BY TreeInvStep
<1> QED
  BY <1>1, <1>2, EngineInvariant, PTL DEF Spec

-----------------------------------------------------------------------------
(* The quadtree: what kNearest finds *)

\* Two boxes with a point in common meet.
LEMMA Meeting ==
  ASSUME NEW x \in Int, NEW y \in Int, NEW w \in Int, NEW h \in Int,
         NEW u \in Int, NEW v \in Int, NEW r \in Int, NEW p, p.x \in Int, p.y \in Int,
         contains(Box(x, y, w, h), p), contains(Box(u, v, r, r), p)
  PROVE  intersects(Box(x, y, w, h), Box(u, v, r, r))
BY DEF contains, intersects, Box

\* A query finds all that is in its range, whatever it prunes.
LEMMA CandidatesExact ==
  ASSUME batch \in Batches, NEW n, Planted(n), NEW p \in Place, NEW r \in Nat
  PROVE  Candidates(tree, p, r) = {e \in tree.points : contains(Box(p.x, p.y, r, r), e)}
<1>1. p.x \in Int /\ p.y \in Int
  BY DEF Place
<1>2. ASSUME NEW e \in tree.points, contains(Box(p.x, p.y, r, r), e), NEW k \in 0..e.node[1]
      PROVE  intersects(boundary(tree, Above(e.node, k)), Box(p.x, p.y, r, r))
  <2>1. PICK d \in 0..MaxDepth : e.node = NodeOf(tree, e, d)
    BY DEF Planted
  <2>2. e.node[1] = d
    BY <2>1 DEF NodeOf
  <2>3. PICK c : c = batch.drivers[e.id] /\ e.x = c.x /\ e.y = c.y /\ e.id \in Drivers
    BY DEF Planted
  <2>4. c \in Points /\ c \in Place
    BY <2>3, PointsFinite
  <2>5. e.x \in Int /\ e.y \in Int
    BY <2>3, <2>4 DEF Place
  <2>6. contains(tree.root, e) /\ Wide(tree.root)
    BY <2>3, <2>4 DEF Planted, Encloses, contains
  <2>7. \E x, y, w, h \in Int :
          /\ boundary(tree, Above(NodeOf(tree, e, d), k)) = Box(x, y, w, h)
          /\ contains(Box(x, y, w, h), e)
    BY <2>2, <2>5, <2>6, KeptUnder
  <2>8. PICK x, y, w, h \in Int :
          /\ boundary(tree, Above(NodeOf(tree, e, d), k)) = Box(x, y, w, h)
          /\ contains(Box(x, y, w, h), e)
    BY <2>7
  <2>9. intersects(Box(x, y, w, h), Box(p.x, p.y, r, r))
    BY <1>1, <1>2, <2>5, <2>8, Meeting
  <2> QED
    BY <2>1, <2>8, <2>9
<1> QED
  BY <1>2 DEF Candidates, queryRange

\* Drivers are as many as the points they are.
LEMMA SameNumber ==
  ASSUME NEW S, IsFiniteSet(S), \A e, f \in S : e.id = f.id => e = f
  PROVE  Cardinality({e.id : e \in S}) = Cardinality(S)
<1>1. PICK T, g : T = {e.id : e \in S} /\ g = [e \in S |-> e.id]
  OBVIOUS
<1>2. g \in Surjection(S, T) /\ g \in Injection(S, T)
  BY <1>1 DEF Injection, Surjection, IsInjective
<1>3. Cardinality(S) = Cardinality(T)
  BY <1>2, FS_Surjection
<1> QED
  BY <1>1, <1>3

\* The points of a tree are finitely many, and as many as its drivers.
LEMMA PointsCounted ==
  ASSUME batch \in Batches, Planted(Len(batch.drivers))
  PROVE  IsFiniteSet(tree.points) /\ Cardinality(tree.points) = Len(batch.drivers)
         /\ {e.id : e \in tree.points} = Drivers
<1>1. PICK n \in Nat : n = Len(batch.drivers) /\ Drivers = 1..n
  BY BatchTypes
<1>2. PICK S : S = tree.points
  OBVIOUS
<1>3. {e.id : e \in S} = Drivers /\ \A e, f \in S : e.id = f.id => e = f
  <2>1. {j \in Drivers : j <= n} = Drivers
    BY <1>1
  <2> QED
    BY <1>1, <1>2, <2>1 DEF Planted
<1>4. PICK g : g = [e \in S |-> e.id]
  OBVIOUS
<1>5. g \in Surjection(S, Drivers) /\ g \in Injection(S, Drivers)
  BY <1>3, <1>4 DEF Injection, Surjection, IsInjective
<1>6. IsFiniteSet(Drivers) /\ Cardinality(Drivers) = n
  <2>1. IsFiniteSet(1..n) /\ Cardinality(1..n) = IF 1 > n THEN 0 ELSE n - 1 + 1
    BY FS_Interval
  <2> QED
    BY <1>1, <2>1
<1>7. IsFiniteSet(S)
  BY <1>5, <1>6, FS_Injection
<1>8. Cardinality(S) = Cardinality(Drivers)
  BY <1>5, <1>7, FS_Surjection
<1> QED
  BY <1>1, <1>2, <1>3, <1>6, <1>7, <1>8

\* A leg beyond the radius makes a distance beyond it.
LEMMA LongLeg ==
  ASSUME NEW u \in Int, NEW v \in Int, NEW r \in Nat, u > r \/ u < -r
  PROVE  u * u + v * v > r * r
<1>1. v * v >= 0 /\ v * v \in Int /\ u * u \in Int /\ r * r \in Int
  OBVIOUS
<1>2. u * u > r * r
  <2>1. PICK w \in Nat : w > r /\ w * w = u * u
    <3>1. CASE u > r
      BY <3>1
    <3>2. CASE u < -r
      <4>1. -u \in Nat /\ -u > r /\ (-u) * (-u) = u * u
        BY <3>2
      <4> QED
        BY <4>1
    <3> QED
      BY <3>1, <3>2
  <2>2. w * w > r * r
    BY <2>1
  <2> QED
    BY <2>1, <2>2
<1> QED
  BY <1>1, <1>2

\* So what is outside the box is farther than its radius.
LEMMA OutsideIsFarther ==
  ASSUME NEW e, NEW p, e.x \in Int, e.y \in Int, p.x \in Int, p.y \in Int, NEW r \in Nat
  PROVE  /\ distSq(e, p) \in Int
         /\ ~contains(Box(p.x, p.y, r, r), e) => distSq(e, p) > r * r
<1>1. PICK u \in Int, v \in Int : u = e.x - p.x /\ v = e.y - p.y
  OBVIOUS
<1>2. distSq(e, p) = u * u + v * v
  BY <1>1 DEF distSq
<1>3. u * u + v * v \in Int
  OBVIOUS
<1>4. ASSUME ~contains(Box(p.x, p.y, r, r), e) PROVE distSq(e, p) > r * r
  <2>1. (u > r \/ u < -r) \/ (v > r \/ v < -r)
    BY <1>1, <1>4 DEF contains, Box
  <2>2. CASE u > r \/ u < -r
    BY <1>2, <2>2, LongLeg
  <2>3. CASE v > r \/ v < -r
    <3>1. v * v + u * u > r * r
      BY <2>3, LongLeg
    <3>2. v * v + u * u = u * u + v * v
      OBVIOUS
    <3> QED
      BY <1>2, <3>1, <3>2
  <2> QED
    BY <2>1, <2>2, <2>3
<1> QED
  BY <1>2, <1>3, <1>4

\* The first k of what the box holds are the first k of all, once k of them are
\* within the radius, or the box holds everything.
LEMMA FirstOfAll ==
  ASSUME NEW S, IsFiniteSet(S), NEW p, NEW r \in Nat, NEW k \in Nat, NEW C \in SUBSET S,
         \A e \in S : distSq(e, p) \in Int, \A e \in S \ C : distSq(e, p) > r * r,
         NEW found \in NearestOf(C, p, k),
         Trusted(C, p, k, r) \/ (C = S /\ k <= Cardinality(S))
  PROVE  /\ found \subseteq S /\ IsFiniteSet(found) /\ Cardinality(found) = k
         /\ \A a \in found, b \in S \ found : distSq(a, p) <= distSq(b, p)
<1>2. \A e \in S : distSq(e, p) \in Int
  OBVIOUS
<1>3. \A e \in S \ C : distSq(e, p) > r * r
  OBVIOUS
<1>4. PICK G : G = {e \in C : distSq(e, p) <= r * r}
  OBVIOUS
<1>5. C \in SUBSET S /\ G \in SUBSET C /\ found \in SUBSET C
  BY <1>4 DEF NearestOf
<1>6. IsFiniteSet(C) /\ Cardinality(C) \in Nat
  BY <1>5, FS_Subset, FS_CardinalityType
<1>7. IsFiniteSet(G) /\ Cardinality(G) \in Nat /\ Cardinality(G) <= Cardinality(C)
  BY <1>5, <1>6, FS_Subset, FS_CardinalityType
<1>8. IsFiniteSet(found)
  BY <1>5, <1>6, FS_Subset
<1>9. /\ Cardinality(found) = Min({k, Cardinality(C)})
      /\ \A a \in found, b \in C \ found : distSq(a, p) <= distSq(b, p)
  BY DEF NearestOf
<1>10. Trusted(C, p, k, r) => Cardinality(G) >= k
  BY <1>4 DEF Trusted
<1>11. k <= Cardinality(C)
  BY <1>6, <1>7, <1>10
<1>12. Cardinality(found) = k
  <2>1. Min({k, Cardinality(C)}) = k
    BY <1>6, <1>11 DEF Min
  <2> QED
    BY <1>9, <2>1
<1>13. ASSUME NEW a \in found, NEW b \in S \ found PROVE distSq(a, p) <= distSq(b, p)
  <2>1. CASE b \in C
    BY <1>9, <2>1
  <2>2. CASE b \notin C
    <3>1. Cardinality(G) >= k
      BY <1>10, <2>2
    <3>2. PICK x \in Int, y \in Int, q \in Int : x = distSq(a, p) /\ y = distSq(b, p) /\ q = r * r
      BY <1>2, <1>5
    <3>3. y > q
      BY <1>3, <2>2, <3>2
    <3>4. x <= q
      <4> SUFFICES ASSUME x > q PROVE FALSE
        BY <3>2
      <4>1. G \subseteq found
        <5> SUFFICES ASSUME NEW g \in G, g \notin found PROVE FALSE
          OBVIOUS
        <5>1. distSq(a, p) <= distSq(g, p)
          BY <1>5, <1>9
        <5>2. distSq(g, p) <= q /\ distSq(g, p) \in Int
          BY <1>2, <1>4, <1>5, <3>2
        <5> QED
          BY <3>2, <5>1, <5>2
      <4>2. a \notin G
        BY <1>4, <3>2
      <4>3. G \cup {a} \in SUBSET found
        BY <4>1
      <4>4. Cardinality(G \cup {a}) = Cardinality(G) + 1
        BY <1>7, <4>2, FS_AddElement
      <4>5. Cardinality(G \cup {a}) <= Cardinality(found)
        BY <1>8, <4>3, FS_Subset
      <4> QED
        BY <1>7, <1>12, <3>1, <4>4, <4>5
    <3> QED
      BY <3>2, <3>3, <3>4
  <2> QED
    BY <2>1, <2>2
<1> QED
  BY <1>5, <1>8, <1>12, <1>13

\* A box far wider than the world holds everything in it.
LEMMA WidestBox ==
  ASSUME NEW t, Wide(t.root), NEW p, NEW e, NEW r \in Nat,
         p.x \in Int, p.y \in Int, e.x \in Int, e.y \in Int,
         contains(t.root, p), contains(t.root, e),
         r >= (t.root.hw + t.root.hh) * 4 + Unit
  PROVE  contains(Box(p.x, p.y, r, r), e)
<1>1. PICK s \in Nat \ {0} : s = Pow2[MaxDepth]
  BY PowerSteps, QuadTreeAssumption
<1>2. PICK a, b \in Nat \ {0} : t.root.hw = a * s /\ t.root.hh = b * s
  BY <1>1 DEF Wide
<1>3. a * s \in Nat /\ b * s \in Nat
  OBVIOUS
<1>4. PICK w \in Nat, h \in Nat : w = t.root.hw /\ h = t.root.hh
  BY <1>2, <1>3
<1>5. Unit \in Nat
  BY PowerSteps, QuadTreeAssumption DEF Unit
<1>6. PICK x \in Int, y \in Int : x = t.root.x /\ y = t.root.y
  BY DEF Wide
<1>7. r >= 2 * w /\ r >= 2 * h
  BY <1>4, <1>5
<1>8. /\ x - w <= p.x /\ p.x <= x + w /\ y - h <= p.y /\ p.y <= y + h
      /\ x - w <= e.x /\ e.x <= x + w /\ y - h <= e.y /\ e.y <= y + h
  BY <1>4, <1>6 DEF contains
<1>9. p.x - r <= e.x /\ e.x <= p.x + r /\ p.y - r <= e.y /\ e.y <= p.y + r
  BY <1>7, <1>8
<1> QED
  BY <1>9 DEF contains, Box

\* What is right of one shortlist: as many as asked for, and nobody else is nearer.
Exact(i, near) ==
  /\ near # {}
  /\ K # 0 => /\ Cardinality(near) = K
              /\ \A a \in near, b \in Drivers \ near :
                   distSq(batch.drivers[a], batch.riders[i]) <= distSq(batch.drivers[b], batch.riders[i])

\* The drivers kNearest returns are the nearest.
LEMMA NearestDrivers ==
  ASSUME EngineInv, TreeInv, phase = "shortlist", K # 0, radius \in Nat,
         Final(tree, batch.riders[next], K, radius),
         NEW found \in kNearest(tree, batch.riders[next], K, radius)
  PROVE  Exact(next, {e.id : e \in found})
<1>1. next \in Riders /\ (batch = NoBatch \/ batch \in Batches) /\ Drivers # {}
  BY DEF EngineInv, Stages
<1>2. batch \in Batches
  <2>1. batch # NoBatch
    BY <1>1 DEF NoBatch, Riders
  <2> QED
    BY <1>1, <2>1
<1>3. PICK p : p = batch.riders[next] /\ p \in Place /\ p \in Points
  BY <1>1, <1>2, PointsFinite
<1>4. PICK k \in Nat \ {0} : k = K /\ k < Len(batch.drivers)
  BY <1>2, BatchTypes DEF K
<1>5. Planted(Len(batch.drivers))
  BY DEF TreeInv
<1>6. PICK S : /\ S = tree.points /\ IsFiniteSet(S) /\ Cardinality(S) = Len(batch.drivers)
               /\ {e.id : e \in S} = Drivers
  BY <1>2, <1>5, PointsCounted
<1>7. /\ \A e, f \in S : e.id = f.id => e = f
      /\ \A e \in S : e.x = batch.drivers[e.id].x /\ e.y = batch.drivers[e.id].y /\ e.id \in Drivers
  BY <1>5, <1>6 DEF Planted
<1>8. \A j \in Drivers : batch.drivers[j] \in Points /\ batch.drivers[j] \in Place
  BY <1>2, PointsFinite
<1>9. \A e \in S : e.x \in Int /\ e.y \in Int
  BY <1>7, <1>8 DEF Place
<1>10. Wide(tree.root) /\ \A q \in Points : contains(tree.root, q)
  BY <1>5 DEF Planted, Encloses
<1>11. \A e \in S : contains(tree.root, e)
  BY <1>7, <1>8, <1>10 DEF contains
<1>12. PICK C : C = Candidates(tree, p, radius) /\ C = {e \in S : contains(Box(p.x, p.y, radius, radius), e)}
  BY <1>2, <1>3, <1>5, <1>6, CandidatesExact
<1>13. found \in NearestOf(C, p, k)
  BY <1>3, <1>4, <1>12 DEF kNearest
<1>14. Trusted(C, p, k, radius) \/ (C = S /\ k <= Cardinality(S))
  <2>1. Trusted(C, p, k, radius) \/ radius >= (tree.root.hw + tree.root.hh) * 4 + Unit
    BY <1>3, <1>4, <1>12 DEF Final
  <2>2. ASSUME radius >= (tree.root.hw + tree.root.hh) * 4 + Unit
        PROVE  C = S /\ k <= Cardinality(S)
    <3>1. \A e \in S : contains(Box(p.x, p.y, radius, radius), e)
      <4>1. p.x \in Int /\ p.y \in Int /\ contains(tree.root, p)
        BY <1>3, <1>10 DEF Place
      <4> QED
        BY <1>9, <1>10, <1>11, <2>2, <4>1, WidestBox
    <3>2. k <= Len(batch.drivers)
      BY <1>2, <1>4, BatchTypes
    <3> QED
      BY <1>6, <1>12, <3>1, <3>2
  <2> QED
    BY <2>1, <2>2
<1>15. /\ found \subseteq S /\ IsFiniteSet(found) /\ Cardinality(found) = k
       /\ \A a \in found, b \in S \ found : distSq(a, p) <= distSq(b, p)
  <2>1. PICK r \in Nat : r = radius
    OBVIOUS
  <2>2. C = {e \in S : contains(Box(p.x, p.y, r, r), e)}
    BY <1>12, <2>1
  <2>3. Trusted(C, p, k, r) \/ (C = S /\ k <= Cardinality(S))
    BY <1>14, <2>1
  <2>4. k \in Nat /\ IsFiniteSet(S) /\ C \in SUBSET S
    BY <1>6, <2>2
  <2>5. p.x \in Int /\ p.y \in Int
    BY <1>3 DEF Place
  <2>6. \A e \in S : distSq(e, p) \in Int
    BY <1>9, <2>5, OutsideIsFarther
  <2>7. \A e \in S \ C : distSq(e, p) > r * r
    BY <1>9, <2>2, <2>5, OutsideIsFarther
  <2> QED
    BY <1>13, <2>3, <2>4, <2>6, <2>7, FirstOfAll
<1>16. PICK near : near = {e.id : e \in found}
  OBVIOUS
<1>17. Cardinality(near) = k
  BY <1>7, <1>15, <1>16, SameNumber
<1>18. near # {}
  <2>1. Cardinality({}) = 0
    BY FS_EmptySet
  <2>2. found # {}
    BY <1>4, <1>15, <2>1
  <2> QED
    BY <1>16, <2>2
<1>19. ASSUME NEW a \in near, NEW b \in Drivers \ near
       PROVE  distSq(batch.drivers[a], p) <= distSq(batch.drivers[b], p)
  <2>1. PICK e \in found, f \in S : e.id = a /\ f.id = b
    BY <1>6, <1>16
  <2>2. f \notin found
    BY <1>16, <2>1
  <2>3. distSq(e, p) <= distSq(f, p)
    BY <1>15, <2>1, <2>2
  <2>4. distSq(e, p) = distSq(batch.drivers[a], p) /\ distSq(f, p) = distSq(batch.drivers[b], p)
    BY <1>7, <1>15, <2>1 DEF distSq
  <2> QED
    BY <2>3, <2>4
<1> QED
  BY <1>3, <1>4, <1>16, <1>17, <1>18, <1>19 DEF Exact

\* kNearest widens a box for a capped shortlist only.
Searches == radius # 0 => phase = "shortlist" /\ K # 0

\* A step begins no search without a cap, and none outlives its shortlist.
LEMMA SearchesStep == Searches /\ [Next]_vars => Searches'
<1> SUFFICES ASSUME Searches, [Next]_vars PROVE Searches'
  OBVIOUS
<1>1. ASSUME radius' = 0 PROVE Searches'
  BY <1>1 DEF Searches
<1>2. ASSUME radius' = radius, phase # "shortlist" PROVE Searches'
  BY <1>1, <1>2 DEF Searches
<1>3. ASSUME NEW b \in Batches, Receive(b) PROVE Searches'
  BY <1>2, <1>3 DEF Receive
<1>4. CASE Cancel \/ Refuse \/ AnswerEmpty \/ Build \/ Index \/ Price \/ Solve \/ Respond
  BY <1>2, <1>4 DEF Cancel, Refuse, Answered, AnswerEmpty, Build, Index, Price, Solve, Respond
<1>5. CASE Search \/ Widen
  <2>1. phase = "shortlist" /\ phase' = phase /\ batch' = batch /\ (K # 0 \/ radius > 0)
    BY <1>5 DEF Search, Widen
  <2>2. K' = K
    BY <2>1, SameBatch
  <2>3. K # 0
    BY <2>1 DEF Searches
  <2> QED
    BY <2>1, <2>2, <2>3 DEF Searches
<1>6. CASE Shortlist \/ Return
  BY <1>1, <1>6 DEF Shortlist, Return
<1>7. CASE Sweep \/ Solver
  BY <1>2, <1>7 DEF Sweep, Solver, serviceVars
<1>8. CASE UNCHANGED vars
  BY <1>8 DEF vars, serviceVars, Searches, K
<1> QED
  BY <1>3, <1>4, <1>5, <1>6, <1>7, <1>8 DEF Next, solveBatchImpl

\* All shortlists so far are right.
ListsExact == \A i \in DOMAIN shortlist : Exact(i, shortlist[i])

\* A shortlist stays right while the request stays.
LEMMA StillExact ==
  ASSUME NEW i, NEW near, Exact(i, near), batch' = batch
  PROVE  /\ near # {}
         /\ K' # 0 => /\ Cardinality(near) = K'
                      /\ \A a \in near, b \in Drivers' \ near :
                           distSq(batch'.drivers[a], batch'.riders[i])
                             <= distSq(batch'.drivers[b], batch'.riders[i])
BY SameBatch DEF Exact

\* Every step keeps them so.
LEMMA ListsExactStep ==
  EngineInv /\ TreeInv /\ Searches /\ TypeOK /\ ListsExact /\ [Next]_vars => ListsExact'
<1> SUFFICES ASSUME EngineInv, TreeInv, Searches, TypeOK, ListsExact, [Next]_vars PROVE ListsExact'
  OBVIOUS
<1>1. ASSUME UNCHANGED <<batch, shortlist>> PROVE ListsExact'
  BY <1>1 DEF ListsExact, Exact, K, Drivers
<1>2. ASSUME shortlist' = <<>> PROVE ListsExact'
  BY <1>2 DEF ListsExact
<1>3. ASSUME NEW b \in Batches, Receive(b) PROVE ListsExact'
  BY <1>2, <1>3 DEF Receive, EngineInv, Lists
<1>4. CASE Return
  BY <1>2, <1>4 DEF Return
<1>5. CASE Shortlist
  <2>1. phase = "shortlist" /\ batch' = batch
    BY <1>5 DEF Shortlist
  <2>2. PICK near \in SUBSET Drivers :
           /\ shortlist' = Append(shortlist, near)
           /\ \/ K = 0 /\ near = Drivers
              \/ /\ radius > 0 /\ Final(tree, batch.riders[next], K, radius)
                 /\ \E found \in kNearest(tree, batch.riders[next], K, radius) :
                      near = {e.id : e \in found}
    BY <1>5, ShortlistOne
  <2>3. Drivers # {} /\ next \in Riders /\ radius \in Nat
        /\ (batch = NoBatch \/ batch \in Batches)
    BY <2>1 DEF EngineInv, Stages, TypeOK
  <2>4. next \in Nat /\ shortlist \in Seq(SUBSET Drivers) /\ Len(shortlist) = next - 1
    BY <2>1, <2>3, BatchTypes DEF EngineInv, Lists
  <2>5. Exact(next, near)
    <3>1. CASE K = 0 /\ near = Drivers
      BY <2>3, <3>1 DEF Exact
    <3>2. CASE K # 0
      BY <2>1, <2>2, <2>3, <3>2, NearestDrivers
    <3>3. CASE K = 0 /\ near # Drivers
      BY <2>2, <2>3, <3>3 DEF Searches
    <3> QED
      BY <3>1, <3>2, <3>3
  <2>6. ASSUME NEW i \in DOMAIN shortlist' PROVE Exact(i, shortlist[i])'
    <3>1. PICK s : s = shortlist'[i]
      OBVIOUS
    <3>2. Exact(i, s)
      <4>1. CASE i = next
        BY <2>2, <2>4, <2>5, <3>1, <4>1
      <4>2. CASE i # next
        <5>1. i \in DOMAIN shortlist /\ shortlist'[i] = shortlist[i]
          BY <2>2, <2>4, <4>2
        <5> QED
          BY <3>1, <5>1 DEF ListsExact
      <4> QED
        BY <4>1, <4>2
    <3> QED
      BY <2>1, <3>1, <3>2, StillExact DEF Exact
  <2> QED
    BY <2>6 DEF ListsExact
<1>6. CASE \/ Cancel \/ Refuse \/ AnswerEmpty \/ Build \/ Index \/ Search \/ Widen \/ Price
           \/ Solve \/ Respond
  BY <1>1, <1>6 DEF Cancel, Refuse, Answered, AnswerEmpty, Build, Index, Search, Widen, Price,
                    Solve, Respond
<1>7. CASE Sweep \/ Solver \/ UNCHANGED vars
  BY <1>1, <1>7 DEF Sweep, Solver, serviceVars, vars
<1> QED
  BY <1>3, <1>4, <1>5, <1>6, <1>7 DEF Next, solveBatchImpl

\* So they are right as long as the engine runs.
LEMMA ListsHold == ASSUME NorthEast PROVE Spec => []ListsExact
<1>1. Init => Searches /\ ListsExact
  BY DEF Init, ServiceInit, Searches, ListsExact
<1>2. Spec => []Searches
  BY <1>1, SearchesStep, PTL DEF Spec
<1> QED
  BY <1>1, <1>2, TreeInvHolds, ListsExactStep, EngineInvariant, TypesHold, PTL DEF Spec

\* ShortlistExact: a capped shortlist is the true K nearest drivers, wherever the
\* boxes of the tree and of the search end, in every city whose distances are
\* measured where no coordinate is negative; on roads, anywhere.
THEOREM ShortlistsAreExact == ASSUME NorthEast PROVE Spec => []ShortlistExact
<1>1. ListsExact => ShortlistExact
  BY DEF ListsExact, Exact, ShortlistExact
<1> QED
  BY <1>1, ListsHold, PTL

\* EveryDriverIndexed: where no coordinate is negative, the world buildSparseEdges
\* makes has every driver in it, and no insert is lost; buildRoadEdgesSparse's
\* bounding box has them wherever they are.
THEOREM DriversAreIndexed == ASSUME NorthEast PROVE Spec => []EveryDriverIndexed
<1>1. EngineInv /\ TreeInv => EveryDriverIndexed
  <2> SUFFICES ASSUME EngineInv, TreeInv, phase \in {"shortlist", "price"}, K # 0
               PROVE  {e.id : e \in tree.points} = Drivers
    BY DEF EveryDriverIndexed
  <2>1. Planted(Len(batch.drivers)) /\ (batch = NoBatch \/ batch \in Batches) /\ Drivers # {}
    BY DEF TreeInv, EngineInv, Stages
  <2>2. batch \in Batches
    <3>1. batch # NoBatch
      BY <2>1 DEF NoBatch, Drivers
    <3> QED
      BY <2>1, <3>1
  <2> QED
    BY <2>1, <2>2, PointsCounted
<1> QED
  BY <1>1, TreeInvHolds, EngineInvariant, PTL

-----------------------------------------------------------------------------
(* Why a rider was left over *)

\* Of a pair whose rider carries no flow, the driver carries some: else the pair
\* would have been a path to the sink.
LEMMA LeftOverPair ==
  ASSUME SolverInv, mode = "done", NEW a \in Pairs, a[1] \notin Left(Matched)
  PROVE  a[2] \in Right(Matched)
<1>1. Network /\ Residual /\ Balanced /\ Cut
  BY DEF SolverInv
<1>2. /\ Left(Matched) = {u \in RiderNodes : <<u, Source>> \in arcs}
      /\ Right(Matched) = {v \in DriverNodes : <<Sink, v>> \in arcs}
  BY <1>1, MatchedEnds
<1>3. /\ a \in DOMAIN price /\ a = <<a[1], a[2]>> /\ a[1] \in RiderNodes /\ a[2] \in DriverNodes
      /\ a[1] \in Nodes /\ a[2] \in Nodes
  BY <1>1, PairCost DEF Pairs
<1>4. <<Source, a[1]>> \in DOMAIN price /\ <<a[2], Sink>> \in DOMAIN price
  BY <1>1, <1>3 DEF Network
<1>5. a[1] \in DOMAIN dist
  <2>1. <<a[1], Source>> \notin arcs
    BY <1>2, <1>3
  <2>2. <<Source, a[1]>> \in arcs
    BY <1>1, <1>4, <2>1 DEF Residual, Opposite
  <2> QED
    BY <1>1, <1>3, <2>2 DEF Cut
<1>6. a[2] \in DOMAIN dist
  <2>1. a \notin Matched
    BY DEF Left
  <2>2. a \in arcs
    BY <1>1, <1>3, <2>1 DEF Matched, Residual
  <2> QED
    BY <1>1, <1>3, <1>5, <2>2 DEF Cut
<1>7. <<Sink, a[2]>> \in arcs
  <2>1. <<a[2], Sink>> \notin arcs
    BY <1>1, <1>3, <1>6, NodeRanges DEF Cut
  <2> QED
    BY <1>1, <1>4, <2>1 DEF Residual, Opposite
<1> QED
  BY <1>2, <1>3, <1>7

\* So every driver near enough to a rider left over went to another rider.
LEMMA LeftOver ==
  ASSUME EngineInv, phase = "answered", mode = "done",
         NEW e \in Kept, e[1] \notin {c[1] : c \in Chosen}
  PROVE  e[2] \in {c[2] : c \in Chosen}
<1>1. Served /\ SolverInv
  BY DEF Served, EngineInv, Solves
<1>2. Chosen \subseteq Kept /\ ArcsOf(Chosen) = Matched
  BY <1>1, ChosenArcs
<1>3. \A c \in Kept : /\ ArcOf(c) \in Pairs /\ EdgeOf(ArcOf(c)) = c
                      /\ c[1] \in Nat /\ c[2] \in Nat
  <2>1. ASSUME NEW c \in Kept PROVE c[1] \in Nat /\ c[2] \in Nat
    <3>1. c \in Riders \X Drivers
      BY <1>1, KeptArcs
    <3>2. Riders \subseteq Nat /\ Drivers \subseteq Nat
      BY BatchTypes DEF EngineInv, Stages
    <3> QED
      BY <3>1, <3>2
  <2> QED
    BY <1>1, <2>1, KeptArcs
<1>4. \A c \in Kept : ArcOf(c)[1] = c[1] /\ ArcOf(c)[2] = MaxRiders + c[2]
  BY DEF ArcOf, RiderNode, DriverNode
<1>5. ArcOf(e)[1] \notin Left(Matched)
  <2> SUFFICES ASSUME NEW b \in Matched, b[1] = ArcOf(e)[1] PROVE FALSE
    BY DEF Left
  <2>1. PICK c \in Chosen : b = ArcOf(c)
    BY <1>2 DEF ArcsOf
  <2>2. c[1] = e[1]
    BY <1>2, <1>4, <2>1
  <2> QED
    BY <2>2
<1>6. ArcOf(e)[2] \in Right(Matched)
  BY <1>1, <1>3, <1>5, LeftOverPair
<1>7. PICK b \in Matched : b[2] = ArcOf(e)[2]
  BY <1>6 DEF Right
<1>8. PICK c \in Chosen : b = ArcOf(c)
  BY <1>2 DEF ArcsOf
<1>9. MaxRiders + c[2] = MaxRiders + e[2]
  BY <1>2, <1>4, <1>7, <1>8
<1>10. c[2] = e[2]
  BY <1>2, <1>3, <1>9, MinCostFlowAssumption
<1> QED
  BY <1>10

\* What a rider who got nobody is told is true of the city: of the
\* roads, by the definition of driving times, of the cutoff, and of who got the
\* drivers that were near enough.  Needs shortlists that are not empty.
LEMMA ReasonsTrue ==
  ASSUME EngineInv, ListsExact
  PROVE  HonestReasons
<1> SUFFICES ASSUME phase = "answered", mode = "done", NEW i \in DOMAIN answer.reasons
             PROVE  LET reach == {j \in shortlist[i] : Reaches(i, j)}
                        near == {j \in reach : batch.cutoff = 0 \/ Far(i, j) <= batch.cutoff}
                    IN CASE answer.reasons[i] = "UNREACHABLE" -> reach = {}
                         [] answer.reasons[i] = "ALL_CANDIDATES_ABOVE_CUTOFF" ->
                              reach # {} /\ near = {}
                         [] answer.reasons[i] = "NO_DRIVER_AVAILABLE" ->
                              near # {} /\ near \subseteq {e[2] : e \in answer.matches}
                         [] OTHER -> FALSE
  BY DEF HonestReasons, Reaches, Far
<1>1. Served
  BY DEF Served
<1>2. /\ answer.matches = Chosen
      /\ answer.reasons = [r \in Riders \ {e[1] : e \in Chosen} |-> Reason(r)]
  BY DEF EngineInv, Responds
<1>3. i \in Riders /\ i \notin {e[1] : e \in Chosen} /\ answer.reasons[i] = Reason(i)
  BY <1>2
<1>4. /\ batch = NoBatch \/ batch \in Batches
      /\ EdgesUpto(Len(batch.riders)) /\ Len(shortlist) = Len(batch.riders)
      /\ shortlist \in Seq(SUBSET Drivers)
  BY <1>1 DEF EngineInv, Stages, Lists, Edged
<1>5. /\ i \in 1..Len(batch.riders) /\ Len(batch.riders) \in Nat
      /\ shortlist[i] \in SUBSET Drivers /\ i \in DOMAIN shortlist
  BY <1>3, <1>4, BatchTypes
<1>6. shortlist[i] # {}
  BY <1>5 DEF ListsExact, Exact
<1>7. PICK reach : reach = {j \in shortlist[i] : Reaches(i, j)}
  OBVIOUS
<1>8. PICK near : near = {j \in reach : batch.cutoff = 0 \/ Far(i, j) <= batch.cutoff}
  OBVIOUS
<1>9. /\ \A e \in DOMAIN edges : e[1] = i => e[2] \in reach /\ edges[e] = Far(i, e[2])
      /\ \A j \in reach : <<i, j>> \in DOMAIN edges
  <2>1. ASSUME NEW e \in DOMAIN edges, e[1] = i PROVE e[2] \in reach /\ edges[e] = Far(i, e[2])
    BY <1>4, <1>7, <2>1 DEF EdgesUpto
  <2>2. ASSUME NEW j \in reach PROVE <<i, j>> \in DOMAIN edges
    BY <1>3, <1>4, <1>5, <1>7 DEF EdgesUpto
  <2> QED
    BY <2>1, <2>2
<1>10. {e \in DOMAIN edges : e[1] = i} = {} <=> reach = {}
  <2>1. ASSUME NEW j \in reach PROVE {e \in DOMAIN edges : e[1] = i} # {}
    <3>1. <<i, j>> \in DOMAIN edges /\ <<i, j>>[1] = i
      BY <1>9
    <3> QED
      BY <3>1
  <2> QED
    BY <1>9, <2>1
<1>11. /\ \A e \in Kept : e[1] = i => e[2] \in near
       /\ \A j \in near : <<i, j>> \in Kept
  <2>1. ASSUME NEW e \in Kept, e[1] = i PROVE e[2] \in near
    BY <1>8, <1>9, <2>1 DEF Kept
  <2>2. ASSUME NEW j \in near PROVE <<i, j>> \in Kept
    BY <1>8, <1>9 DEF Kept
  <2> QED
    BY <2>1, <2>2
<1>12. {e \in Kept : e[1] = i} = {} <=> near = {}
  <2>1. ASSUME NEW j \in near PROVE {e \in Kept : e[1] = i} # {}
    <3>1. <<i, j>> \in Kept /\ <<i, j>>[1] = i
      BY <1>11
    <3> QED
      BY <3>1
  <2> QED
    BY <1>11, <2>1
<1>13. ~TravelTime => reach # {}
  BY <1>6, <1>7 DEF Reaches
<1>14. near \subseteq {e[2] : e \in Chosen}
  <2> SUFFICES ASSUME NEW j \in near PROVE j \in {e[2] : e \in Chosen}
    OBVIOUS
  <2>1. <<i, j>> \in Kept /\ <<i, j>>[1] = i /\ <<i, j>>[2] = j
    BY <1>11
  <2> QED
    BY <1>3, <2>1, LeftOver
<1>15. Reason(i) = IF reach = {}
                   THEN IF TravelTime THEN "UNREACHABLE" ELSE "NO_CANDIDATES_IN_SHORTLIST"
                   ELSE IF near = {} THEN "ALL_CANDIDATES_ABOVE_CUTOFF"
                   ELSE "NO_DRIVER_AVAILABLE"
  BY <1>10, <1>12 DEF Reason
<1>16. CASE reach = {}
  BY <1>2, <1>3, <1>7, <1>8, <1>13, <1>15, <1>16
<1>17. CASE reach # {} /\ near = {}
  BY <1>2, <1>3, <1>7, <1>8, <1>15, <1>17
<1>18. CASE reach # {} /\ near # {}
  BY <1>2, <1>3, <1>7, <1>8, <1>14, <1>15, <1>18
<1> QED
  BY <1>7, <1>8, <1>16, <1>17, <1>18

\* HonestReasons, wherever the shortlists are right: what a rider who got nobody is
\* told is true of the roads, of the cutoff and of who got the drivers near enough.
THEOREM ReasonsAreHonest == ASSUME NorthEast PROVE Spec => []HonestReasons
<1>1. EngineInv /\ ListsExact => HonestReasons
  BY ReasonsTrue
<1> QED
  BY <1>1, ListsHold, EngineInvariant, PTL
=============================================================================
