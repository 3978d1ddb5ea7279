------------------------------ MODULE QuadTree ------------------------------
(***************************************************************************)
(* The quadtree the engine shortlists drivers with                         *)
(* (matching_engine/src/quadtree.cpp): insert, range query, k nearest.     *)
(*                                                                         *)
(* The nodes of one depth tile the root, so a node is its depth, column    *)
(* and row.  A tree is a record: the root's box, the points with the node  *)
(* each is kept at, and the nodes that are divided.  Coordinates are whole *)
(* numbers of a unit so small that every box down to MaxDepth has whole    *)
(* half extents.                                                           *)
(***************************************************************************)
EXTENDS Integers, Sequences, FiniteSets, FiniteSetsExt

CONSTANTS
  Capacity,   \* points a node keeps before it divides
  MaxDepth    \* MAX_DEPTH

ASSUME QuadTreeAssumption == Capacity \in Nat \ {0} /\ MaxDepth \in Nat

\* Powers of two, up to the last that is needed.
Pow2[n \in 0..(MaxDepth + 1)] == IF n = 0 THEN 1 ELSE 2 * Pow2[n - 1]

\* The 1.0 of the code, in the units of the model.
Unit == Pow2[MaxDepth + 1]

-----------------------------------------------------------------------------
(* Boxes *)

Box(x, y, hw, hh) == [x |-> x, y |-> y, hw |-> hw, hh |-> hh]

\* containsXY, both edges included.
contains(box, p) ==
  /\ box.x - box.hw <= p.x /\ p.x <= box.x + box.hw
  /\ box.y - box.hh <= p.y /\ p.y <= box.y + box.hh

intersects(a, b) ==
  ~ \/ b.x - b.hw > a.x + a.hw \/ b.x + b.hw < a.x - a.hw
    \/ b.y - b.hh > a.y + a.hh \/ b.y + b.hh < a.y - a.hh

\* subdivide, repeated: the box of a node.
boundary(tree, node) ==
  LET hw == tree.root.hw \div Pow2[node[1]]
      hh == tree.root.hh \div Pow2[node[1]]
  IN Box(tree.root.x - tree.root.hw + (2 * node[2] + 1) * hw,
         tree.root.y - tree.root.hh + (2 * node[3] + 1) * hh, hw, hh)

\* The node n levels above.
Above(node, n) == <<node[1] - n, node[2] \div Pow2[n], node[3] \div Pow2[n]>>

-----------------------------------------------------------------------------
(* Insertion *)

EmptyTree(root) == [root |-> root, points |-> {}, divided |-> {}]

\* The node of a depth that p falls into.  Children are tried northwest, northeast,
\* southwest, southeast: on an edge the western and the northern one wins.
NodeOf(tree, p, depth) ==
  LET width == 2 * (tree.root.hw \div Pow2[depth])
      height == 2 * (tree.root.hh \div Pow2[depth])
  IN <<depth,
       Max({0, (p.x - (tree.root.x - tree.root.hw) - 1) \div width}),
       Min({Pow2[depth] - 1, (p.y - (tree.root.y - tree.root.hh)) \div height})>>

\* A leaf with room, or a bucket at the depth cap.
HasRoom(tree, node) ==
  \/ /\ node \notin tree.divided
     /\ Cardinality({e \in tree.points : e.node = node}) < Capacity
  \/ node[1] >= MaxDepth

\* insert: outside the root nothing; else into the first node on the way down with
\* room, and every full one above it is divided.  Its points stay where they are.
insert(tree, p) ==
  IF ~contains(tree.root, p) THEN tree
  ELSE LET depth == Min({n \in 0..MaxDepth : HasRoom(tree, NodeOf(tree, p, n))})
           node == NodeOf(tree, p, depth)
       IN [tree EXCEPT
             !.points = @ \cup {[node |-> node, id |-> p.id, x |-> p.x, y |-> p.y]},
             !.divided = @ \cup {Above(node, n) : n \in 1..depth}]

-----------------------------------------------------------------------------
(* Queries *)

\* queryRange: points in the range, of the nodes that are not pruned.
queryRange(tree, range) ==
  {e \in tree.points :
     /\ contains(range, e)
     /\ \A n \in 0..e.node[1] : intersects(boundary(tree, Above(e.node, n)), range)}

\* leafHalfExtent: the scale of the leaf p falls into, outside the root the root's.
leafHalfExtent(tree, p) ==
  LET depth == IF contains(tree.root, p)
               THEN Min({n \in 0..MaxDepth : NodeOf(tree, p, n) \notin tree.divided})
               ELSE 0
  IN Max({tree.root.hw, tree.root.hh}) \div Pow2[depth]

distSq(a, b) == (a.x - b.x) * (a.x - b.x) + (a.y - b.y) * (a.y - b.y)

\* The k first of the points sorted by distance, in any order of equal ones.
NearestOf(points, p, k) ==
  {s \in SUBSET points :
     /\ Cardinality(s) = Min({k, Cardinality(points)})
     /\ \A a \in s, b \in points \ s : distSq(a, p) <= distSq(b, p)}

\* What the box of a radius around p holds.
Candidates(tree, p, radius) == queryRange(tree, Box(p.x, p.y, radius, radius))

\* kNearest trusting the k-th candidate wherever in the box it is.
TrustedInBox(found, p, k, radius) == Cardinality(found) >= k

\* At least k candidates, the k-th within the radius: nothing outside is nearer.
Trusted(found, p, k, radius) ==
  Cardinality({e \in found : distSq(e, p) <= radius * radius}) >= k

\* The box of kNearest is doubled until its candidates can be trusted, or it is so
\* large that no larger one could find more.
Final(tree, p, k, radius) ==
  \/ Trusted(Candidates(tree, p, radius), p, k, radius)
  \/ radius >= (tree.root.hw + tree.root.hh) * 4 + Unit

kNearest(tree, p, k, radius) == NearestOf(Candidates(tree, p, radius), p, k)
=============================================================================
