------------------------------- MODULE Router -------------------------------
(***************************************************************************)
(* The road network the engine prices drivers on                           *)
(* (matching_engine/src/road_graph.cpp, router.cpp): one-way arcs indexed  *)
(* in both directions, and the backward sweep that finds, for one rider,   *)
(* the driving time from every node.                                       *)
(*                                                                         *)
(* One step takes one node off the heap; which of several equally near     *)
(* ones is left open.  A node that is not in the domain of secs has        *)
(* kUnreachable.                                                           *)
(***************************************************************************)
EXTENDS Integers, Sequences, FiniteSets, FiniteSetsExt

CONSTANTS
  RoadNodes,   \* points [x, y]
  Roads        \* seconds of every one-way arc <<from, to>>

ASSUME RouterAssumption ==
  /\ IsFiniteSet(RoadNodes) /\ RoadNodes # {}
  /\ DOMAIN Roads \subseteq RoadNodes \X RoadNodes
  /\ \A a \in DOMAIN Roads : Roads[a] \in Nat

VARIABLES
  goal,    \* where the sweep starts: the rider's node
  secs,    \* dist
  heap,    \* nodes in the heap that are not settled
  closed   \* settled

routerVars == <<goal, secs, heap, closed>>

\* The arcs out of v.
outgoing(v) == {[to |-> a[2], travelSeconds |-> Roads[a]] : a \in {b \in DOMAIN Roads : b[1] = v}}

\* The arcs into v, each pointing back at the node it comes from.
incoming(v) == {[to |-> a[1], travelSeconds |-> Roads[a]] : a \in {b \in DOMAIN Roads : b[2] = v}}

RouterInit == goal = <<>> /\ secs = <<>> /\ heap = {} /\ closed = {}

\* shortestPathTree(..., Backward), before its loop.
BeginSweep(v) ==
  /\ goal' = v /\ secs' = [w \in {v} |-> 0]
  /\ heap' = {v} /\ closed' = {}

\* One pass of the loop.
Settle(v) ==
  LET better == {a \in incoming(v) :
                   a.to \notin DOMAIN secs \/ secs[v] + a.travelSeconds < secs[a.to]}
      from == {a.to : a \in better}
  IN /\ v \in heap /\ \A w \in heap : secs[v] <= secs[w]
     /\ closed' = closed \cup {v}
     /\ secs' = [w \in DOMAIN secs \cup from |->
                   IF w \in from
                   THEN secs[v] + (CHOOSE a \in better : a.to = w).travelSeconds
                   ELSE secs[w]]
     /\ heap' = (heap \cup from) \ closed'
     /\ UNCHANGED goal

\* The times of one sweep live as long as the pass over its rider.
EndSweep == goal' = <<>> /\ secs' = <<>> /\ heap' = {} /\ closed' = {}

SweepStep == \E v \in RoadNodes : Settle(v)

RouterTypeOK ==
  /\ DOMAIN secs \subseteq RoadNodes /\ \A v \in DOMAIN secs : secs[v] \in Nat
  /\ heap \cup closed = DOMAIN secs /\ heap \cap closed = {}

-----------------------------------------------------------------------------
(* The reference: driving times by their definition. *)

\* The times one can drive from u to v in with at most n arcs.
Times ==
  LET upto[n \in 0..Cardinality(RoadNodes)] ==
        IF n = 0 THEN [p \in RoadNodes \X RoadNodes |-> IF p[1] = p[2] THEN {0} ELSE {}]
        ELSE LET fewer == upto[n - 1]
             IN [p \in RoadNodes \X RoadNodes |->
                   fewer[p] \cup UNION {{Roads[a] + t : t \in fewer[<<a[2], p[2]>>]} :
                                          a \in {b \in DOMAIN Roads : b[1] = p[1]}}]
  IN upto[Cardinality(RoadNodes)]

\* The driving time of every pair of nodes that have one.
Fastest ==
  LET times == Times
  IN [p \in {q \in RoadNodes \X RoadNodes : times[q] # {}} |-> Min(times[p])]

\* TimesExact: when a sweep ends it has found exactly the nodes a driver can come
\* from, one-way streets in the driver's direction, each with its fastest time to
\* the rider.  A sweep along the arcs instead of against them would price the
\* drive back.
TimesExact ==
  (heap = {} /\ closed # {}) => \A v \in RoadNodes :
    /\ v \in DOMAIN secs <=> <<v, goal>> \in DOMAIN Fastest
    /\ v \in DOMAIN secs => secs[v] = Fastest[<<v, goal>>]
=============================================================================
