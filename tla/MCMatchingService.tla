------------------------- MODULE MCMatchingService -------------------------
(* Instances of MatchingService for TLC: a few places of a small city, and the *)
(* batches riders and drivers at these places can make.                        *)
EXTENDS MatchingService

At(x, y) == [x |-> x, y |-> y]

\* Coordinates are multiples of 2^MaxDepth.  From A the corner place B is farther
\* than C, but inside a box that C is outside of.
A == At(0, 0)
B == At(16, 16)
C == At(20, 0)
D == At(60, 28)

MCRoadNodes == {A, B, C, D}

\* One-way streets; nobody gets out of D.
MCRoads ==
  LET S(u, v) == <<u, v>>
  IN [a \in {S(A, B), S(B, C), S(C, A), S(A, C), S(C, D), S(B, D)} |->
        CASE a = S(A, B) -> 3 [] a = S(B, C) -> 2 [] a = S(C, A) -> 2
          [] a = S(A, C) -> 7 [] a = S(C, D) -> 4 [] a = S(B, D) -> 9]

Order == <<A, B, C, D>>

\* n riders, in a fixed order: nothing depends on theirs.
Sorted(n) ==
  {[i \in 1..n |-> Order[s[i]]] :
     s \in {t \in [1..n -> 1..4] : \A i \in 1..(n - 1) : t[i] <= t[i + 1]}}

\* n drivers at different places, in any order: the tree depends on it.
Apart(n) ==
  {[i \in 1..n |-> Order[s[i]]] :
     s \in {t \in [1..n -> 1..4] : \A i, j \in 1..n : t[i] = t[j] => i = j}}

Batch(riders, drivers, k, cutoff, metric) ==
  [riders |-> riders, drivers |-> drivers, k |-> k, cutoff |-> cutoff,
   metric |-> metric, wellformed |-> TRUE, loaded |-> TRUE]

Metrics == {"euclidean", "travel_time"}
Cutoffs(metric) == IF metric = "euclidean" THEN {0, 20} ELSE {0}

\* Every pair is priced.
Dense ==
  UNION {{Batch(r, d, 0, c, m) : r \in Sorted(3), d \in Apart(3) \cap Sorted(3), c \in Cutoffs(m)} :
           m \in Metrics}

\* Only the nearest one or two drivers are.
Sparse ==
  {Batch(r, d, k, 0, m) : r \in Sorted(1), d \in Apart(3), k \in {1, 2}, m \in Metrics}
    \cup
  {Batch(r, d, 2, c, m) : r \in Sorted(2), d \in Apart(3) \cap Sorted(3),
                          c \in {0, 5}, m \in Metrics}

\* Batches that are refused, empty, capped above the number of drivers, or out of
\* every driver's reach.
Odd ==
  {Batch(<<>>, <<A>>, 0, 0, "euclidean"), Batch(<<A, B>>, <<>>, 1, 0, "euclidean"),
   Batch(<<A>>, <<B>>, 3, 0, "travel_time"), Batch(<<A, B>>, <<D>>, 0, 5, "travel_time"),
   Batch(<<A>>, <<D, D>>, 1, 0, "travel_time"), Batch(<<A, A, B, B>>, <<C>>, 0, 0, "euclidean"),
   [Batch(<<A>>, <<B>>, 0, 0, "travel_time") EXCEPT !.loaded = FALSE],
   [Batch(<<A>>, <<B>>, 0, 0, "euclidean") EXCEPT !.wellformed = FALSE]}

MCBatches == Dense \cup Sparse \cup Odd

\* The same city west of the prime meridian.
MCWestBatches == {Batch(<<A>>, <<At(-16, 16), C>>, 1, 0, "euclidean")}
=============================================================================
