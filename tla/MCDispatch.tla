----------------------------- MODULE MCDispatch -----------------------------
(***************************************************************************)
(* Instances of Dispatch for TLC.                                          *)
(***************************************************************************)
EXTENDS Dispatch, TLC

\* Requests, drivers and batchers are interchangeable (safety runs only).
Symmetry == Permutations(Requests) \cup Permutations(Drivers) \cup Permutations(Batchers)
=============================================================================
