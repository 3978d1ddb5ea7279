---------------------------- MODULE MCFrontDoor ----------------------------
(***************************************************************************)
(* Instances of FrontDoor for TLC.  No action or property tells two keys,  *)
(* two operators or two clients apart.                                     *)
(***************************************************************************)
EXTENDS FrontDoor, TLC

Symmetry == Permutations(KeyIds) \cup Permutations(Operators) \cup Permutations(Clients)
=============================================================================
