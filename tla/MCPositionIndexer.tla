------------------------- MODULE MCPositionIndexer -------------------------
(***************************************************************************)
(* Instances of PositionIndexer for TLC.                                   *)
(***************************************************************************)
EXTENDS PositionIndexer, TLC

AllFaults == FaultKinds
Symmetric == Permutations(Tokens) \union Permutations(Calls) \union Permutations(Factors)
=============================================================================
