---------------------------- MODULE MCWatchlist ----------------------------
(***************************************************************************)
(* Instances of Watchlist for TLC.                                         *)
(***************************************************************************)
EXTENDS Watchlist, TLC

\* One at the threshold, and one whose change is too large for its column.  What is
\* not a number gives the price 0.
SomePrices == {80, 2000}
TheThreshold == {-20}
AllFaults == FaultKinds
Symmetric == Permutations(Watches) \union Permutations(Rounds)
=============================================================================
