---------------------------- MODULE MCLpMonitor ----------------------------
(***************************************************************************)
(* Instances of LpMonitor for TLC: two positions of one user, a user with  *)
(* none, and ticks at and beyond both ends of a range.                     *)
(***************************************************************************)
EXTENDS LpMonitor, TLC

CONSTANTS p1, p2, u1, u2

TheOwner == p1 :> u1 @@ p2 :> u1
TheBounds == [p \in Positions |-> [lower |-> -2, upper |-> 3]]
SomeTicks == {-3, -2, 3, 4}
Symmetric == Permutations(Rounds) \union Permutations(Positions)
=============================================================================
