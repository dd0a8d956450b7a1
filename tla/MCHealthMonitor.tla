-------------------------- MODULE MCHealthMonitor --------------------------
(***************************************************************************)
(* Instances of HealthMonitor for TLC.                                     *)
(***************************************************************************)
EXTENDS HealthMonitor, TLC

CONSTANTS p1, p2

Low == [active |-> TRUE, level |-> "low"]
Safe == [active |-> TRUE, level |-> "safe"]
Closed == [active |-> FALSE, level |-> "low"]

LowOrSafe == {Low, Safe}
LowOrClosed == {Low, Closed}

AllFaults == FaultKinds
StatementFaults == {"db_refused", "db_lost"}

Symmetric == Permutations(Positions)
=============================================================================
