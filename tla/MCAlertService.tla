--------------------------- MODULE MCAlertService ---------------------------
(***************************************************************************)
(* Instances of AlertService for TLC.                                      *)
(***************************************************************************)
EXTENDS AlertService

AllChannels == Channels
AllFaults == FaultKinds
=============================================================================
