--------------------------- MODULE MCSyncRequest ----------------------------
(***************************************************************************)
(* Constants of SyncRequest for TLC.                                       *)
(***************************************************************************)
EXTENDS SyncRequest

AllFaults == FaultKinds
=============================================================================
