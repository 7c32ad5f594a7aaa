---------------------------- MODULE MCMlmClient -----------------------------
(***************************************************************************)
(* Constants of MlmClient for TLC.                                         *)
(***************************************************************************)
EXTENDS MlmClient

AllOps == {"sendto", "recv", "requestreply"}
AllFaults == FaultKinds
=============================================================================
