---------------------------- MODULE MCClientPool ----------------------------
(***************************************************************************)
(* Constants of ClientPool for TLC.                                        *)
(***************************************************************************)
EXTENDS ClientPool

UpToTwo == 0 .. 2
=============================================================================
