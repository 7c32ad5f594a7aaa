------------------------------- MODULE MCAgent ------------------------------
(***************************************************************************)
(* Constants of Agent for TLC.                                             *)
(***************************************************************************)
EXTENDS Agent

SomeQuitters == {"tick", "handleMailbox"}
=============================================================================
