------------------------------ MODULE MCClaims ------------------------------
(***************************************************************************)
(* Claims with the constants of MCVirtualECU.                              *)
(***************************************************************************)
EXTENDS Claims, MCVirtualECU
============================================================================
