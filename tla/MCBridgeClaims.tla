--------------------------- MODULE MCBridgeClaims ---------------------------
(***************************************************************************)
(* BridgeClaims with the constants of MCBridge.                            *)
(***************************************************************************)
EXTENDS BridgeClaims, MCBridge
============================================================================
