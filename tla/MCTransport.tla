---------------------------- MODULE MCTransport ----------------------------
(***************************************************************************)
(* Transport with the constants of MCVirtualECU.                           *)
(***************************************************************************)
EXTENDS Transport, MCVirtualECU

\* As in MCVirtualECU: out is read only primed.
TransportWithoutOut ==
    <<WithoutOut, auditVars, clientVars, requests, answers, serverVars>>
============================================================================
