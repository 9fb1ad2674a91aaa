------------------------------- MODULE Claims -------------------------------
(***************************************************************************)
(* Statements the tests, comments and manual make about the VirtualECU     *)
(* that its code does not keep.  ecu_cert_sent is a history variable: the  *)
(* answer that issued the pending challenge carried the ECU certificate.   *)
(***************************************************************************)
EXTENDS VirtualECU

VARIABLE ecu_cert_sent

InitH == Init /\ ecu_cert_sent = FALSE

\* communicate_certificate adds the ECU certificate in the Programming session.
NextH ==
    /\ Next
    /\ ecu_cert_sent' = IF drawn' > drawn THEN CurrentAt(now) = PROGRAMMING ELSE ecu_cert_sent

SpecH == InitH /\ [][NextH]_<<vars, ecu_cert_sent>>

\* REQ-042, REQ-044: "After session timeout client must re-authenticate from
\* Default Session": whoever elevates a session that had fallen back to Default
\* starts without a granted level.
ReauthenticateAfterTimeout ==
    [][CurrentAt(now) = DEFAULT /\ CurrentAt(now)' # DEFAULT
         => sa_granted' = None /\ auth_granted' = None]_vars

\* REQ-034: "FULL_ACCESS requires Programming Session + 0x29 bidirectional": the
\* ECU has shown its certificate in the exchange that grants FULL_ACCESS.
FullAccessIsMutual ==
    [][auth_granted' = "FULL_ACCESS" /\ auth_granted # "FULL_ACCESS" => ecu_cert_sent]_vars
============================================================================
