---------------------------- MODULE BridgeClaims ----------------------------
(***************************************************************************)
(* A statement of the manual and of comments that the bridge does not      *)
(* keep.  commanded_at is a history variable: the last time at which some  *)
(* page's command or connect was being served.                             *)
(***************************************************************************)
EXTENDS Bridge

VARIABLE commanded_at

BridgeInitH == BridgeInit /\ commanded_at = now

BridgeNextH ==
    /\ BridgeNext
    /\ commanded_at' = IF Idle THEN commanded_at ELSE now'

BridgeSpecH == BridgeInitH /\ [][BridgeNextH]_<<bridgeVars, commanded_at>>

\* REQ-005: "Elevated sessions (Extended / Programming) revert to Default after
\* timeout_seconds of no activity": a session nobody has used for that long,
\* at the dashboard or by opening it, is over.
IdleSessionEnds ==
    Idle /\ now - commanded_at >= Timeout => CurrentAt(now) = DEFAULT
============================================================================
