--------------------------- MODULE ECURefinement ---------------------------
(***************************************************************************)
(* The VirtualECU implements the two abstract specifications.  The ECU     *)
(* notices lazily, at the next request, that a session or a lockout has    *)
(* run out; the mappings say what each variable means at the time now.     *)
(***************************************************************************)
EXTENDS VirtualECU

closed_until ==
    [l \in Levels |->
        LET until == IF lockout_until[l] # None THEN lockout_until[l]
                     ELSE IF last_fail_at[l] # None THEN last_fail_at[l] + RequiredDelay ELSE 0
        IN  IF now >= until THEN 0 ELSE until]

live_failures ==
    [l \in Levels |->
        IF lockout_until[l] # None /\ now >= lockout_until[l] THEN 0 ELSE attempt_counters[l]]

Limiter == INSTANCE AttemptLimiter WITH fails <- live_failures, closed <- closed_until

\* REQ-036 to REQ-041: seen from a level's secret the ECU is an AttemptLimiter:
\* wrong and right keys are weighed only when the level is open, whatever
\* sessions, seeds, levels and connections the requests before used.
LimitsAttempts == Limiter!LimiterSpec

elevated == CurrentAt(now) # DEFAULT

Lease == INSTANCE SessionLease WITH
    mode <- CurrentAt(now),
    holder <- IF elevated THEN session_owner ELSE None,
    expires <- IF elevated THEN last_activity + Timeout ELSE 0,
    actor <- IF out.op \in {"inject_tamper", "power_cycle"} THEN "reset" ELSE out.conn

\* REQ-002 to REQ-007: the session with its owner and timer is a SessionLease.
LeasesSession == Lease!LeaseSpec
============================================================================
