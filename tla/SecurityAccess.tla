--------------------------- MODULE SecurityAccess ---------------------------
(***************************************************************************)
(* SecurityAccessHandler (sim/core/security_access.py): UDS 0x27 seed/key, *)
(* with an attempt counter, a retry delay and a lockout per access level.  *)
(*                                                                         *)
(* A seed is 32 fresh random bytes and a key is right when it is the HMAC  *)
(* of the pending seed under the level's secret, so all that can be told   *)
(* apart is whether a level has a seed pending and whether the key sent    *)
(* answers it: pending_seeds is the set of levels with a pending seed, and *)
(* a key is "right", "wrong" (any other bytes, the key of an earlier seed  *)
(* included) or "malformed" (a list that is no byte string).               *)
(***************************************************************************)
EXTENDS Session

CONSTANTS
    Levels,             \* the 0x27 levels of the policy
    MaxAttempts,        \* lockout.max_auth_attempts
    RequiredDelay,      \* lockout.required_delay_seconds
    LockoutDuration     \* lockout.lockout_duration_seconds

VARIABLES
    pending_seeds,      \* levels with a pending seed
    sa_granted,         \* _granted_access_level of the 0x27 handler
    attempt_counters,
    lockout_until,
    last_fail_at

limitVars == <<attempt_counters, lockout_until, last_fail_at>>
saVars == <<pending_seeds, sa_granted, attempt_counters, lockout_until, last_fail_at>>

ASSUME SecurityAccessAssumption ==
    /\ Levels \subseteq {"CALIBRATION", "ECU_PROGRAMMING"}
    /\ MaxAttempts \in Nat \ {0}
    /\ RequiredDelay \in Nat
    /\ LockoutDuration \in Nat
    /\ None \notin Levels

\* The level table _parse_levels builds from the policy.
RequiredSession(l) == IF l = "CALIBRATION" THEN EXTENDED ELSE PROGRAMMING
SeedSubfunction(l) == IF l = "CALIBRATION" THEN 1 ELSE 3
KeySubfunction(l)  == SeedSubfunction(l) + 1

Subfunctions == 1..5        \* 5: any subfunction the policy does not configure
Keys == {"right", "wrong", "malformed"}

----------------------------------------------------------------------------
SecurityAccessInit ==
    /\ pending_seeds = {}
    /\ sa_granted = None
    /\ attempt_counters = [l \in Levels |-> 0]
    /\ lockout_until = [l \in Levels |-> None]
    /\ last_fail_at = [l \in Levels |-> None]

\* _check_rate_limit: an expired lockout also forgets the last failure.
LockedOut(l, t) == lockout_until[l] # None /\ t < lockout_until[l]

TooSoon(l, t) ==
    /\ lockout_until[l] = None
    /\ last_fail_at[l] # None
    /\ t - last_fail_at[l] < RequiredDelay

\* A plausible bug: the retry delay is not enforced.
CheckRateLimitNoDelay(l, t) == IF LockedOut(l, t) THEN "0x36" ELSE "positive"

CheckRateLimit(l, t) ==
    IF LockedOut(l, t) THEN "0x36" ELSE IF TooSoon(l, t) THEN "0x37" ELSE "positive"

ClearLimits(l) ==
    /\ attempt_counters' = [attempt_counters EXCEPT ![l] = 0]
    /\ lockout_until' = [lockout_until EXCEPT ![l] = None]
    /\ last_fail_at' = [last_fail_at EXCEPT ![l] = None]

\* A plausible bug: only the lockout is cleared when it expires.
ExpireLockoutOnly(l) ==
    /\ lockout_until' = [lockout_until EXCEPT ![l] = None]
    /\ UNCHANGED <<attempt_counters, last_fail_at>>

\* The side effect of _check_rate_limit when it does not block.
ExpireLockout(l) ==
    IF lockout_until[l] # None THEN ClearLimits(l) ELSE UNCHANGED limitVars

\* The first two checks of request_seed and send_key: the subfunction is one of
\* the level's and the session at time t is the one the level requires.
SeedRequestFits(l, sf, t) == sf = SeedSubfunction(l) /\ CurrentAt(t) = RequiredSession(l)
KeyFits(l, sf, t) == sf = KeySubfunction(l) /\ CurrentAt(t) = RequiredSession(l)

\* The successful end of request_seed.
IssueSeed(l) ==
    /\ pending_seeds' = pending_seeds \cup {l}
    /\ ExpireLockout(l)
    /\ UNCHANGED sa_granted

\* A plausible bug: one attempt more than the policy allows before the lockout.
RecordFailureOneMore(l, t) ==
    /\ attempt_counters' = [attempt_counters EXCEPT ![l] = @ + 1]
    /\ last_fail_at' = [last_fail_at EXCEPT ![l] = t]
    /\ lockout_until' = [lockout_until EXCEPT ![l] =
                            IF attempt_counters[l] + 1 > MaxAttempts
                            THEN t + LockoutDuration ELSE @]

RecordFailure(l, t) ==
    /\ attempt_counters' = [attempt_counters EXCEPT ![l] = @ + 1]
    /\ last_fail_at' = [last_fail_at EXCEPT ![l] = t]
    /\ lockout_until' = [lockout_until EXCEPT ![l] =
                            IF attempt_counters[l] + 1 >= MaxAttempts
                            THEN t + LockoutDuration ELSE @]

\* A plausible bug: a wrong key leaves the seed pending.
RejectKeyKeepSeed(l, t) ==
    /\ RecordFailure(l, t)
    /\ UNCHANGED <<pending_seeds, sa_granted>>

\* send_key with a wrong key: the seed is consumed, the failure recorded.
RejectKey(l, t) ==
    /\ pending_seeds' = pending_seeds \ {l}
    /\ RecordFailure(l, t)
    /\ UNCHANGED sa_granted

\* send_key with the right key: the seed is consumed, the level granted.
AcceptKey(l) ==
    /\ pending_seeds' = pending_seeds \ {l}
    /\ sa_granted' = l
    /\ ClearLimits(l)

\* A plausible bug: clearing access also forgives the failed attempts.
ClearAccess27Limits ==
    /\ pending_seeds' = {}
    /\ sa_granted' = None
    /\ attempt_counters' = [l \in Levels |-> 0]
    /\ lockout_until' = [l \in Levels |-> None]
    /\ last_fail_at' = [l \in Levels |-> None]

\* clear_access: counters and lockouts stay (REQ-041).
ClearAccess27 ==
    /\ pending_seeds' = {}
    /\ sa_granted' = None
    /\ UNCHANGED limitVars

SecurityAccessTypeOK ==
    /\ pending_seeds \subseteq Levels
    /\ sa_granted \in Levels \cup {None}
    /\ attempt_counters \in [Levels -> 0..MaxAttempts]
    /\ lockout_until \in [Levels -> Nat \cup {None}]
    /\ last_fail_at \in [Levels -> Nat \cup {None}]
============================================================================
