--------------------------- MODULE AttemptLimiter ---------------------------
(***************************************************************************)
(* What the lockout and the retry delay promise a level's secret: how many *)
(* wrong keys it can meet, and how soon.                                   *)
(*                                                                         *)
(* The limiter knows nothing of seeds, sessions and requests, and it is    *)
(* eager: a level opens, and an exhausted level gets its attempts back,    *)
(* the moment the clock reaches the time it was closed for.                *)
(***************************************************************************)
EXTENDS Integers

CONSTANTS Levels, MaxAttempts, RequiredDelay, LockoutDuration

VARIABLES
    now,
    fails,      \* failures of a level since it last had all its attempts
    closed      \* the time until which a level is closed; 0: it is open

lvars == <<now, fails, closed>>

LimiterInit ==
    /\ now = 0
    /\ fails = [l \in Levels |-> 0]
    /\ closed = [l \in Levels |-> 0]

\* The state (f, cl) as the clock reading now' leaves it.
Settle(f, cl) ==
    /\ now' >= now
    /\ fails' = [l \in Levels |-> IF f[l] >= MaxAttempts /\ now' >= cl[l] THEN 0 ELSE f[l]]
    /\ closed' = [l \in Levels |-> IF now' >= cl[l] THEN 0 ELSE cl[l]]

Wait == Settle(fails, closed)

\* A wrong key counts only for an open level, and closes it.
Fail(l) ==
    /\ closed[l] = 0
    /\ LET n == fails[l] + 1
           d == IF n >= MaxAttempts THEN LockoutDuration ELSE RequiredDelay
       IN  Settle([fails EXCEPT ![l] = n], [closed EXCEPT ![l] = now' + d])

\* So does a right one, which gives the level all its attempts back.
Succeed(l) ==
    /\ closed[l] = 0
    /\ Settle([fails EXCEPT ![l] = 0], closed)

PowerOff == Settle([l \in Levels |-> 0], [l \in Levels |-> 0])

LimiterNext == Wait \/ PowerOff \/ \E l \in Levels : Fail(l) \/ Succeed(l)

LimiterSpec == LimiterInit /\ [][LimiterNext]_lvars
============================================================================
