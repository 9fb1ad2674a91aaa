----------------------- MODULE ECURefinement_proofs -----------------------
(***************************************************************************)
(* Action properties of the VirtualECU and its refinement of the abstract  *)
(* specifications, from the invariant of VirtualECU_proofs.                *)
(*                                                                         *)
(* LimitStep says all that any step does to the limits of the 0x27 levels. *)
(* Two action properties and the refinement of AttemptLimiter follow from  *)
(* it, whatever request the step served.                                   *)
(***************************************************************************)
EXTENDS ECURefinement, VirtualECU_proofs

ServedLockout(l) == ClearLimits(l) /\ lockout_until[l] # None /\ now' >= lockout_until[l]

WrongKey(l) == RecordFailure(l, now')

RightKey(l) ==
    ClearLimits(l) /\ out'.op = "send_key" /\ out'.result = "positive" /\ out'.level = l

LimitStep ==
    \/ UNCHANGED limitVars
    \/ \E l \in Levels : ServedLockout(l)
    \/ \E l \in pending_seeds : WrongKey(l) \/ RightKey(l)
    \/ PowerCycle

\* A seed request forgives failures only after a lockout that has been served.
LEMMA RequestSeedLimits ==
    ASSUME Inv, NEW c \in Clients, NEW sf, NEW t \in Later, RequestSeed(c, sf, t)
    PROVE  LimitStep /\ now' \in Nat /\ now' >= now
<1> USE DEF Inv
<1>1. CASE \E nrc : Refuse(c, "request_seed", nrc, now) \/ Refuse(c, "request_seed", nrc, t)
  BY <1>1, ObserveType, NowIsLater DEF Refuse, saVars, limitVars, LimitStep, SessionTypeOK
<1>2. CASE /\ \E l \in Levels : CheckRateLimit(l, t) = "positive" /\ IssueSeed(l)
           /\ Enter(CurrentAt(t), t)
  <2>1. PICK l \in Levels : CheckRateLimit(l, t) = "positive" /\ IssueSeed(l)
    BY <1>2
  <2>2. now' = t /\ now' \in Nat /\ now' >= now
    BY <1>2, EnterType, CurrentAtType DEF SessionTypeOK
  <2>3. CASE lockout_until[l] # None
    <3>1. now' >= lockout_until[l]
      BY <2>1, <2>2, <2>3 DEF CheckRateLimit, LockedOut, LimitsInv, SecurityAccessTypeOK
    <3> QED BY <2>1, <2>2, <2>3, <3>1 DEF IssueSeed, ExpireLockout, LimitStep, ServedLockout
  <2>4. CASE lockout_until[l] = None
    BY <2>1, <2>2, <2>4 DEF IssueSeed, ExpireLockout, LimitStep
  <2> QED BY <2>3, <2>4
<1> QED BY <1>1, <1>2 DEF RequestSeed

\* A key counts against, or in favour of, a level with a pending seed only.
LEMMA SendKeyLimits ==
    ASSUME Inv, NEW c \in Clients, NEW sf, NEW key, NEW t \in Later, SendKey(c, sf, key, t)
    PROVE  LimitStep /\ now' \in Nat /\ now' >= now
<1> USE DEF Inv
<1>1. CASE \E nrc : Refuse(c, "send_key", nrc, now) \/ Refuse(c, "send_key", nrc, t)
  BY <1>1, ObserveType, NowIsLater DEF Refuse, saVars, limitVars, LimitStep, SessionTypeOK
<1>2. CASE (\E l \in pending_seeds : RejectKey(l, t)) /\ Observe(t)
  <2>1. now' = t /\ now' \in Nat /\ now' >= now
    BY <1>2, ObserveType DEF SessionTypeOK
  <2> QED BY <1>2, <2>1 DEF RejectKey, LimitStep, WrongKey
<1>3. CASE /\ \E l \in pending_seeds :
                AcceptKey(l) /\ Answer(c, "send_key", "positive", l, "AUTH_SUCCESS")
           /\ Enter(CurrentAt(t), t)
  <2>1. now' = t /\ now' \in Nat /\ now' >= now
    BY <1>3, EnterType, CurrentAtType DEF SessionTypeOK
  <2> QED BY <1>3, <2>1 DEF AcceptKey, Answer, LimitStep, RightKey
<1> QED BY <1>1, <1>2, <1>3 DEF SendKey

\* No other step touches the limits, except a power cycle.
LEMMA EveryLimitStep ==
    ASSUME Inv, Next
    PROVE  LimitStep /\ now' \in Nat /\ now' >= now
<1> USE DEF Inv
<1>1. ASSUME NEW c \in Clients, NEW t \in Later, Request(c, t)
      PROVE  LimitStep /\ now' \in Nat /\ now' >= now
  <2> USE <1>1, ObserveType, ObserveAndTouchType, EnterType, NowIsLater, LaterIsLater, SessionAssumption
      DEF LimitStep, saVars, limitVars, SessionTypeOK
  <2>1. ASSUME NEW target, SessionControl(c, target, t)
        PROVE  LimitStep /\ now' \in Nat /\ now' >= now
    BY <2>1 DEF SessionControl, TransitionAllowed, Refuse, ClearAccessLevels, ClearAccess27
  <2>2. CASE GetSessionState(c, t)
    BY <2>2 DEF GetSessionState
  <2>3. CASE InjectTamper(c, t)
    BY <2>3 DEF InjectTamper, Reset, ClearAccessLevels, ClearAccess27, Valid
  <2>4. CASE \E sf \in Subfunctions : RequestSeed(c, sf, t)
    BY <2>4, RequestSeedLimits
  <2>5. CASE \E sf \in Subfunctions, key \in Keys : SendKey(c, sf, key, t)
    BY <2>5, SendKeyLimits
  <2>6. CASE \E cert \in Certs : CommunicateCertificate(c, cert, t)
    BY <2>6 DEF CommunicateCertificate, Refuse
  <2>7. CASE \E proof \in Proofs : proof.data <= drawn /\ VerifyProof(c, proof, t)
    BY <2>7 DEF VerifyProof, Refuse
  <2>8. CASE MalformedProof(c)
    BY <2>8 DEF MalformedProof, Refuse
  <2>9. CASE Deauthenticate(c)
    BY <2>9 DEF Deauthenticate, Refuse
  <2>10. CASE \E level \in AccessLevels : CheckAccess(c, level)
    BY <2>10 DEF CheckAccess, ClearAccessLevels, ClearAccess27
  <2>11. CASE \E n \in 0..drawn : InjectReplayNonce(c, n)
    BY <2>11 DEF InjectReplayNonce, sessionVars
  <2>12. CASE \E service_id \in {16, 39, 62}, payload \in {<<>>, <<1>>, <<3>>, <<3, 0>>} :
                SendUdsPdu(c, service_id, payload, t)
    BY <2>1, <2>12, RequestSeedLimits DEF SendUdsPdu, sessionVars
  <2> QED
    BY <2>1, <2>2, <2>3, <2>4, <2>5, <2>6, <2>7, <2>8, <2>9, <2>10, <2>11, <2>12 DEF Request
<1>2. CASE \E cert \in Certs : Revoke(cert)
  BY <1>2 DEF Revoke, sessionVars, saVars, limitVars, LimitStep, SessionTypeOK
<1>3. CASE PowerCycle
  BY <1>3, EnterType, NowIsLater DEF PowerCycle, Reset, Valid, LimitStep, SessionTypeOK
<1>4. CASE Tick
  BY <1>4 DEF Tick, AdvanceClock, saVars, limitVars, LimitStep, SessionTypeOK
<1> QED BY <1>1, <1>2, <1>3, <1>4 DEF Next

----------------------------------------------------------------------------
(* Action properties of the limits.                                        *)

\* REQ-038: two failures of a level are at least RequiredDelay apart.
THEOREM FailuresAreSpaced == Spec => FailuresSpaced
<1> DEFINE Spaced ==
      \A l \in Levels :
         attempt_counters'[l] > attempt_counters[l] /\ last_fail_at[l] # None
            => now' - last_fail_at[l] >= RequiredDelay
<1>1. ASSUME Inv, Next PROVE Spaced
  <2>0. /\ attempt_counters \in [Levels -> 0..MaxAttempts] /\ MaxAttempts \in Nat
        /\ last_fail_at \in [Levels -> Nat \cup {None}]
        /\ pending_seeds \subseteq Levels
        /\ now \in Nat /\ now' \in Nat /\ now' >= now /\ RequiredDelay \in Nat
    BY <1>1, EveryLimitStep, SecurityAccessAssumption
       DEF Inv, LimitsInv, SecurityAccessTypeOK, SessionTypeOK
  <2> SUFFICES ASSUME NEW m \in Levels, attempt_counters'[m] > attempt_counters[m],
                      last_fail_at[m] # None
               PROVE  now' - last_fail_at[m] >= RequiredDelay
    OBVIOUS
  <2>1. ~ UNCHANGED limitVars
    BY <2>0 DEF limitVars
  <2>2. ASSUME NEW l \in Levels, ClearLimits(l) PROVE FALSE
    <3>1. attempt_counters'[m] = attempt_counters[m] \/ attempt_counters'[m] = 0
      BY <2>0, <2>2 DEF ClearLimits
    <3> QED BY <2>0, <3>1
  <2>3. ASSUME NEW l \in pending_seeds, WrongKey(l)
        PROVE  now' - last_fail_at[m] >= RequiredDelay
    <3>1. m # l => attempt_counters'[m] = attempt_counters[m]
      BY <2>0, <2>3 DEF WrongKey, RecordFailure
    <3>2. m = l
      BY <2>0, <3>1
    <3>3. now - last_fail_at[m] >= RequiredDelay /\ last_fail_at[m] \in Nat
      BY <1>1, <2>0, <2>3, <3>2 DEF Inv, LimitsInv, NoSeedWhileBlocked
    <3> QED BY <2>0, <3>3
  <2>4. ~ PowerCycle
    BY <2>0 DEF PowerCycle
  <2> QED BY <1>1, <2>0, <2>1, <2>2, <2>3, <2>4, EveryLimitStep
          DEF LimitStep, ServedLockout, RightKey
<1>2. Inv /\ [Next]_vars => [Spaced]_vars
  BY <1>1
<1> QED BY <1>2, Invariance, PTL DEF Spec, FailuresSpaced

\* REQ-041: only a right key, a served lockout or a power cycle forgives failures.
THEOREM LockoutsAreServed == Spec => LockoutServed
<1> DEFINE Kept(l) ==
             attempt_counters'[l] >= attempt_counters[l] /\ lockout_until'[l] = lockout_until[l]
           Locked(l) ==
             attempt_counters'[l] = MaxAttempts /\ lockout_until'[l] = now' + LockoutDuration
           Expired(l) == lockout_until[l] # None /\ now' >= lockout_until[l]
           Right(l) == out'.op = "send_key" /\ out'.result = "positive" /\ out'.level = l
           Served ==
             \A l \in Levels :
               \/ attempt_counters'[l] >= attempt_counters[l] /\ lockout_until'[l] = lockout_until[l]
               \/ attempt_counters'[l] = MaxAttempts /\ lockout_until'[l] = now' + LockoutDuration
               \/ lockout_until[l] # None /\ now' >= lockout_until[l]
               \/ out'.op = "send_key" /\ out'.result = "positive" /\ out'.level = l
               \/ out'.op = "power_cycle"
<1>1. ASSUME Inv, Next PROVE Served
  <2>0. /\ attempt_counters \in [Levels -> 0..MaxAttempts] /\ MaxAttempts \in Nat
        /\ lockout_until \in [Levels -> Nat \cup {None}]
        /\ pending_seeds \subseteq Levels
    BY <1>1, SecurityAccessAssumption DEF Inv, LimitsInv, SecurityAccessTypeOK
  <2> SUFFICES ASSUME NEW m \in Levels
               PROVE  Kept(m) \/ Locked(m) \/ Expired(m) \/ Right(m) \/ out'.op = "power_cycle"
    OBVIOUS
  <2>1. CASE UNCHANGED limitVars
    BY <2>0, <2>1 DEF limitVars
  <2>2. CASE \E l \in Levels : ServedLockout(l)
    <3>1. PICK l \in Levels : ServedLockout(l)
      BY <2>2
    <3>2. m # l => Kept(m)
      BY <2>0, <3>1 DEF ServedLockout, ClearLimits
    <3>3. m = l => Expired(m)
      BY <3>1 DEF ServedLockout
    <3> QED BY <3>2, <3>3
  <2>3. CASE \E l \in pending_seeds : WrongKey(l)
    <3>1. PICK l \in pending_seeds : WrongKey(l)
      BY <2>3
    <3>2. m # l => Kept(m)
      BY <2>0, <3>1 DEF WrongKey, RecordFailure
    <3>3. attempt_counters[l] \in 0..(MaxAttempts - 1)
      BY <1>1, <2>0, SecurityAccessAssumption DEF Inv, LimitsInv, NoSeedWhileBlocked, LockoutIffMaxed
    <3>4. m = l => Kept(m) \/ Locked(m)
      BY <2>0, <3>1, <3>3 DEF WrongKey, RecordFailure
    <3> QED BY <3>2, <3>4
  <2>4. CASE \E l \in pending_seeds : RightKey(l)
    <3>1. PICK l \in pending_seeds : RightKey(l)
      BY <2>4
    <3>2. m # l => Kept(m)
      BY <2>0, <3>1 DEF RightKey, ClearLimits
    <3>3. m = l => Right(m)
      BY <3>1 DEF RightKey
    <3> QED BY <3>2, <3>3
  <2>5. CASE PowerCycle
    BY <2>5 DEF PowerCycle, Answer
  <2> QED BY <1>1, <2>1, <2>2, <2>3, <2>4, <2>5, EveryLimitStep DEF LimitStep
<1>2. Inv /\ [Next]_vars => [Served]_vars
  BY <1>1
<1> QED BY <1>2, Invariance, PTL DEF Spec, LockoutServed

----------------------------------------------------------------------------
(* The refinement of AttemptLimiter.                                       *)

\* When a step leaves the limits alone, the limiter only waits.
LEMMA WaitStep ==
    ASSUME Inv, UNCHANGED limitVars, now' \in Nat, now' >= now
    PROVE  Limiter!Wait
<1> USE SessionAssumption, SecurityAccessAssumption
    DEF Inv, LimitsInv, SecurityAccessTypeOK, SessionTypeOK, limitVars
<1>1. live_failures' = [l \in Levels |->
         IF live_failures[l] >= MaxAttempts /\ now' >= closed_until[l] THEN 0 ELSE live_failures[l]]
  BY DEF live_failures, closed_until, LockoutIffMaxed
<1>2. closed_until' = [l \in Levels |-> IF now' >= closed_until[l] THEN 0 ELSE closed_until[l]]
  BY DEF closed_until
<1> QED BY <1>1, <1>2 DEF Limiter!Wait, Limiter!Settle

\* A lockout that has been served is no longer one to the limiter.
LEMMA ServedStep ==
    ASSUME Inv, NEW l \in Levels, ServedLockout(l), now' \in Nat, now' >= now
    PROVE  Limiter!Wait
<1> USE SessionAssumption, SecurityAccessAssumption
    DEF Inv, LimitsInv, SecurityAccessTypeOK, SessionTypeOK, ServedLockout, ClearLimits
<1>1. live_failures' = [m \in Levels |->
         IF live_failures[m] >= MaxAttempts /\ now' >= closed_until[m] THEN 0 ELSE live_failures[m]]
  BY DEF live_failures, closed_until, LockoutIffMaxed
<1>2. closed_until' = [m \in Levels |-> IF now' >= closed_until[m] THEN 0 ELSE closed_until[m]]
  BY DEF closed_until
<1> QED BY <1>1, <1>2 DEF Limiter!Wait, Limiter!Settle

\* A level with a pending seed is open to the limiter and has attempts left.
LEMMA SeedMeansOpen ==
    ASSUME Inv, NEW l \in pending_seeds
    PROVE  /\ l \in Levels /\ closed_until[l] = 0 /\ lockout_until[l] = None
           /\ live_failures[l] = attempt_counters[l] /\ attempt_counters[l] \in 0..(MaxAttempts - 1)
BY SessionAssumption, SecurityAccessAssumption
   DEF Inv, LimitsInv, SecurityAccessTypeOK, SessionTypeOK, NoSeedWhileBlocked, LockoutIffMaxed,
       closed_until, live_failures

\* At a level whose limits a step leaves alone, the limiter only waits.
LEMMA UntouchedLevel ==
    ASSUME Inv, now' \in Nat, now' >= now, NEW m \in Levels,
           attempt_counters'[m] = attempt_counters[m], lockout_until'[m] = lockout_until[m],
           last_fail_at'[m] = last_fail_at[m]
    PROVE  /\ live_failures'[m] = IF live_failures[m] >= MaxAttempts /\ now' >= closed_until[m]
                                  THEN 0 ELSE live_failures[m]
           /\ closed_until'[m] = IF now' >= closed_until[m] THEN 0 ELSE closed_until[m]
<1> USE SessionAssumption, SecurityAccessAssumption
<1>1. live_failures'[m] = IF live_failures[m] >= MaxAttempts /\ now' >= closed_until[m]
                          THEN 0 ELSE live_failures[m]
  BY DEF live_failures, closed_until, LockoutIffMaxed, Inv, LimitsInv, SecurityAccessTypeOK, SessionTypeOK
<1>2. closed_until'[m] = IF now' >= closed_until[m] THEN 0 ELSE closed_until[m]
  BY DEF closed_until, Inv, LimitsInv, SecurityAccessTypeOK, SessionTypeOK
<1> QED BY <1>1, <1>2

\* A wrong key is a failure of the limiter.
LEMMA WrongKeyStep ==
    ASSUME Inv, NEW l \in pending_seeds, WrongKey(l), now' \in Nat, now' >= now
    PROVE  Limiter!Fail(l)
<1> USE SessionAssumption, SecurityAccessAssumption
<1> DEFINE n == live_failures[l] + 1
           d == IF n >= MaxAttempts THEN LockoutDuration ELSE RequiredDelay
           f == [live_failures EXCEPT ![l] = n]
           cl == [closed_until EXCEPT ![l] = now' + d]
<1>1. l \in Levels /\ closed_until[l] = 0 /\ lockout_until[l] = None
      /\ live_failures[l] = attempt_counters[l] /\ attempt_counters[l] \in 0..(MaxAttempts - 1)
  BY SeedMeansOpen
<1>2. /\ attempt_counters' = [attempt_counters EXCEPT ![l] = n]
      /\ last_fail_at' = [last_fail_at EXCEPT ![l] = now']
      /\ lockout_until' = [lockout_until EXCEPT ![l] =
                              IF n >= MaxAttempts THEN now' + LockoutDuration ELSE None]
  BY <1>1 DEF WrongKey, RecordFailure, Inv, LimitsInv, SecurityAccessTypeOK
<1>3. live_failures' = [m \in Levels |-> IF f[m] >= MaxAttempts /\ now' >= cl[m] THEN 0 ELSE f[m]]
  <2> SUFFICES ASSUME NEW m \in Levels
               PROVE  live_failures'[m] = IF f[m] >= MaxAttempts /\ now' >= cl[m] THEN 0 ELSE f[m]
    BY DEF live_failures
  <2>1. CASE m = l
    <3>1. attempt_counters'[l] = n /\ f[l] = n /\ cl[l] = now' + d /\ n \in 0..MaxAttempts
      BY <1>1, <1>2 DEF live_failures, closed_until, Inv, LimitsInv, SecurityAccessTypeOK
    <3>2. lockout_until'[l] = IF n >= MaxAttempts THEN now' + LockoutDuration ELSE None
      BY <1>1, <1>2 DEF Inv, LimitsInv, SecurityAccessTypeOK
    <3>3. CASE n >= MaxAttempts
      <4>1. lockout_until'[l] = now' + LockoutDuration /\ now' + LockoutDuration # None
        BY <3>2, <3>3
      <4>2. live_failures'[l] = IF now' >= now' + LockoutDuration THEN 0 ELSE n
        BY <1>1, <3>1, <4>1 DEF live_failures
      <4> QED BY <2>1, <3>1, <3>3, <4>2
    <3>4. CASE ~ (n >= MaxAttempts)
      <4>1. live_failures'[l] = n
        BY <1>1, <3>1, <3>2, <3>4 DEF live_failures
      <4> QED BY <2>1, <3>1, <3>4, <4>1
    <3> QED BY <3>3, <3>4
  <2>2. CASE m # l
    BY <1>1, <1>2, <2>2 DEF live_failures, closed_until, LockoutIffMaxed, Inv, LimitsInv,
       SecurityAccessTypeOK, SessionTypeOK
  <2> QED BY <2>1, <2>2
<1>4. closed_until' = [m \in Levels |-> IF now' >= cl[m] THEN 0 ELSE cl[m]]
  <2> SUFFICES ASSUME NEW m \in Levels
               PROVE  closed_until'[m] = IF now' >= cl[m] THEN 0 ELSE cl[m]
    BY DEF closed_until
  <2>1. CASE m = l
    <3>1. cl[l] = now' + d /\ last_fail_at'[l] = now' /\ now' # None
      BY <1>1, <1>2 DEF closed_until, Inv, LimitsInv, SecurityAccessTypeOK
    <3>2. lockout_until'[l] = IF n >= MaxAttempts THEN now' + LockoutDuration ELSE None
      BY <1>1, <1>2 DEF Inv, LimitsInv, SecurityAccessTypeOK
    <3>3. CASE n >= MaxAttempts
      <4>1. lockout_until'[l] = now' + LockoutDuration /\ now' + LockoutDuration # None
        BY <3>2, <3>3
      <4>2. closed_until'[l] = IF now' >= now' + LockoutDuration THEN 0 ELSE now' + LockoutDuration
        BY <1>1, <4>1 DEF closed_until
      <4> QED BY <2>1, <3>1, <3>3, <4>2
    <3>4. CASE ~ (n >= MaxAttempts)
      <4>1. closed_until'[l] = IF now' >= now' + RequiredDelay THEN 0 ELSE now' + RequiredDelay
        BY <1>1, <3>1, <3>2, <3>4 DEF closed_until
      <4> QED BY <2>1, <3>1, <3>4, <4>1
    <3> QED BY <3>3, <3>4
  <2>2. CASE m # l
    BY <1>1, <1>2, <2>2 DEF closed_until, Inv, LimitsInv, SecurityAccessTypeOK, SessionTypeOK
  <2> QED BY <2>1, <2>2
<1> QED BY <1>1, <1>3, <1>4 DEF Limiter!Fail, Limiter!Settle

\* A right key is a success of the limiter.
LEMMA RightKeyStep ==
    ASSUME Inv, NEW l \in pending_seeds, RightKey(l), now' \in Nat, now' >= now
    PROVE  Limiter!Succeed(l)
<1> USE SessionAssumption, SecurityAccessAssumption
<1> DEFINE f == [live_failures EXCEPT ![l] = 0]
           cl == closed_until
<1>1. l \in Levels /\ closed_until[l] = 0
  BY SeedMeansOpen
<1>2. /\ attempt_counters' = [attempt_counters EXCEPT ![l] = 0]
      /\ lockout_until' = [lockout_until EXCEPT ![l] = None]
      /\ last_fail_at' = [last_fail_at EXCEPT ![l] = None]
  BY DEF RightKey, ClearLimits
<1>3. live_failures' = [m \in Levels |-> IF f[m] >= MaxAttempts /\ now' >= cl[m] THEN 0 ELSE f[m]]
  <2> SUFFICES ASSUME NEW m \in Levels
               PROVE  live_failures'[m] = IF f[m] >= MaxAttempts /\ now' >= cl[m] THEN 0 ELSE f[m]
    BY DEF live_failures
  <2>1. CASE m = l
    <3>1. attempt_counters'[l] = 0 /\ f[l] = 0
      BY <1>1, <1>2 DEF live_failures, Inv, LimitsInv, SecurityAccessTypeOK
    <3>2. live_failures'[l] = 0
      BY <1>1, <3>1 DEF live_failures
    <3> QED BY <2>1, <3>1, <3>2
  <2>2. CASE m # l
    <3>1. f[m] = live_failures[m]
      BY <1>1, <2>2 DEF live_failures
    <3>2. /\ attempt_counters'[m] = attempt_counters[m] /\ lockout_until'[m] = lockout_until[m]
          /\ last_fail_at'[m] = last_fail_at[m]
      BY <1>2, <2>2 DEF Inv, LimitsInv, SecurityAccessTypeOK
    <3> QED BY <3>1, <3>2, UntouchedLevel
  <2> QED BY <2>1, <2>2
<1>4. closed_until' = [m \in Levels |-> IF now' >= cl[m] THEN 0 ELSE cl[m]]
  <2> SUFFICES ASSUME NEW m \in Levels
               PROVE  closed_until'[m] = IF now' >= cl[m] THEN 0 ELSE cl[m]
    BY DEF closed_until
  <2>1. CASE m = l
    <3>1. lockout_until'[l] = None /\ last_fail_at'[l] = None
      BY <1>1, <1>2 DEF Inv, LimitsInv, SecurityAccessTypeOK
    <3>2. closed_until'[l] = 0
      BY <1>1, <3>1 DEF closed_until
    <3> QED BY <1>1, <2>1, <3>2
  <2>2. CASE m # l
    <3>1. /\ attempt_counters'[m] = attempt_counters[m] /\ lockout_until'[m] = lockout_until[m]
          /\ last_fail_at'[m] = last_fail_at[m]
      BY <1>2, <2>2 DEF Inv, LimitsInv, SecurityAccessTypeOK
    <3> QED BY <3>1, UntouchedLevel
  <2> QED BY <2>1, <2>2
<1> QED BY <1>1, <1>3, <1>4 DEF Limiter!Succeed, Limiter!Settle

\* A power cycle starts the limiter over.
LEMMA PowerCycleStep ==
    ASSUME Inv, PowerCycle, now' \in Nat, now' >= now
    PROVE  Limiter!PowerOff
BY SecurityAccessAssumption
   DEF PowerCycle, live_failures, closed_until, Limiter!PowerOff, Limiter!Settle

\* REQ-036 to REQ-041: the ECU implements AttemptLimiter.
THEOREM ImplementsLimiter == Spec => LimitsAttempts
<1>1. Init => Limiter!LimiterInit
  BY DEF Init, SessionInit, SecurityAccessInit, Limiter!LimiterInit, live_failures, closed_until
<1>2. Inv /\ [Next]_vars => [Limiter!LimiterNext]_(Limiter!lvars)
  <2> SUFFICES ASSUME Inv, [Next]_vars PROVE Limiter!LimiterNext \/ UNCHANGED Limiter!lvars
    OBVIOUS
  <2>1. CASE Next
    <3>1. LimitStep /\ now' \in Nat /\ now' >= now
      BY <2>1, EveryLimitStep
    <3>2. pending_seeds \subseteq Levels
      BY DEF Inv, LimitsInv, SecurityAccessTypeOK
    <3> QED
      BY <3>1, <3>2, WaitStep, ServedStep, WrongKeyStep, RightKeyStep, PowerCycleStep
         DEF LimitStep, Limiter!LimiterNext
  <2>2. CASE UNCHANGED vars
    BY <2>2 DEF vars, sessionVars, saVars, Limiter!lvars, live_failures, closed_until
  <2> QED BY <2>1, <2>2
<1> QED BY <1>1, <1>2, Invariance, PTL DEF Spec, LimitsAttempts, Limiter!LimiterSpec

----------------------------------------------------------------------------
(* The refinement of SessionLease.                                         *)

\* A session that was touched just now is live.
LEMMA JustTouched ==
    ASSUME SessionTypeOK', last_activity' = now'
    PROVE  CurrentAt(now)' = session'
<1>1. PICK n \in Int : n = now'
  BY SessionAssumption DEF SessionTypeOK
<1>2. ~(n - n >= Timeout)
  BY SessionAssumption
<1> QED BY <1>1, <1>2 DEF CurrentAt

\* The Default session has no timer.
LEMMA DefaultStays ==
    ASSUME session' = DEFAULT
    PROVE  CurrentAt(now)' = DEFAULT
BY DEF CurrentAt

\* To the lease, a request that only looks at the session, or looks at one that
\* has run out, is time passing.
LEMMA LeaseWait ==
    ASSUME SessionTypeOK, SessionTypeOK', now' >= now, Waits \/ Idles
    PROVE  Lease!Wait
<1>0. PICK n \in Int : n = now'
  BY SessionAssumption DEF SessionTypeOK
<1>later. n >= now
  BY <1>0
<1>1. CASE Idles
  BY <1>1, DefaultStays DEF Idles, elevated, Lease!Wait, Lease!Free, DEFAULT
<1>2. CASE Waits /\ CurrentAt(now) = DEFAULT
  <2>1. session = DEFAULT \/ n - last_activity >= Timeout
    BY <1>later, <1>2, SessionAssumption DEF CurrentAt, SessionTypeOK
  <2>2. CurrentAt(now)' = DEFAULT
    BY <1>0, <1>2, <2>1 DEF Waits, CurrentAt
  <2> QED BY <1>2, <2>2 DEF elevated, Lease!Wait, Lease!Free, DEFAULT
<1>3. CASE Waits /\ CurrentAt(now) # DEFAULT
  <2>1. CASE n < last_activity + Timeout
    <3>1. ~(n - last_activity >= Timeout)
      BY <2>1, SessionAssumption DEF SessionTypeOK
    <3>2. CurrentAt(now)' = CurrentAt(now)
      BY <1>0, <1>3, <3>1 DEF Waits, CurrentAt
    <3> QED BY <1>0, <1>3, <2>1, <3>2 DEF Waits, elevated, Lease!Wait, DEFAULT
  <2>2. CASE ~(n < last_activity + Timeout)
    <3>1. n - last_activity >= Timeout
      BY <2>2, SessionAssumption DEF SessionTypeOK
    <3>2. CurrentAt(now)' = DEFAULT
      BY <1>0, <1>3, <3>1 DEF Waits, CurrentAt
    <3> QED BY <1>0, <1>3, <2>2, <3>2 DEF elevated, Lease!Wait, Lease!Free, DEFAULT
  <2> QED BY <2>1, <2>2
<1> QED BY <1>1, <1>2, <1>3

\* Entering the Extended session from Default acquires the lease.
LEMMA LeaseAcquire ==
    ASSUME SessionTypeOK, SessionTypeOK', now' >= now, NEW c \in Clients, Takes(c), out'.conn = c
    PROVE  Lease!Acquire
<1>1. CurrentAt(now)' = EXTENDED
  BY JustTouched DEF Takes
<1> QED BY <1>1 DEF Takes, elevated, Lease!Acquire, DEFAULT, EXTENDED

\* What the owner does in its session prolongs the lease.
LEMMA LeaseProlong ==
    ASSUME SessionTypeOK, SessionTypeOK', now' >= now, NEW c \in Clients, Holds(c), out'.conn = c
    PROVE  Lease!Prolong
<1>1. CurrentAt(now)' \in {PROGRAMMING, EXTENDED}
  BY JustTouched DEF Holds
<1> QED BY <1>1 DEF Holds, elevated, Lease!Prolong, DEFAULT, EXTENDED, PROGRAMMING

\* The owner's return to Default and a tamper event release it.
LEMMA LeaseRelease ==
    ASSUME SessionTypeOK, now' >= now, NEW c \in Clients, Gives(c), out'.conn = c
    PROVE  Lease!Release
<1>1. CurrentAt(now)' = DEFAULT
  BY DefaultStays DEF Gives
<1> QED BY <1>1 DEF Gives, elevated, Lease!Release, Lease!Free, DEFAULT

\* REQ-002 to REQ-007: the ECU implements SessionLease.
THEOREM ImplementsLease == Spec => LeasesSession
<1>1. Init => Lease!LeaseInit
  BY DEF Init, SessionInit, CurrentAt, elevated, Lease!LeaseInit, Lease!Free, DEFAULT
<1>2. Inv /\ [Next]_vars => [Lease!LeaseNext]_(Lease!lvars)
  <2> SUFFICES ASSUME Inv, [Next]_vars PROVE Lease!LeaseNext \/ UNCHANGED Lease!lvars
    OBVIOUS
  <2>0. SessionTypeOK /\ SessionTypeOK'
    BY NextInv DEF Inv
  <2>1. CASE \E c \in Clients, t \in Later : Request(c, t)
    <3>1. PICK c \in Clients, t \in Later : Request(c, t)
      BY <2>1
    <3>2. SessionStep(c)
      BY <3>1, RequestSession
    <3> QED BY <2>0, <3>2, LeaseWait, LeaseAcquire, LeaseProlong, LeaseRelease
            DEF SessionStep, Lease!LeaseNext
  <2>2. CASE \E cert \in Certs : Revoke(cert)
    <3>1. Waits /\ now' >= now
      BY <2>0, <2>2 DEF Revoke, sessionVars, ecuVars, Waits, SessionTypeOK
    <3> QED BY <2>0, <3>1, LeaseWait DEF Lease!LeaseNext
  <2>3. CASE PowerCycle
    <3>1. CurrentAt(now)' = DEFAULT /\ now' >= now
      BY <2>0, <2>3, DefaultStays DEF PowerCycle, Reset, Enter, SessionTypeOK
    <3>2. Lease!Release
      BY <2>3, <3>1 DEF PowerCycle, Answer, elevated, Lease!Release, Lease!Free, DEFAULT
    <3> QED BY <3>2 DEF Lease!LeaseNext
  <2>4. CASE Tick
    <3>1. Waits /\ now' >= now
      BY <2>0, <2>4 DEF Tick, AdvanceClock, ecuVars, Waits, SessionTypeOK
    <3> QED BY <2>0, <3>1, LeaseWait DEF Lease!LeaseNext
  <2>5. CASE UNCHANGED vars
    BY <2>5 DEF vars, sessionVars, ecuVars, Lease!lvars, CurrentAt, elevated
  <2> QED BY <2>1, <2>2, <2>3, <2>4, <2>5 DEF Next
<1> QED BY <1>1, <1>2, Invariance, PTL DEF Spec, LeasesSession, Lease!LeaseSpec
============================================================================
