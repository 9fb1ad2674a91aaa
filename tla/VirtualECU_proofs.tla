------------------------- MODULE VirtualECU_proofs -------------------------
(***************************************************************************)
(* The safety invariants of VirtualECU hold for every number of levels,    *)
(* connections and certificates and every value of the timing constants.   *)
(*                                                                         *)
(* None of the parts is inductive alone.  A counter stays within bounds    *)
(* because a level with a pending seed is in no lockout                    *)
(* (NoSeedWhileBlocked) and is therefore not exhausted (LockoutIffMaxed);  *)
(* those two need the counter's bounds in turn.  The parts that belong to  *)
(* one handler are grouped, and each of the handler's operations is shown  *)
(* to keep its group; the requests combine these lemmas.                   *)
(***************************************************************************)
EXTENDS VirtualECU, TLAPS

LimitsInv == SecurityAccessTypeOK /\ LockoutIffMaxed /\ NoSeedWhileBlocked

\* Phase 1 leaves a certificate pending only if it is trusted.
PendingCertTrusted == pending_tester_cert # None => Trusted(pending_tester_cert, now)

ExchangeInv == AuthenticationTypeOK /\ PendingCertTrusted

OwnershipInv ==
    /\ session_owner \in Clients \cup {None}
    /\ auth_mechanism \in {"0x27", "0x29", None}
    /\ ExclusiveMechanism
    /\ OwnedWhileElevated

Inv == SessionTypeOK /\ LimitsInv /\ ExchangeInv /\ OwnershipInv /\ out \in Outputs

----------------------------------------------------------------------------
(* The session state machine.                                              *)

\* A time inside a handler is a natural number, not before now (Later).
LEMMA LaterIsLater ==
    ASSUME SessionTypeOK, NEW t \in Later
    PROVE  t \in 0..MaxTime /\ t >= now
BY SessionAssumption DEF SessionTypeOK, Later

\* The clock's present reading is among the readings a handler may see.
LEMMA NowIsLater ==
    ASSUME SessionTypeOK
    PROVE  now \in Later
BY SessionAssumption DEF SessionTypeOK, Later

\* current() only ever keeps the session or reverts it to Default.
LEMMA ObserveType ==
    ASSUME SessionTypeOK, NEW t \in Later, Observe(t)
    PROVE  SessionTypeOK' /\ now' >= now /\ now' = t /\ session' = CurrentAt(t)
BY LaterIsLater DEF SessionTypeOK, Observe, CurrentAt, Valid, DEFAULT, PROGRAMMING, EXTENDED

\* touch() at the end of a handler.
LEMMA ObserveAndTouchType ==
    ASSUME SessionTypeOK, NEW t \in Later, ObserveAndTouch(t)
    PROVE  SessionTypeOK' /\ now' >= now /\ now' = t /\ session' = CurrentAt(now)
BY LaterIsLater DEF SessionTypeOK, ObserveAndTouch, CurrentAt, Valid, DEFAULT, PROGRAMMING, EXTENDED

\* transition() into a valid session.
LEMMA EnterType ==
    ASSUME SessionTypeOK, NEW t \in Later, NEW s \in Valid, Enter(s, t)
    PROVE  SessionTypeOK' /\ now' >= now /\ now' = t /\ session' = s
BY LaterIsLater DEF SessionTypeOK, Enter

\* A session current() reports is valid, and is the stored one unless Default.
LEMMA CurrentAtType ==
    ASSUME SessionTypeOK, NEW t
    PROVE  CurrentAt(t) \in Valid /\ (CurrentAt(t) # DEFAULT => CurrentAt(t) = session)
BY DEF SessionTypeOK, CurrentAt, Valid, DEFAULT, PROGRAMMING, EXTENDED

----------------------------------------------------------------------------
(* The 0x27 handler keeps LimitsInv.                                       *)

\* Time alone, or a request of another service, opens no closed level.
LEMMA LimitsUnchanged ==
    ASSUME SessionTypeOK, LimitsInv, UNCHANGED saVars, now' \in Nat, now' >= now
    PROVE  LimitsInv'
<1> USE SecurityAccessAssumption DEF saVars
<1>1. SecurityAccessTypeOK' /\ LockoutIffMaxed'
  BY DEF LimitsInv, SecurityAccessTypeOK, LockoutIffMaxed
<1>2. NoSeedWhileBlocked'
  BY SessionAssumption DEF LimitsInv, SecurityAccessTypeOK, NoSeedWhileBlocked, SessionTypeOK
<1> QED BY <1>1, <1>2 DEF LimitsInv

\* clear_access drops the seeds and keeps the limits.
LEMMA LimitsCleared ==
    ASSUME LimitsInv, ClearAccess27
    PROVE  LimitsInv'
BY DEF LimitsInv, ClearAccess27, limitVars, SecurityAccessTypeOK, LockoutIffMaxed, NoSeedWhileBlocked

\* _check_rate_limit lets a seed out only where no lockout and no delay runs.
LEMMA LimitsIssueSeed ==
    ASSUME SessionTypeOK, LimitsInv, NEW t \in Later, NEW l \in Levels,
           CheckRateLimit(l, t) = "positive", IssueSeed(l), now' = t
    PROVE  LimitsInv'
<1> USE SecurityAccessAssumption, SessionAssumption, LaterIsLater
<1>1. ~LockedOut(l, t) /\ ~TooSoon(l, t)
  BY DEF CheckRateLimit
<1>2. CASE lockout_until[l] # None
  <2>1. ClearLimits(l) /\ pending_seeds' = pending_seeds \cup {l} /\ sa_granted' = sa_granted
    BY <1>2 DEF IssueSeed, ExpireLockout
  <2>2. SecurityAccessTypeOK' /\ LockoutIffMaxed'
    BY <2>1 DEF LimitsInv, SecurityAccessTypeOK, LockoutIffMaxed, ClearLimits
  <2>3. NoSeedWhileBlocked'
    BY <2>1 DEF LimitsInv, SecurityAccessTypeOK, NoSeedWhileBlocked, ClearLimits, SessionTypeOK
  <2> QED BY <2>2, <2>3 DEF LimitsInv
<1>3. CASE lockout_until[l] = None
  <2>1. UNCHANGED limitVars /\ pending_seeds' = pending_seeds \cup {l} /\ sa_granted' = sa_granted
    BY <1>3 DEF IssueSeed, ExpireLockout
  <2>2. SecurityAccessTypeOK' /\ LockoutIffMaxed'
    BY <2>1 DEF LimitsInv, SecurityAccessTypeOK, LockoutIffMaxed, limitVars
  <2>3. NoSeedWhileBlocked'
    BY <1>1, <1>3, <2>1 DEF LimitsInv, SecurityAccessTypeOK, NoSeedWhileBlocked, TooSoon, limitVars,
       SessionTypeOK
  <2> QED BY <2>2, <2>3 DEF LimitsInv
<1> QED BY <1>2, <1>3

\* A wrong key: its level had a seed, hence an attempt left to count.
LEMMA LimitsRejectKey ==
    ASSUME SessionTypeOK, LimitsInv, NEW t \in Later, NEW l \in pending_seeds,
           RejectKey(l, t), now' = t
    PROVE  LimitsInv'
<1> USE SecurityAccessAssumption, SessionAssumption, LaterIsLater
<1>1. l \in Levels /\ lockout_until[l] = None /\ attempt_counters[l] \in 0..(MaxAttempts - 1)
  BY DEF LimitsInv, SecurityAccessTypeOK, LockoutIffMaxed, NoSeedWhileBlocked
<1>2. SecurityAccessTypeOK'
  BY <1>1 DEF LimitsInv, SecurityAccessTypeOK, RejectKey, RecordFailure
<1>3. LockoutIffMaxed'
  BY <1>1 DEF LimitsInv, SecurityAccessTypeOK, LockoutIffMaxed, RejectKey, RecordFailure
<1>4. NoSeedWhileBlocked'
  BY <1>1 DEF LimitsInv, SecurityAccessTypeOK, NoSeedWhileBlocked, RejectKey, RecordFailure, SessionTypeOK
<1> QED BY <1>2, <1>3, <1>4 DEF LimitsInv

\* A right key consumes the seed and forgives the level's failures.
LEMMA LimitsAcceptKey ==
    ASSUME SessionTypeOK, LimitsInv, NEW t \in Later, NEW l \in pending_seeds,
           AcceptKey(l), now' = t
    PROVE  LimitsInv'
<1> USE SecurityAccessAssumption, SessionAssumption, LaterIsLater
<1>1. l \in Levels
  BY DEF LimitsInv, SecurityAccessTypeOK
<1>2. SecurityAccessTypeOK' /\ LockoutIffMaxed'
  BY <1>1 DEF LimitsInv, SecurityAccessTypeOK, LockoutIffMaxed, AcceptKey, ClearLimits
<1>3. NoSeedWhileBlocked'
  BY <1>1 DEF LimitsInv, SecurityAccessTypeOK, NoSeedWhileBlocked, AcceptKey, ClearLimits, SessionTypeOK
<1> QED BY <1>2, <1>3 DEF LimitsInv

----------------------------------------------------------------------------
(* The 0x29 handler keeps ExchangeInv.                                     *)

\* A pending certificate stays trusted as the clock goes on.
LEMMA ExchangeUnchanged ==
    ASSUME SessionTypeOK, ExchangeInv, UNCHANGED authVars, now' \in Nat, now' >= now
    PROVE  ExchangeInv'
BY AuthenticationAssumption
   DEF SessionTypeOK, ExchangeInv, authVars, AuthenticationTypeOK, PendingCertTrusted, Trusted

\* clear_access and deauthenticate leave no exchange.
LEMMA ExchangeCleared ==
    ASSUME ExchangeInv, ClearAccess29
    PROVE  ExchangeInv' /\ pending_tester_cert' = None /\ auth_granted' = None
BY DEF ExchangeInv, ClearAccess29, AuthenticationTypeOK, PendingCertTrusted, Trusted

\* A challenge goes out only for a certificate _validate_cert accepted.
LEMMA ExchangeIssueChallenge ==
    ASSUME SessionTypeOK, ExchangeInv, NEW cert \in Certs, now' \in Nat, now' >= now,
           ValidateCert(cert, now) = "positive", IssueChallenge(cert)
    PROVE  ExchangeInv'
<1> USE AuthenticationAssumption
<1>1. AuthenticationTypeOK'
  BY DEF ExchangeInv, AuthenticationTypeOK, IssueChallenge, DrawChallenge, Nonces
<1>2. LET info == CertInfo[cert]
      IN  info.parses /\ info.issuer_matches /\ info.signed_by_root /\ ~(now < info.not_before)
  BY DEF ValidateCert
<1>3. PendingCertTrusted'
  BY <1>2 DEF PendingCertTrusted, Trusted, IssueChallenge, SessionTypeOK
<1> QED BY <1>1, <1>3 DEF ExchangeInv

\* An accepted proof had a challenge, which is remembered.
LEMMA ExchangeAcceptProof ==
    ASSUME ExchangeInv, pending_challenge # None, NEW s, AcceptProof(s)
    PROVE  ExchangeInv' /\ pending_tester_cert' = None
BY AuthenticationAssumption
   DEF ExchangeInv, AuthenticationTypeOK, PendingCertTrusted, Trusted, AcceptProof, GrantedBy29

\* A rejected proof ends the exchange, if there was one.
LEMMA ExchangeRejectProof ==
    ASSUME SessionTypeOK, ExchangeInv, RejectProof, now' = now
    PROVE  ExchangeInv' /\ pending_tester_cert' \in {pending_tester_cert, None}
BY AuthenticationAssumption
   DEF SessionTypeOK, ExchangeInv, AuthenticationTypeOK, PendingCertTrusted, Trusted, RejectProof

----------------------------------------------------------------------------
(* The requests keep Inv.                                                  *)

\* What a request shows belongs to the outputs.
LEMMA AnswerType ==
    ASSUME NEW c \in Clients \cup {None}, NEW op \in Ops, NEW result \in Results,
           NEW level \in AccessLevels \cup {None}, NEW event \in Events \cup {None},
           Answer(c, op, result, level, event)
    PROVE  (out \in Outputs)'
BY DEF Answer, Outputs

\* A request that only checks the timeout.
LEMMA RefuseInv ==
    ASSUME Inv, NEW c \in Clients, NEW op \in Ops, NEW nrc \in Results, NEW t \in Later,
           Refuse(c, op, nrc, t)
    PROVE  Inv'
<1>1. SessionTypeOK' /\ now' >= now /\ session' = CurrentAt(t) /\ now' \in Nat
  BY ObserveType, LaterIsLater DEF Inv, Refuse, SessionTypeOK
<1>2. LimitsInv' /\ ExchangeInv'
  BY <1>1, LimitsUnchanged, ExchangeUnchanged DEF Inv, Refuse
<1>3. OwnershipInv'
  BY <1>1, CurrentAtType DEF Inv, Refuse, OwnershipInv, ExclusiveMechanism, OwnedWhileElevated,
     saVars, authVars, ecuVars
<1>4. (out \in Outputs)'
  BY AnswerType DEF Refuse
<1> QED BY <1>1, <1>2, <1>3, <1>4 DEF Inv

\* _clear_access_levels empties both handlers, the owner and the lock.
LEMMA ClearAccessLevelsInv ==
    ASSUME Inv, ClearAccessLevels, session' = DEFAULT
    PROVE  LimitsInv' /\ ExchangeInv' /\ OwnershipInv'
<1>1. LimitsInv'
  BY LimitsCleared DEF Inv, ClearAccessLevels
<1>2. ExchangeInv' /\ pending_tester_cert' = None /\ auth_granted' = None
  BY ExchangeCleared DEF Inv, ClearAccessLevels
<1>3. OwnershipInv'
  BY <1>2 DEF ClearAccessLevels, ClearAccess27, OwnershipInv, ExclusiveMechanism, OwnedWhileElevated
<1> QED BY <1>1, <1>2, <1>3

\* _rpc_session_control
LEMMA SessionControlInv ==
    ASSUME Inv, NEW c \in Clients, NEW target, NEW t \in Later, SessionControl(c, target, t)
    PROVE  Inv'
<1> USE DEF Inv
<1>1. CASE Refuse(c, "session_control", "0x22", now) \/ Refuse(c, "session_control", "0x22", t)
  BY <1>1, RefuseInv, NowIsLater DEF Ops, Results
<1>2. CASE /\ target \in Valid /\ target # DEFAULT
           /\ Enter(target, t) /\ session_owner' = c
           /\ UNCHANGED <<saVars, authVars, auth_mechanism>>
           /\ Answer(c, "session_control", "positive", None, "SESSION_START")
  <2>1. SessionTypeOK' /\ now' >= now /\ now' \in Nat
    BY <1>2, EnterType DEF SessionTypeOK
  <2>2. LimitsInv' /\ ExchangeInv'
    BY <1>2, <2>1, LimitsUnchanged, ExchangeUnchanged
  <2>3. OwnershipInv'
    BY <1>2, ClientsAssumption DEF OwnershipInv, ExclusiveMechanism, OwnedWhileElevated, saVars, authVars
  <2>4. (out \in Outputs)'
    BY <1>2, AnswerType DEF Ops, Results, Events
  <2> QED BY <2>1, <2>2, <2>3, <2>4
<1>3. CASE /\ target = DEFAULT
           /\ Enter(target, t) /\ ClearAccessLevels
           /\ Answer(c, "session_control", "positive", None, "SESSION_END")
  <2>1. SessionTypeOK' /\ session' = DEFAULT
    BY <1>3, EnterType DEF Valid
  <2>2. LimitsInv' /\ ExchangeInv' /\ OwnershipInv'
    BY <1>3, <2>1, ClearAccessLevelsInv
  <2>3. (out \in Outputs)'
    BY <1>3, AnswerType DEF Ops, Results, Events
  <2> QED BY <2>1, <2>2, <2>3
<1> QED BY <1>1, <1>2, <1>3 DEF SessionControl, TransitionAllowed

\* _rpc_get_session_state
LEMMA GetSessionStateInv ==
    ASSUME Inv, NEW c \in Clients, NEW t \in Later, GetSessionState(c, t)
    PROVE  Inv'
<1> USE DEF Inv
<1>1. SessionTypeOK' /\ now' >= now /\ now' \in Nat /\ session' = CurrentAt(now)
  BY ObserveType, ObserveAndTouchType, NowIsLater DEF GetSessionState, SessionTypeOK
<1>2. LimitsInv' /\ ExchangeInv'
  BY <1>1, LimitsUnchanged, ExchangeUnchanged DEF GetSessionState
<1>3. OwnershipInv'
  BY <1>1, CurrentAtType DEF GetSessionState, OwnershipInv, ExclusiveMechanism, OwnedWhileElevated,
     saVars, authVars
<1>4. (out \in Outputs)'
  BY AnswerType DEF GetSessionState, Ops, Results
<1> QED BY <1>1, <1>2, <1>3, <1>4

\* _rpc_inject_tamper
LEMMA InjectTamperInv ==
    ASSUME Inv, NEW c \in Clients, NEW t \in Later, InjectTamper(c, t)
    PROVE  Inv'
<1> USE DEF Inv
<1>1. SessionTypeOK' /\ session' = DEFAULT
  BY EnterType DEF InjectTamper, Reset, Valid
<1>2. LimitsInv' /\ ExchangeInv' /\ OwnershipInv'
  BY <1>1, ClearAccessLevelsInv DEF InjectTamper
<1>3. (out \in Outputs)'
  BY AnswerType DEF InjectTamper, Ops, Results, Events
<1> QED BY <1>1, <1>2, <1>3

\* _rpc_request_seed
LEMMA RequestSeedInv ==
    ASSUME Inv, NEW c \in Clients, NEW sf, NEW t \in Later, RequestSeed(c, sf, t)
    PROVE  Inv'
<1> USE DEF Inv
<1>1. CASE \/ Refuse(c, "request_seed", "0x22", now) \/ Refuse(c, "request_seed", "0x24", now)
           \/ Refuse(c, "request_seed", "0x22", t)
           \/ \E l \in Levels : Refuse(c, "request_seed", CheckRateLimit(l, t), t)
  BY <1>1, RefuseInv, NowIsLater DEF Ops, Results, CheckRateLimit
<1>2. CASE /\ auth_mechanism # "0x29"
           /\ \E l \in Levels : CheckRateLimit(l, t) = "positive" /\ IssueSeed(l)
           /\ Enter(CurrentAt(t), t) /\ auth_mechanism' = "0x27"
           /\ UNCHANGED <<authVars, session_owner>>
           /\ Answer(c, "request_seed", "positive", None, None)
  <2>1. SessionTypeOK' /\ now' >= now /\ now' = t /\ now' \in Nat /\ session' = CurrentAt(t)
    BY <1>2, EnterType, CurrentAtType DEF SessionTypeOK
  <2>2. LimitsInv' /\ ExchangeInv'
    BY <1>2, <2>1, LimitsIssueSeed, ExchangeUnchanged
  <2>3. OwnershipInv'
    BY <1>2, <2>1, CurrentAtType DEF OwnershipInv, ExclusiveMechanism, OwnedWhileElevated, authVars
  <2>4. (out \in Outputs)'
    BY <1>2, AnswerType DEF Ops, Results
  <2> QED BY <2>1, <2>2, <2>3, <2>4
<1> QED BY <1>1, <1>2 DEF RequestSeed

\* _rpc_send_key
LEMMA SendKeyInv ==
    ASSUME Inv, NEW c \in Clients, NEW sf, NEW key, NEW t \in Later, SendKey(c, sf, key, t)
    PROVE  Inv'
<1> USE DEF Inv
<1>1. CASE \/ Refuse(c, "send_key", "0x22", now) \/ Refuse(c, "send_key", "error", now)
           \/ Refuse(c, "send_key", "0x22", t) \/ Refuse(c, "send_key", "0x24", t)
  BY <1>1, RefuseInv, NowIsLater DEF Ops, Results
<1>2. CASE /\ \E l \in pending_seeds : RejectKey(l, t)
           /\ Observe(t) /\ UNCHANGED <<authVars, ecuVars>>
           /\ Answer(c, "send_key", "0x35", None, "AUTH_FAILURE")
  <2>1. SessionTypeOK' /\ now' >= now /\ now' = t /\ now' \in Nat /\ session' = CurrentAt(t)
    BY <1>2, ObserveType DEF SessionTypeOK
  <2>2. LimitsInv' /\ ExchangeInv'
    BY <1>2, <2>1, LimitsRejectKey, ExchangeUnchanged
  <2>3. OwnershipInv'
    BY <1>2, <2>1, CurrentAtType DEF RejectKey, OwnershipInv, ExclusiveMechanism, OwnedWhileElevated,
       authVars, ecuVars
  <2>4. (out \in Outputs)'
    BY <1>2, AnswerType DEF Ops, Results, Events
  <2> QED BY <2>1, <2>2, <2>3, <2>4
<1>3. CASE /\ \E l \in pending_seeds :
                AcceptKey(l) /\ Answer(c, "send_key", "positive", l, "AUTH_SUCCESS")
           /\ Enter(CurrentAt(t), t) /\ UNCHANGED <<authVars, ecuVars>>
  <2>0. PICK l \in pending_seeds : AcceptKey(l) /\ Answer(c, "send_key", "positive", l, "AUTH_SUCCESS")
    BY <1>3
  <2>1. SessionTypeOK' /\ now' >= now /\ now' = t /\ now' \in Nat /\ session' = CurrentAt(t)
    BY <1>3, EnterType, CurrentAtType DEF SessionTypeOK
  <2>2. LimitsInv' /\ ExchangeInv'
    BY <1>3, <2>0, <2>1, LimitsAcceptKey, ExchangeUnchanged
  <2>3. OwnershipInv'
    BY <1>3, <2>0, <2>1, CurrentAtType DEF AcceptKey, OwnershipInv, ExclusiveMechanism,
       OwnedWhileElevated, authVars, ecuVars
  <2>4. l \in AccessLevels
    BY SecurityAccessAssumption DEF LimitsInv, SecurityAccessTypeOK, AccessLevels
  <2>5. (out \in Outputs)'
    BY <2>0, <2>4, AnswerType DEF Ops, Results, Events
  <2> QED BY <2>1, <2>2, <2>3, <2>5
<1> QED BY <1>1, <1>2, <1>3 DEF SendKey

\* _rpc_communicate_certificate
LEMMA CommunicateCertificateInv ==
    ASSUME Inv, NEW c \in Clients, NEW cert \in Certs, NEW t \in Later,
           CommunicateCertificate(c, cert, t)
    PROVE  Inv'
<1> USE DEF Inv
<1>1. CASE \/ Refuse(c, "communicate_certificate", "0x22", now)
           \/ Refuse(c, "communicate_certificate", "0x24", now)
           \/ Refuse(c, "communicate_certificate", ValidateCert(cert, now), now)
  <2>1. ValidateCert(cert, now) \in Results
    BY DEF ValidateCert, Results
  <2> QED BY <1>1, <2>1, RefuseInv, NowIsLater DEF Ops, Results
<1>2. CASE /\ auth_mechanism # "0x27" /\ ValidateCert(cert, now) = "positive"
           /\ ObserveAndTouch(t) /\ IssueChallenge(cert) /\ auth_mechanism' = "0x29"
           /\ UNCHANGED <<saVars, session_owner>>
           /\ Answer(c, "communicate_certificate", "positive", None, None)
  <2>1. SessionTypeOK' /\ now' >= now /\ now' \in Nat /\ session' = CurrentAt(now)
    BY <1>2, ObserveAndTouchType DEF SessionTypeOK
  <2>2. LimitsInv' /\ ExchangeInv'
    BY <1>2, <2>1, LimitsUnchanged, ExchangeIssueChallenge
  <2>3. OwnershipInv'
    BY <1>2, <2>1, CurrentAtType DEF OwnershipInv, ExclusiveMechanism, OwnedWhileElevated, saVars
  <2>4. (out \in Outputs)'
    BY <1>2, AnswerType DEF Ops, Results
  <2> QED BY <2>1, <2>2, <2>3, <2>4
<1> QED BY <1>1, <1>2 DEF CommunicateCertificate

\* _rpc_verify_proof
LEMMA VerifyProofInv ==
    ASSUME Inv, NEW c \in Clients, NEW proof, NEW t \in Later, VerifyProof(c, proof, t)
    PROVE  Inv'
<1> USE DEF Inv
<1>1. CASE Refuse(c, "verify_proof", "0x22", now)
  BY <1>1, RefuseInv, NowIsLater DEF Ops, Results
<1>2. CASE /\ VerifyProofOutcome(proof) = "positive"
           /\ ObserveAndTouch(t) /\ AcceptProof(CurrentAt(now)) /\ UNCHANGED <<saVars, ecuVars>>
           /\ Answer(c, "verify_proof", "positive", GrantedBy29(CurrentAt(now)), "AUTH_SUCCESS")
  <2>1. SessionTypeOK' /\ now' >= now /\ now' \in Nat /\ session' = CurrentAt(now)
    BY <1>2, ObserveAndTouchType DEF SessionTypeOK
  <2>2. pending_challenge # None /\ pending_tester_cert # None
    BY <1>2 DEF VerifyProofOutcome
  <2>3. LimitsInv' /\ ExchangeInv' /\ pending_tester_cert' = None
    BY <1>2, <2>1, <2>2, LimitsUnchanged, ExchangeAcceptProof
  <2>4. OwnershipInv'
    BY <1>2, <2>1, <2>2, <2>3, CurrentAtType DEF OwnershipInv, ExclusiveMechanism, OwnedWhileElevated,
       saVars, ecuVars
  <2>5. (out \in Outputs)'
    BY <1>2, AnswerType DEF Ops, Results, Events, AccessLevels, GrantedBy29
  <2> QED BY <2>1, <2>3, <2>4, <2>5
<1>3. CASE /\ VerifyProofOutcome(proof) # "positive"
           /\ Observe(now) /\ RejectProof /\ UNCHANGED <<saVars, ecuVars>>
           /\ Answer(c, "verify_proof", VerifyProofOutcome(proof), None,
                     IF VerifyProofOutcome(proof) = "error" THEN None ELSE "AUTH_FAILURE")
  <2>1. SessionTypeOK' /\ now' = now /\ now' \in Nat /\ session' = CurrentAt(now)
    BY <1>3, ObserveType, NowIsLater DEF SessionTypeOK
  <2>2. LimitsInv' /\ ExchangeInv' /\ pending_tester_cert' \in {pending_tester_cert, None}
    BY <1>3, <2>1, LimitsUnchanged, ExchangeRejectProof
  <2>3. OwnershipInv'
    BY <1>3, <2>1, <2>2, CurrentAtType DEF RejectProof, OwnershipInv, ExclusiveMechanism,
       OwnedWhileElevated, saVars, ecuVars
  <2>4. VerifyProofOutcome(proof) \in Results
    BY DEF VerifyProofOutcome, Results
  <2>5. (out \in Outputs)'
    BY <1>3, <2>4, AnswerType DEF Ops, Events
  <2> QED BY <2>1, <2>2, <2>3, <2>5
<1> QED BY <1>1, <1>2, <1>3 DEF VerifyProof

\* _rpc_deauthenticate
LEMMA DeauthenticateInv ==
    ASSUME Inv, NEW c \in Clients, Deauthenticate(c)
    PROVE  Inv'
<1> USE DEF Inv
<1>1. CASE Refuse(c, "deauthenticate", "0x22", now)
  BY <1>1, RefuseInv, NowIsLater DEF Ops, Results
<1>2. CASE /\ Observe(now) /\ ClearAccess29 /\ UNCHANGED <<saVars, ecuVars>>
           /\ Answer(c, "deauthenticate", "positive", None, None)
  <2>1. SessionTypeOK' /\ now' >= now /\ now' \in Nat /\ session' = CurrentAt(now)
    BY <1>2, ObserveType, NowIsLater DEF SessionTypeOK
  <2>2. LimitsInv' /\ ExchangeInv' /\ pending_tester_cert' = None /\ auth_granted' = None
    BY <1>2, <2>1, LimitsUnchanged, ExchangeCleared
  <2>3. OwnershipInv'
    BY <1>2, <2>1, <2>2, CurrentAtType DEF OwnershipInv, ExclusiveMechanism, OwnedWhileElevated,
       saVars, ecuVars
  <2>4. (out \in Outputs)'
    BY <1>2, AnswerType DEF Ops, Results
  <2> QED BY <2>1, <2>2, <2>3, <2>4
<1> QED BY <1>1, <1>2 DEF Deauthenticate

\* _rpc_check_access
LEMMA CheckAccessInv ==
    ASSUME Inv, NEW c \in Clients, NEW level \in AccessLevels, CheckAccess(c, level)
    PROVE  Inv'
<1> USE DEF Inv
<1>1. SessionTypeOK' /\ now' >= now /\ now' \in Nat /\ session' = CurrentAt(now)
  BY ObserveType, NowIsLater DEF CheckAccess, SessionTypeOK
<1>2. LimitsInv' /\ ExchangeInv' /\ OwnershipInv'
  <2>1. CASE CurrentAt(now) = DEFAULT
    BY <1>1, <2>1, ClearAccessLevelsInv DEF CheckAccess
  <2>2. CASE CurrentAt(now) # DEFAULT
    <3>1. UNCHANGED <<saVars, authVars, ecuVars>>
      BY <2>2 DEF CheckAccess
    <3>2. LimitsInv' /\ ExchangeInv'
      BY <1>1, <3>1, LimitsUnchanged, ExchangeUnchanged
    <3>3. OwnershipInv'
      BY <1>1, <3>1, CurrentAtType DEF OwnershipInv, ExclusiveMechanism, OwnedWhileElevated,
         saVars, authVars, ecuVars
    <3> QED BY <3>2, <3>3
  <2> QED BY <2>1, <2>2
<1>3. (out \in Outputs)'
  BY AnswerType DEF CheckAccess, Ops, Results
<1> QED BY <1>1, <1>2, <1>3

\* _rpc_inject_replay_nonce
LEMMA InjectReplayNonceInv ==
    ASSUME Inv, NEW c \in Clients, NEW n \in 0..drawn, InjectReplayNonce(c, n)
    PROVE  Inv'
<1> USE DEF Inv
<1>1. SessionTypeOK' /\ LimitsInv'
  BY LimitsUnchanged DEF InjectReplayNonce, sessionVars, SessionTypeOK
<1>2. ExchangeInv'
  BY AuthenticationAssumption DEF InjectReplayNonce, InjectNonce, ExchangeInv, AuthenticationTypeOK,
     PendingCertTrusted, Trusted, sessionVars, Nonces
<1>3. OwnershipInv'
  BY DEF InjectReplayNonce, InjectNonce, OwnershipInv, ExclusiveMechanism, OwnedWhileElevated,
     sessionVars, saVars, ecuVars
<1>4. (out \in Outputs)'
  BY AnswerType DEF InjectReplayNonce, Ops, Results
<1> QED BY <1>1, <1>2, <1>3, <1>4

\* _rpc_send_uds_pdu
LEMMA SendUdsPduInv ==
    ASSUME Inv, NEW c \in Clients, NEW service_id, NEW payload, NEW t \in Later,
           SendUdsPdu(c, service_id, payload, t)
    PROVE  Inv'
<1>1. CASE SessionControl(c, Head(payload), t)
  BY <1>1, SessionControlInv
<1>2. CASE RequestSeed(c, Head(payload), t)
  BY <1>2, RequestSeedInv
<1>3. CASE /\ UNCHANGED <<sessionVars, saVars, authVars, ecuVars>>
           /\ Answer(c, "send_uds_pdu", "0x13", None, None)
  <2>1. SessionTypeOK' /\ LimitsInv' /\ ExchangeInv'
    BY <1>3, LimitsUnchanged, ExchangeUnchanged DEF Inv, sessionVars, SessionTypeOK
  <2>2. OwnershipInv'
    BY <1>3 DEF Inv, OwnershipInv, ExclusiveMechanism, OwnedWhileElevated,
       sessionVars, saVars, authVars, ecuVars
  <2>3. (out \in Outputs)'
    BY <1>3, AnswerType DEF Ops, Results
  <2> QED BY <2>1, <2>2, <2>3 DEF Inv
<1> QED BY <1>1, <1>2, <1>3 DEF SendUdsPdu

----------------------------------------------------------------------------
(* The environment keeps Inv.                                              *)

\* add_revoked_thumbprint touches the revocation list alone.
LEMMA RevokeInv ==
    ASSUME Inv, NEW cert \in Certs, Revoke(cert)
    PROVE  Inv'
<1> USE DEF Inv
<1>1. SessionTypeOK' /\ LimitsInv'
  BY LimitsUnchanged DEF Revoke, sessionVars, SessionTypeOK
<1>2. ExchangeInv'
  BY DEF Revoke, ExchangeInv, AuthenticationTypeOK, PendingCertTrusted, Trusted, sessionVars
<1>3. OwnershipInv'
  BY DEF Revoke, OwnershipInv, ExclusiveMechanism, OwnedWhileElevated, sessionVars, saVars, ecuVars
<1>4. (out \in Outputs)'
  BY AnswerType DEF Revoke, Ops, Results
<1> QED BY <1>1, <1>2, <1>3, <1>4

\* boot() starts over, whatever the time.
LEMMA PowerCycleInv ==
    ASSUME Inv, PowerCycle
    PROVE  Inv'
<1> USE DEF Inv
<1>1. SessionTypeOK' /\ session' = DEFAULT
  BY EnterType, NowIsLater DEF PowerCycle, Reset, Valid
<1>2. LimitsInv'
  BY SecurityAccessAssumption
     DEF PowerCycle, LimitsInv, SecurityAccessTypeOK, LockoutIffMaxed, NoSeedWhileBlocked
<1>3. ExchangeInv'
  BY AuthenticationAssumption
     DEF PowerCycle, ExchangeInv, AuthenticationTypeOK, PendingCertTrusted, Trusted, Nonces
<1>4. OwnershipInv'
  BY <1>1 DEF PowerCycle, OwnershipInv, ExclusiveMechanism, OwnedWhileElevated
<1>5. (out \in Outputs)'
  BY AnswerType DEF PowerCycle, Ops, Results
<1> QED BY <1>1, <1>2, <1>3, <1>4, <1>5

\* Time passes.
LEMMA TickInv ==
    ASSUME Inv, Tick
    PROVE  Inv'
<1> USE DEF Inv
<1>1. SessionTypeOK' /\ now' >= now /\ now' \in Nat
  BY SessionAssumption DEF Tick, AdvanceClock, SessionTypeOK
<1>2. LimitsInv' /\ ExchangeInv'
  BY <1>1, LimitsUnchanged, ExchangeUnchanged DEF Tick
<1>3. OwnershipInv' /\ (out \in Outputs)'
  BY DEF Tick, AdvanceClock, OwnershipInv, ExclusiveMechanism, OwnedWhileElevated,
     saVars, authVars, ecuVars
<1> QED BY <1>1, <1>2, <1>3

----------------------------------------------------------------------------
(* The theorems.                                                           *)

\* The state start() makes satisfies the invariant.
LEMMA InitInv == Init => Inv
<1> SUFFICES ASSUME Init PROVE Inv
  OBVIOUS
<1> USE DEF Init
<1>1. SessionTypeOK
  BY SessionAssumption DEF SessionInit, SessionTypeOK, Valid
<1>2. LimitsInv
  BY SecurityAccessAssumption
     DEF SecurityAccessInit, LimitsInv, SecurityAccessTypeOK, LockoutIffMaxed, NoSeedWhileBlocked
<1>3. ExchangeInv
  BY AuthenticationAssumption
     DEF AuthenticationInit, ExchangeInv, AuthenticationTypeOK, PendingCertTrusted, Trusted, Nonces
<1>4. OwnershipInv
  BY DEF SessionInit, SecurityAccessInit, AuthenticationInit, OwnershipInv, ExclusiveMechanism,
     OwnedWhileElevated
<1>5. out \in Outputs
  BY DEF Outputs, Ops, Results
<1> QED BY <1>1, <1>2, <1>3, <1>4, <1>5 DEF Inv

\* Every request of every connection keeps the invariant.
LEMMA RequestInv ==
    ASSUME Inv, NEW c \in Clients, NEW t \in Later, Request(c, t)
    PROVE  Inv'
<1>1. CASE \E target \in Requests : SessionControl(c, target, t)
  BY <1>1, SessionControlInv
<1>2. CASE GetSessionState(c, t)
  BY <1>2, GetSessionStateInv
<1>3. CASE InjectTamper(c, t)
  BY <1>3, InjectTamperInv
<1>4. CASE \E sf \in Subfunctions : RequestSeed(c, sf, t)
  BY <1>4, RequestSeedInv
<1>5. CASE \E sf \in Subfunctions, key \in Keys : SendKey(c, sf, key, t)
  BY <1>5, SendKeyInv
<1>6. CASE \E cert \in Certs : CommunicateCertificate(c, cert, t)
  BY <1>6, CommunicateCertificateInv
<1>7. CASE \E proof \in Proofs : proof.data <= drawn /\ VerifyProof(c, proof, t)
  BY <1>7, VerifyProofInv
<1>8. CASE MalformedProof(c)
  BY <1>8, RefuseInv, NowIsLater DEF MalformedProof, Inv, Ops, Results
<1>9. CASE Deauthenticate(c)
  BY <1>9, DeauthenticateInv
<1>10. CASE \E level \in AccessLevels : CheckAccess(c, level)
  BY <1>10, CheckAccessInv
<1>11. CASE \E n \in 0..drawn : InjectReplayNonce(c, n)
  BY <1>11, InjectReplayNonceInv
<1>12. CASE \E service_id \in {16, 39, 62}, payload \in {<<>>, <<1>>, <<3>>, <<3, 0>>} :
              SendUdsPdu(c, service_id, payload, t)
  BY <1>12, SendUdsPduInv
<1> QED
  BY <1>1, <1>2, <1>3, <1>4, <1>5, <1>6, <1>7, <1>8, <1>9, <1>10, <1>11, <1>12 DEF Request

\* Every step keeps the invariant.
LEMMA NextInv == Inv /\ [Next]_vars => Inv'
<1> SUFFICES ASSUME Inv, [Next]_vars PROVE Inv'
  OBVIOUS
<1>1. CASE \E c \in Clients, t \in Later : Request(c, t)
  BY <1>1, RequestInv
<1>2. CASE \E cert \in Certs : Revoke(cert)
  BY <1>2, RevokeInv
<1>3. CASE PowerCycle
  BY <1>3, PowerCycleInv
<1>4. CASE Tick
  BY <1>4, TickInv
<1>5. CASE UNCHANGED vars
  <2>1. SessionTypeOK' /\ LimitsInv' /\ ExchangeInv'
    BY <1>5, LimitsUnchanged, ExchangeUnchanged DEF Inv, vars, sessionVars, SessionTypeOK
  <2>2. OwnershipInv' /\ (out \in Outputs)'
    BY <1>5 DEF Inv, vars, OwnershipInv, ExclusiveMechanism, OwnedWhileElevated,
       sessionVars, saVars, authVars, ecuVars
  <2> QED BY <2>1, <2>2 DEF Inv
<1> QED BY <1>1, <1>2, <1>3, <1>4, <1>5 DEF Next

\* The inductive invariant of the ECU.
THEOREM Invariance == Spec => []Inv
BY InitInv, NextInv, PTL DEF Spec

\* Every variable keeps its type; no attempt counter passes max_auth_attempts.
THEOREM TypeCorrect == Spec => []TypeOK
<1>1. Inv => TypeOK
  BY DEF Inv, LimitsInv, ExchangeInv, OwnershipInv, TypeOK
<1> QED BY <1>1, Invariance, PTL

\* REQ-037: lockout and exhausted attempts always go together.
THEOREM LockoutMatchesCounter == Spec => []LockoutIffMaxed
<1>1. Inv => LockoutIffMaxed
  BY DEF Inv, LimitsInv
<1> QED BY <1>1, Invariance, PTL

\* REQ-037, REQ-038: no seed is pending for a level in lockout or delay.
THEOREM SeedsRespectLimits == Spec => []NoSeedWhileBlocked
<1>1. Inv => NoSeedWhileBlocked
  BY DEF Inv, LimitsInv
<1> QED BY <1>1, Invariance, PTL

\* REQ-045: 0x27 and 0x29 are never both under way.
THEOREM MechanismsExclude == Spec => []ExclusiveMechanism
<1>1. Inv => ExclusiveMechanism
  BY DEF Inv, OwnershipInv
<1> QED BY <1>1, Invariance, PTL

\* REQ-007: an elevated session has an owner.
THEOREM ElevatedHasOwner == Spec => []OwnedWhileElevated
<1>1. Inv => OwnedWhileElevated
  BY DEF Inv, OwnershipInv
<1> QED BY <1>1, Invariance, PTL

----------------------------------------------------------------------------
(* Ownership, request by request.                                          *)

\* A request is shown as its connection's.
LEMMA RequestConn ==
    ASSUME NEW c \in Clients, NEW t, Request(c, t)
    PROVE  out'.conn = c
BY DEF Request, SessionControl, GetSessionState, InjectTamper, RequestSeed, SendKey,
   CommunicateCertificate, VerifyProof, MalformedProof, Deauthenticate, CheckAccess,
   InjectReplayNonce, SendUdsPdu, Refuse, Answer

\* REQ-007: the ownership check stands before every change a request can make.
LEMMA RequestIsolation ==
    ASSUME NEW c \in Clients, NEW t, Request(c, t),
           CurrentAt(now) # DEFAULT, c # session_owner,
           out'.op \notin {"inject_tamper", "inject_replay_nonce"}
    PROVE  UNCHANGED <<session, last_activity, saVars, authVars, ecuVars>>
<1> DEFINE Alone == UNCHANGED <<session, last_activity, saVars, authVars, ecuVars>>
<1>1. OwnedByOther(c) /\ CurrentAt(now) = session
  BY DEF OwnedByOther, CurrentAt
<1>2. ASSUME NEW op, NEW nrc, Refuse(c, op, nrc, now) PROVE Alone
  BY <1>1, <1>2 DEF Refuse, Observe
<1>3. ASSUME NEW target, SessionControl(c, target, t) PROVE Alone
  BY <1>1, <1>2, <1>3 DEF SessionControl
<1>4. CASE GetSessionState(c, t)
  BY <1>1, <1>4 DEF GetSessionState, Observe, ecuVars
<1>5. ASSUME InjectTamper(c, t) PROVE FALSE
  BY <1>5 DEF InjectTamper, Answer
<1>6. ASSUME NEW sf, RequestSeed(c, sf, t) PROVE Alone
  BY <1>1, <1>2, <1>6 DEF RequestSeed
<1>7. ASSUME NEW sf, NEW key, SendKey(c, sf, key, t) PROVE Alone
  BY <1>1, <1>2, <1>7 DEF SendKey
<1>8. ASSUME NEW cert, CommunicateCertificate(c, cert, t) PROVE Alone
  BY <1>2, <1>8 DEF CommunicateCertificate
<1>9. ASSUME NEW proof, VerifyProof(c, proof, t) PROVE Alone
  BY <1>2, <1>9 DEF VerifyProof
<1>10. CASE MalformedProof(c)
  BY <1>2, <1>10 DEF MalformedProof
<1>11. CASE Deauthenticate(c)
  BY <1>1, <1>2, <1>11 DEF Deauthenticate
<1>12. CASE \E level \in AccessLevels : CheckAccess(c, level)
  BY <1>1, <1>12 DEF CheckAccess, Observe
<1>13. ASSUME NEW n, InjectReplayNonce(c, n) PROVE FALSE
  BY <1>13 DEF InjectReplayNonce, Answer
<1>14. CASE \E service_id \in {16, 39, 62}, payload \in {<<>>, <<1>>, <<3>>, <<3, 0>>} :
              SendUdsPdu(c, service_id, payload, t)
  BY <1>3, <1>6, <1>14 DEF SendUdsPdu, sessionVars
<1> QED
  BY <1>3, <1>4, <1>5, <1>6, <1>7, <1>8, <1>9, <1>10, <1>11, <1>12, <1>13, <1>14 DEF Request

\* REQ-007: nobody but the owner changes a live elevated session.
THEOREM OwnersAreIsolated == Spec => OwnerIsolation
<1> DEFINE Isolated ==
      CurrentAt(now) # DEFAULT /\ out'.conn \notin {session_owner, None}
      /\ out'.op \notin {"inject_tamper", "inject_replay_nonce"}
        => UNCHANGED <<session, last_activity, saVars, authVars, ecuVars>>
<1>1. ASSUME Next PROVE Isolated
  <2>1. CASE \E c \in Clients, t \in Later : Request(c, t)
    BY <2>1, RequestConn, RequestIsolation
  <2>2. CASE \E cert \in Certs : Revoke(cert)
    BY <2>2 DEF Revoke, Answer
  <2>3. CASE PowerCycle
    BY <2>3 DEF PowerCycle, Answer
  <2>4. CASE Tick
    BY <2>4 DEF Tick, AdvanceClock
  <2> QED BY <1>1, <2>1, <2>2, <2>3, <2>4 DEF Next
<1>2. [Next]_vars => [Isolated]_vars
  BY <1>1
<1> QED BY <1>2, PTL DEF Spec, OwnerIsolation

----------------------------------------------------------------------------
(* The nonce history.                                                      *)

\* The challenge of an accepted proof is no longer pending when the clock alone
\* moves on and the last answer is still the positive one.
ProofConsumed ==
    out.op = "verify_proof" /\ out.result = "positive" => pending_challenge = None

NonceFresh ==
    out'.op = "verify_proof" /\ out'.result = "positive" /\ pending_challenge # None
      => pending_challenge \in used_nonces' \ used_nonces

NoncesKept == used_nonces \subseteq used_nonces' \/ out'.op = "power_cycle"

\* Only verify_proof adds to the nonce history, and only the pending challenge.
LEMMA RequestNonces ==
    ASSUME NEW c, NEW t, Request(c, t)
    PROVE  NonceFresh /\ NoncesKept /\ ProofConsumed'
<1> DEFINE Kept == used_nonces' = used_nonces
           Other == ~(out'.op = "verify_proof" /\ out'.result = "positive")
           Goal == NonceFresh /\ NoncesKept /\ ProofConsumed'
<1>1. Kept /\ Other => Goal
  BY DEF NonceFresh, NoncesKept, ProofConsumed
<1>2. ASSUME NEW op, NEW nrc, NEW u, Refuse(c, op, nrc, u) PROVE Kept /\ out'.op = op /\ out'.result = nrc
  BY <1>2 DEF Refuse, Answer, authVars
<1>3. ClearAccessLevels => Kept
  BY DEF ClearAccessLevels, ClearAccess29
<1>4. ASSUME NEW target, SessionControl(c, target, t) PROVE Goal
  BY <1>1, <1>2, <1>3, <1>4 DEF SessionControl, Answer, authVars
<1>5. CASE GetSessionState(c, t)
  BY <1>1, <1>5 DEF GetSessionState, Answer, authVars
<1>6. CASE InjectTamper(c, t)
  BY <1>1, <1>3, <1>6 DEF InjectTamper, Answer
<1>7. ASSUME NEW sf, RequestSeed(c, sf, t) PROVE Goal
  BY <1>1, <1>2, <1>7 DEF RequestSeed, Answer, authVars
<1>8. ASSUME NEW sf, NEW key, SendKey(c, sf, key, t) PROVE Goal
  BY <1>1, <1>2, <1>8 DEF SendKey, Answer, authVars
<1>9. ASSUME NEW cert, CommunicateCertificate(c, cert, t) PROVE Goal
  BY <1>1, <1>2, <1>9 DEF CommunicateCertificate, IssueChallenge, Answer
<1>10. ASSUME NEW proof, VerifyProof(c, proof, t) PROVE Goal
  <2>1. CASE Refuse(c, "verify_proof", "0x22", now)
    BY <1>1, <1>2, <2>1
  <2>2. CASE /\ VerifyProofOutcome(proof) = "positive"
             /\ AcceptProof(CurrentAt(now))
             /\ out'.op = "verify_proof"
    <3>1. pending_challenge \notin used_nonces
      BY <2>2 DEF VerifyProofOutcome
    <3> QED BY <2>2, <3>1 DEF AcceptProof, NonceFresh, NoncesKept, ProofConsumed
  <2>3. CASE /\ VerifyProofOutcome(proof) # "positive"
             /\ RejectProof
             /\ out'.result = VerifyProofOutcome(proof)
    BY <1>1, <2>3 DEF RejectProof
  <2> QED BY <1>10, <2>1, <2>2, <2>3 DEF VerifyProof, Answer
<1>11. CASE MalformedProof(c)
  BY <1>1, <1>2, <1>11 DEF MalformedProof
<1>12. CASE Deauthenticate(c)
  BY <1>1, <1>2, <1>12 DEF Deauthenticate, ClearAccess29, Answer
<1>13. CASE \E level \in AccessLevels : CheckAccess(c, level)
  BY <1>1, <1>3, <1>13 DEF CheckAccess, Answer, authVars
<1>14. CASE \E n \in 0..drawn : InjectReplayNonce(c, n)
  BY <1>1, <1>14 DEF InjectReplayNonce, InjectNonce, Answer
<1>15. CASE \E service_id \in {16, 39, 62}, payload \in {<<>>, <<1>>, <<3>>, <<3, 0>>} :
              SendUdsPdu(c, service_id, payload, t)
  BY <1>1, <1>4, <1>7, <1>15 DEF SendUdsPdu, Answer, authVars
<1> QED
  BY <1>4, <1>5, <1>6, <1>7, <1>8, <1>9, <1>10, <1>11, <1>12, <1>13, <1>14, <1>15 DEF Request

\* REQ-046: a challenge is accepted once, and then remembered until power-off.
THEOREM NoncesAreSingleUse == Spec => NonceSingleUse
<1> DEFINE Single ==
      /\ out'.op = "verify_proof" /\ out'.result = "positive" /\ pending_challenge # None
           => pending_challenge \in used_nonces' \ used_nonces
      /\ used_nonces \subseteq used_nonces' \/ out'.op = "power_cycle"
<1>1. Init => ProofConsumed
  BY DEF Init, AuthenticationInit, ProofConsumed
<1>2. ASSUME ProofConsumed, Next PROVE NonceFresh /\ NoncesKept /\ ProofConsumed'
  <2>1. CASE \E c \in Clients, t \in Later : Request(c, t)
    BY <2>1, RequestNonces
  <2>2. CASE \E cert \in Certs : Revoke(cert)
    BY <2>2 DEF Revoke, Answer, NonceFresh, NoncesKept, ProofConsumed
  <2>3. CASE PowerCycle
    BY <2>3 DEF PowerCycle, Answer, NonceFresh, NoncesKept, ProofConsumed
  <2>4. CASE Tick
    BY <1>2, <2>4 DEF Tick, authVars, NonceFresh, NoncesKept, ProofConsumed
  <2> QED BY <1>2, <2>1, <2>2, <2>3, <2>4 DEF Next
<1>3. ProofConsumed /\ [Next]_vars => ProofConsumed'
  BY <1>2 DEF vars, authVars, ProofConsumed
<1>4. ProofConsumed /\ [Next]_vars => [Single]_vars
  BY <1>2 DEF NonceFresh, NoncesKept
<1> QED BY <1>1, <1>3, <1>4, PTL DEF Spec, NonceSingleUse

----------------------------------------------------------------------------
(* Certificates, request by request.                                       *)

ChallengeTrusted ==
    pending_tester_cert' # None /\ <<pending_tester_cert', drawn'>> # <<pending_tester_cert, drawn>>
      => /\ Trusted(pending_tester_cert', now)
         /\ now <= CertInfo[pending_tester_cert'].not_after
         /\ pending_tester_cert' \notin revoked

GrantTrusted ==
    auth_granted' # None /\ <<auth_granted', used_nonces'>> # <<auth_granted, used_nonces>>
      => /\ pending_tester_cert # None
         /\ Trusted(pending_tester_cert, now)
         /\ CertInfo[pending_tester_cert].ec_key

\* Only communicate_certificate opens an exchange, after all five checks, and only
\* verify_proof grants, with the key of the certificate that is pending.
LEMMA RequestTrusted ==
    ASSUME Inv, NEW c, NEW t, Request(c, t)
    PROVE  ChallengeTrusted /\ GrantTrusted
<1> DEFINE Goal == ChallengeTrusted /\ GrantTrusted
<1>1. UNCHANGED authVars \/ ClearAccess29 => Goal
  BY DEF authVars, ClearAccess29, ChallengeTrusted, GrantTrusted
<1>2. ASSUME NEW op, NEW nrc, NEW u, Refuse(c, op, nrc, u) PROVE UNCHANGED authVars
  BY <1>2 DEF Refuse
<1>3. ClearAccessLevels => ClearAccess29
  BY DEF ClearAccessLevels
<1>4. ASSUME NEW target, SessionControl(c, target, t) PROVE Goal
  BY <1>1, <1>2, <1>3, <1>4 DEF SessionControl
<1>5. CASE GetSessionState(c, t)
  BY <1>1, <1>5 DEF GetSessionState
<1>6. CASE InjectTamper(c, t)
  BY <1>1, <1>3, <1>6 DEF InjectTamper
<1>7. ASSUME NEW sf, RequestSeed(c, sf, t) PROVE Goal
  BY <1>1, <1>2, <1>7 DEF RequestSeed
<1>8. ASSUME NEW sf, NEW key, SendKey(c, sf, key, t) PROVE Goal
  BY <1>1, <1>2, <1>8 DEF SendKey
<1>9. ASSUME NEW cert \in Certs, CommunicateCertificate(c, cert, t) PROVE Goal
  <2>1. CASE ValidateCert(cert, now) = "positive" /\ IssueChallenge(cert)
    <3>1. CertInfo[cert].not_before \in Nat /\ CertInfo[cert].not_after \in Nat /\ now \in Nat
      BY AuthenticationAssumption DEF Inv, SessionTypeOK
    <3>2. Trusted(cert, now) /\ now <= CertInfo[cert].not_after /\ cert \notin revoked
      BY <2>1, <3>1 DEF ValidateCert, Trusted
    <3> QED BY <2>1, <3>2 DEF IssueChallenge, ChallengeTrusted, GrantTrusted
  <2> QED BY <1>1, <1>2, <1>9, <2>1 DEF CommunicateCertificate
<1>10. ASSUME NEW proof, VerifyProof(c, proof, t) PROVE Goal
  <2>1. CASE VerifyProofOutcome(proof) = "positive" /\ AcceptProof(CurrentAt(now))
    <3>1. pending_tester_cert # None /\ CertInfo[pending_tester_cert].ec_key
      BY <2>1 DEF VerifyProofOutcome
    <3>2. Trusted(pending_tester_cert, now)
      BY <3>1 DEF Inv, ExchangeInv, PendingCertTrusted
    <3> QED BY <2>1, <3>1, <3>2 DEF AcceptProof, ChallengeTrusted, GrantTrusted
  <2>2. CASE RejectProof
    BY <2>2 DEF RejectProof, ChallengeTrusted, GrantTrusted
  <2> QED BY <1>1, <1>2, <1>10, <2>1, <2>2 DEF VerifyProof
<1>11. CASE MalformedProof(c)
  BY <1>1, <1>2, <1>11 DEF MalformedProof
<1>12. CASE Deauthenticate(c)
  BY <1>1, <1>2, <1>12 DEF Deauthenticate
<1>13. CASE \E level \in AccessLevels : CheckAccess(c, level)
  BY <1>1, <1>3, <1>13 DEF CheckAccess
<1>14. CASE \E n \in 0..drawn : InjectReplayNonce(c, n)
  BY <1>14 DEF InjectReplayNonce, InjectNonce, ChallengeTrusted, GrantTrusted
<1>15. CASE \E service_id \in {16, 39, 62}, payload \in {<<>>, <<1>>, <<3>>, <<3, 0>>} :
              SendUdsPdu(c, service_id, payload, t)
  BY <1>1, <1>4, <1>7, <1>15 DEF SendUdsPdu
<1> QED
  BY <1>4, <1>5, <1>6, <1>7, <1>8, <1>9, <1>10, <1>11, <1>12, <1>13, <1>14, <1>15 DEF Request

\* REQ-020 to REQ-024, REQ-050: only certificates that pass phase 1 get a challenge,
\* and only a certificate that did, with an elliptic-curve key, gets a level.
THEOREM CertsAreTrusted == Spec => TrustedCertsOnly
<1> DEFINE Steps ==
      /\ pending_tester_cert' # None
         /\ <<pending_tester_cert', drawn'>> # <<pending_tester_cert, drawn>>
           => /\ Trusted(pending_tester_cert', now)
              /\ now <= CertInfo[pending_tester_cert'].not_after
              /\ pending_tester_cert' \notin revoked
      /\ auth_granted' # None
         /\ <<auth_granted', used_nonces'>> # <<auth_granted, used_nonces>>
           => /\ pending_tester_cert # None
              /\ Trusted(pending_tester_cert, now)
              /\ CertInfo[pending_tester_cert].ec_key
<1>1. ASSUME Inv, Next PROVE ChallengeTrusted /\ GrantTrusted
  <2>1. CASE \E c \in Clients, t \in Later : Request(c, t)
    BY <1>1, <2>1, RequestTrusted
  <2>2. CASE \E cert \in Certs : Revoke(cert)
    BY <2>2 DEF Revoke, ChallengeTrusted, GrantTrusted
  <2>3. CASE PowerCycle
    BY <2>3 DEF PowerCycle, ChallengeTrusted, GrantTrusted
  <2>4. CASE Tick
    BY <2>4 DEF Tick, authVars, ChallengeTrusted, GrantTrusted
  <2> QED BY <1>1, <2>1, <2>2, <2>3, <2>4 DEF Next
<1>2. Inv /\ [Next]_vars => [Steps]_vars
  BY <1>1 DEF ChallengeTrusted, GrantTrusted
<1> QED BY <1>2, Invariance, PTL DEF Spec, TrustedCertsOnly

----------------------------------------------------------------------------
(* The session, request by request.                                        *)

\* current() is called, or not even that.
Waits ==
    /\ session' = CurrentAt(now') \/ session' = session
    /\ UNCHANGED <<last_activity, session_owner>>

\* The session has run out, and a request notices.
Idles == CurrentAt(now) = DEFAULT /\ session' = DEFAULT

\* From Default the Extended session is entered, by its new owner.
Takes(c) ==
    /\ CurrentAt(now) = DEFAULT
    /\ session' = EXTENDED /\ last_activity' = now' /\ session_owner' = c
    /\ out'.event = "SESSION_START"
    /\ out'.op \notin {"inject_tamper", "power_cycle"}

\* The owner goes on in an elevated session.
Holds(c) ==
    /\ CurrentAt(now) # DEFAULT /\ session_owner = c
    /\ session' \in {PROGRAMMING, EXTENDED} /\ last_activity' = now' /\ session_owner' = c
    /\ out'.op \notin {"inject_tamper", "power_cycle"}

\* The owner, or a tamper event, ends it.
Gives(c) ==
    /\ session' = DEFAULT
    /\ \/ CurrentAt(now) # DEFAULT /\ session_owner = c /\ out'.op \notin {"inject_tamper", "power_cycle"}
       \/ out'.op = "inject_tamper"

SessionStep(c) ==
    /\ Waits \/ Idles \/ Takes(c) \/ Holds(c) \/ Gives(c)
    /\ now' \in Nat /\ now' >= now
    /\ out'.conn = c
    /\ out'.event = "SESSION_START" => session_owner' = c

\* A session that has run out stays so, and one that lives at t lived before.
LEMMA CurrentAtMonotonic ==
    ASSUME SessionTypeOK, NEW t \in Later, CurrentAt(now) = DEFAULT
    PROVE  CurrentAt(t) = DEFAULT
BY SessionAssumption, LaterIsLater DEF SessionTypeOK, CurrentAt

\* Refusals only look at the session.
LEMMA RefuseSession ==
    ASSUME SessionTypeOK, NEW c, NEW op, NEW nrc, NEW t \in Later, Refuse(c, op, nrc, t)
    PROVE  SessionStep(c)
BY ObserveType, EventsAssumption
   DEF Refuse, Observe, ecuVars, Answer, SessionTypeOK, SessionStep, Waits, Events

\* touch() in a handler that only the owner of a live session gets into.
LEMMA TouchSession ==
    ASSUME SessionTypeOK, NEW c, NEW t \in Later, ObserveAndTouch(t),
           CurrentAt(now) # DEFAULT, session_owner = c, session_owner' = c,
           out'.conn = c, out'.op \notin {"inject_tamper", "power_cycle"}
    PROVE  SessionStep(c)
<1>1. now' \in Nat /\ now' >= now /\ last_activity' = now' /\ session' \in Valid \ {DEFAULT}
  BY ObserveAndTouchType, CurrentAtType DEF ObserveAndTouch, SessionTypeOK
<1> QED BY <1>1 DEF SessionStep, Holds, Valid

\* touch() in a 0x27 handler, which has found its session at the end again.
LEMMA TouchCurrentSession ==
    ASSUME SessionTypeOK, NEW c, NEW t \in Later, Enter(CurrentAt(t), t), CurrentAt(t) # DEFAULT,
           CurrentAt(now) # DEFAULT, session_owner = c, session_owner' = c,
           out'.conn = c, out'.op \notin {"inject_tamper", "power_cycle"}
    PROVE  SessionStep(c)
<1>1. now' \in Nat /\ now' >= now /\ last_activity' = now' /\ session' \in Valid \ {DEFAULT}
  BY EnterType, CurrentAtType DEF Enter, SessionTypeOK
<1> QED BY <1>1 DEF SessionStep, Holds, Valid

\* _rpc_session_control
LEMMA SessionControlSession ==
    ASSUME SessionTypeOK, NEW c, NEW target, NEW t \in Later, SessionControl(c, target, t)
    PROVE  SessionStep(c)
<1>1. CASE Refuse(c, "session_control", "0x22", now) \/ Refuse(c, "session_control", "0x22", t)
  BY <1>1, RefuseSession, NowIsLater
<1>2. CASE /\ ~OwnedByOther(c) /\ TransitionAllowed(CurrentAt(t), target) /\ target # DEFAULT
           /\ Enter(target, t) /\ session_owner' = c
           /\ Answer(c, "session_control", "positive", None, "SESSION_START")
  <2>1. now' \in Nat /\ now' >= now /\ last_activity' = now' /\ session' = target
        /\ target \in Valid
    BY <1>2, EnterType DEF TransitionAllowed, Enter, SessionTypeOK
  <2>2. CASE CurrentAt(now) = DEFAULT
    <3>1. target = EXTENDED
      BY <1>2, <2>1, <2>2, CurrentAtMonotonic DEF TransitionAllowed, Valid
    <3> QED BY <1>2, <2>1, <2>2, <3>1 DEF SessionStep, Takes, Answer
  <2>3. CASE CurrentAt(now) # DEFAULT
    BY <1>2, <2>1, <2>3 DEF SessionStep, Holds, Answer, Valid, OwnedByOther
  <2> QED BY <2>2, <2>3
<1>3. CASE /\ ~OwnedByOther(c) /\ Enter(DEFAULT, t)
           /\ Answer(c, "session_control", "positive", None, "SESSION_END")
  <2>1. now' \in Nat /\ now' >= now /\ session' = DEFAULT
    BY <1>3, EnterType DEF Valid, SessionTypeOK
  <2> QED BY <1>3, <2>1 DEF SessionStep, Idles, Gives, Answer, OwnedByOther
<1> QED BY <1>1, <1>2, <1>3 DEF SessionControl

\* _rpc_request_seed
LEMMA RequestSeedSession ==
    ASSUME SessionTypeOK, NEW c, NEW sf, NEW t \in Later, RequestSeed(c, sf, t)
    PROVE  SessionStep(c)
<1>1. CASE \E nrc : Refuse(c, "request_seed", nrc, now) \/ Refuse(c, "request_seed", nrc, t)
  BY <1>1, RefuseSession, NowIsLater
<1>2. CASE /\ ~OwnedByOther(c)
           /\ \E l \in Levels : SeedRequestFits(l, sf, t)
           /\ Enter(CurrentAt(t), t) /\ UNCHANGED session_owner
           /\ Answer(c, "request_seed", "positive", None, None)
  <2>1. CurrentAt(t) # DEFAULT
    BY <1>2 DEF SeedRequestFits, RequiredSession, DEFAULT, EXTENDED, PROGRAMMING
  <2>2. CurrentAt(now) # DEFAULT /\ session_owner = c
    BY <1>2, <2>1, CurrentAtMonotonic DEF OwnedByOther
  <2> QED BY <1>2, <2>1, <2>2, TouchCurrentSession DEF Answer
<1> QED BY <1>1, <1>2 DEF RequestSeed

\* _rpc_send_key
LEMMA SendKeySession ==
    ASSUME SessionTypeOK, NEW c, NEW sf, NEW key, NEW t \in Later, SendKey(c, sf, key, t),
           pending_seeds \subseteq Levels
    PROVE  SessionStep(c)
<1>1. CASE \E nrc : Refuse(c, "send_key", nrc, now) \/ Refuse(c, "send_key", nrc, t)
  BY <1>1, RefuseSession, NowIsLater
<1>2. CASE /\ Observe(t) /\ UNCHANGED ecuVars
           /\ Answer(c, "send_key", "0x35", None, "AUTH_FAILURE")
  BY <1>2, ObserveType DEF Observe, ecuVars, Answer, SessionTypeOK, SessionStep, Waits
<1>3. CASE /\ ~OwnedByOther(c)
           /\ \E l \in pending_seeds :
                KeyFits(l, sf, t) /\ Answer(c, "send_key", "positive", l, "AUTH_SUCCESS")
           /\ Enter(CurrentAt(t), t) /\ UNCHANGED ecuVars
  <2>1. CurrentAt(t) # DEFAULT
    BY <1>3 DEF KeyFits, RequiredSession, DEFAULT, EXTENDED, PROGRAMMING
  <2>2. CurrentAt(now) # DEFAULT /\ session_owner = c
    BY <1>3, <2>1, CurrentAtMonotonic DEF OwnedByOther
  <2> QED BY <1>3, <2>1, <2>2, TouchCurrentSession DEF ecuVars, Answer
<1> QED BY <1>1, <1>2, <1>3 DEF SendKey

\* Every request of connection c is a step of the session on c's behalf.
LEMMA RequestSession ==
    ASSUME Inv, NEW c \in Clients, NEW t \in Later, Request(c, t)
    PROVE  SessionStep(c)
<1>0. SessionTypeOK /\ pending_seeds \subseteq Levels /\ now \in Later
  BY NowIsLater DEF Inv, LimitsInv, SecurityAccessTypeOK
<1> USE EventsAssumption DEF Events
<1> DEFINE Looks(op) ==
      \E u \in {now, t} : Observe(u) /\ out'.op = op /\ out'.conn = c
                         /\ out'.event # "SESSION_START"
<1>1. ASSUME NEW op, Looks(op), UNCHANGED session_owner PROVE SessionStep(c)
  BY <1>0, <1>1, ObserveType DEF Observe, SessionTypeOK, SessionStep, Waits
<1>2. CASE GetSessionState(c, t)
  <2>1. CASE CurrentAt(now) = DEFAULT /\ Observe(now)
    BY <1>0, <1>2, <2>1, ObserveType DEF GetSessionState, Answer, SessionTypeOK, SessionStep, Idles
  <2>2. CASE CurrentAt(now) # DEFAULT /\ session_owner = c /\ ObserveAndTouch(t) /\ UNCHANGED session_owner
    BY <1>0, <1>2, <2>2, TouchSession DEF GetSessionState, Answer
  <2>3. CASE Observe(now) /\ UNCHANGED session_owner
    BY <1>1, <1>2, <2>3 DEF GetSessionState, Answer
  <2> QED BY <1>2, <2>1, <2>2, <2>3 DEF GetSessionState
<1>3. CASE InjectTamper(c, t)
  BY <1>0, <1>3, EnterType DEF InjectTamper, Reset, Answer, Valid, SessionTypeOK, SessionStep, Gives
<1>4. CASE \E cert \in Certs : CommunicateCertificate(c, cert, t)
  BY <1>0, <1>4, RefuseSession, TouchSession DEF CommunicateCertificate, Answer
<1>5. CASE \E proof \in Proofs : proof.data <= drawn /\ VerifyProof(c, proof, t)
  <2>1. PICK proof \in Proofs : VerifyProof(c, proof, t)
    BY <1>5
  <2>2. CASE Observe(now) /\ UNCHANGED ecuVars
             /\ Answer(c, "verify_proof", VerifyProofOutcome(proof), None,
                       IF VerifyProofOutcome(proof) = "error" THEN None ELSE "AUTH_FAILURE")
    BY <1>0, <2>2, ObserveType, ClientsAssumption
       DEF Observe, ecuVars, Answer, SessionTypeOK, SessionStep, Waits
  <2>3. CASE /\ CurrentAt(now) # DEFAULT /\ session_owner = c /\ ObserveAndTouch(t)
             /\ UNCHANGED ecuVars
             /\ Answer(c, "verify_proof", "positive", GrantedBy29(CurrentAt(now)), "AUTH_SUCCESS")
    BY <1>0, <2>3, TouchSession DEF ecuVars, Answer
  <2> QED BY <1>0, <2>1, <2>2, <2>3, RefuseSession DEF VerifyProof
<1>6. CASE MalformedProof(c)
  BY <1>0, <1>6, RefuseSession DEF MalformedProof
<1>7. CASE Deauthenticate(c)
  BY <1>0, <1>1, <1>7, RefuseSession DEF Deauthenticate, Answer, ecuVars
<1>8. CASE \E level \in AccessLevels : CheckAccess(c, level)
  <2>1. CASE CurrentAt(now) = DEFAULT
    BY <1>0, <1>8, <2>1, ObserveType DEF CheckAccess, Answer, SessionTypeOK, SessionStep, Idles
  <2>2. CASE CurrentAt(now) # DEFAULT
    BY <1>1, <1>8, <2>2 DEF CheckAccess, Answer, ecuVars
  <2> QED BY <2>1, <2>2
<1>9. ASSUME UNCHANGED <<sessionVars, ecuVars>>, out'.conn = c, out'.event # "SESSION_START"
      PROVE  SessionStep(c)
  BY <1>0, <1>9 DEF sessionVars, ecuVars, SessionTypeOK, SessionStep, Waits
<1>10. CASE \E n \in 0..drawn : InjectReplayNonce(c, n)
  BY <1>9, <1>10 DEF InjectReplayNonce, Answer
<1>11. CASE \E service_id \in {16, 39, 62}, payload \in {<<>>, <<1>>, <<3>>, <<3, 0>>} :
              SendUdsPdu(c, service_id, payload, t)
  BY <1>0, <1>9, <1>11, SessionControlSession, RequestSeedSession DEF SendUdsPdu, Answer
<1> QED
  BY <1>0, <1>2, <1>3, <1>4, <1>5, <1>6, <1>7, <1>8, <1>10, <1>11, SessionControlSession,
     RequestSeedSession, SendKeySession DEF Request
============================================================================
