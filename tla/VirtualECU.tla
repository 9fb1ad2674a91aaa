---------------------------- MODULE VirtualECU ----------------------------
(***************************************************************************)
(* VirtualECU (sim/core/ecu.py): the RPC handlers over the session state   *)
(* machine, the 0x27 and the 0x29 handlers.  Every handler runs under one  *)
(* lock, so it is one action; connections interleave between handlers, and *)
(* the clock may move inside one (from now to t).                          *)
(*                                                                         *)
(* out is what the last step showed the outside: the operation, the        *)
(* connection it served, the result ("positive", an NRC, "granted",        *)
(* "denied", or "error" for a JSON-RPC error), the access level it names,  *)
(* and the event type of the audit entry it emitted.                       *)
(***************************************************************************)
EXTENDS SecurityAccess, Authentication, Sequences

CONSTANT Clients    \* connection ids, get_current_conn_id()

VARIABLES
    session_owner,      \* _session_owner
    auth_mechanism,     \* _auth_mechanism
    out

ecuVars == <<session_owner, auth_mechanism>>
vars == <<sessionVars, saVars, authVars, ecuVars, out>>

ASSUME ClientsAssumption == None \notin Clients /\ None \notin {"0x27", "0x29"}

AccessLevels == {"READ_ONLY", "CALIBRATION", "ECU_PROGRAMMING", "ENGINEERING", "FULL_ACCESS"}
Requests == 0..3            \* session bytes; 0 stands for every invalid one

Answer(c, op, result, level, event) ==
    out' = [op |-> op, conn |-> c, result |-> result, level |-> level, event |-> event]

\* A request answered with an NRC (or an error) that only checked the timeout.
Refuse(c, op, nrc, t) ==
    /\ Observe(t)
    /\ UNCHANGED <<saVars, authVars, ecuVars>>
    /\ Answer(c, op, nrc, None, None)

\* A plausible bug: any connection passes once the session has an owner.
OwnedByOtherUnset(c) == CurrentAt(now) # DEFAULT /\ session_owner = None /\ c \in Clients

\* The session is elevated and another connection owns it (REQ-007).
OwnedByOther(c) == CurrentAt(now) # DEFAULT /\ session_owner # c

\* A plausible bug: the 0x29 handler is not cleared.
ClearAccessLevelsOnly27 ==
    /\ ClearAccess27
    /\ UNCHANGED authVars
    /\ session_owner' = None
    /\ auth_mechanism' = None

ClearAccessLevels ==
    /\ ClearAccess27
    /\ ClearAccess29
    /\ session_owner' = None
    /\ auth_mechanism' = None

IsAccessGranted(level, s) ==
    \/ level = "READ_ONLY"
    \/ level = "CALIBRATION"     /\ s = EXTENDED    /\ sa_granted = level
    \/ level = "ECU_PROGRAMMING" /\ s = PROGRAMMING /\ sa_granted = level
    \/ level = "ENGINEERING"     /\ s = EXTENDED    /\ auth_granted = level
    \/ level = "FULL_ACCESS"     /\ s = PROGRAMMING /\ auth_granted = level

----------------------------------------------------------------------------
\* start() on a new VirtualECU, with a new certificate store.
Init ==
    /\ SessionInit
    /\ SecurityAccessInit
    /\ AuthenticationInit
    /\ session_owner = None
    /\ auth_mechanism = None
    /\ out = [op |-> "start", conn |-> None, result |-> "positive", level |-> None, event |-> None]

\* _rpc_session_control
SessionControl(c, target, t) ==
    \/ /\ OwnedByOther(c)
       /\ Refuse(c, "session_control", "0x22", now)
    \/ /\ ~OwnedByOther(c)
       /\ ~TransitionAllowed(CurrentAt(t), target)
       /\ Refuse(c, "session_control", "0x22", t)
    \/ /\ ~OwnedByOther(c)
       /\ TransitionAllowed(CurrentAt(t), target)
       /\ target # DEFAULT
       /\ Enter(target, t)
       /\ session_owner' = c
       /\ UNCHANGED <<saVars, authVars, auth_mechanism>>
       /\ Answer(c, "session_control", "positive", None, "SESSION_START")
    \/ /\ ~OwnedByOther(c)
       /\ TransitionAllowed(CurrentAt(t), target)
       /\ target = DEFAULT
       /\ Enter(target, t)
       /\ ClearAccessLevels
       /\ Answer(c, "session_control", "positive", None, "SESSION_END")

\* A plausible bug: the owner is forgotten whoever asks.
GetSessionStateForgets(c, t) ==
    /\ IF CurrentAt(now) # DEFAULT /\ session_owner = c
       THEN ObserveAndTouch(t) /\ UNCHANGED session_owner
       ELSE Observe(now) /\ session_owner' = None
    /\ UNCHANGED <<saVars, authVars, auth_mechanism>>
    /\ Answer(c, "get_session_state", "positive", None, None)

\* _rpc_get_session_state: keeps the owner's session alive, and forgets the
\* owner (but no access level) once the session is seen to be Default.
GetSessionState(c, t) ==
    /\ \/ /\ CurrentAt(now) = DEFAULT
          /\ Observe(now)
          /\ session_owner' = None
       \/ /\ CurrentAt(now) # DEFAULT /\ session_owner = c
          /\ ObserveAndTouch(t)
          /\ UNCHANGED session_owner
       \/ /\ OwnedByOther(c)
          /\ Observe(now)
          /\ UNCHANGED session_owner
    /\ UNCHANGED <<saVars, authVars, auth_mechanism>>
    /\ Answer(c, "get_session_state", "positive", None, None)

\* _rpc_inject_tamper, from any connection.
InjectTamper(c, t) ==
    /\ Reset(t)
    /\ ClearAccessLevels
    /\ Answer(c, "inject_tamper", "positive", None, "SESSION_TAMPER_RESET")

\* _rpc_request_seed
RequestSeed(c, sf, t) ==
    \/ /\ OwnedByOther(c)
       /\ Refuse(c, "request_seed", "0x22", now)
    \/ /\ ~OwnedByOther(c)
       /\ auth_mechanism = "0x29"
       /\ Refuse(c, "request_seed", "0x24", now)
    \/ /\ ~OwnedByOther(c)
       /\ auth_mechanism # "0x29"
       /\ \A l \in Levels : ~SeedRequestFits(l, sf, t)
       /\ Refuse(c, "request_seed", "0x22", t)
    \/ /\ ~OwnedByOther(c)
       /\ auth_mechanism # "0x29"
       /\ \E l \in Levels :
            /\ SeedRequestFits(l, sf, t)
            /\ CheckRateLimit(l, t) # "positive"
            /\ Refuse(c, "request_seed", CheckRateLimit(l, t), t)
    \/ /\ ~OwnedByOther(c)
       /\ auth_mechanism # "0x29"
       /\ \E l \in Levels :
            /\ SeedRequestFits(l, sf, t)
            /\ CheckRateLimit(l, t) = "positive"
            /\ IssueSeed(l)
       /\ Enter(CurrentAt(t), t)
       /\ auth_mechanism' = "0x27"
       /\ UNCHANGED <<authVars, session_owner>>
       /\ Answer(c, "request_seed", "positive", None, None)

\* _rpc_send_key
SendKey(c, sf, key, t) ==
    \/ /\ OwnedByOther(c)
       /\ Refuse(c, "send_key", "0x22", now)
    \/ /\ ~OwnedByOther(c)
       /\ key = "malformed"
       /\ Refuse(c, "send_key", "error", now)
    \/ /\ ~OwnedByOther(c)
       /\ key # "malformed"
       /\ \A l \in Levels : ~KeyFits(l, sf, t)
       /\ Refuse(c, "send_key", "0x22", t)
    \/ /\ ~OwnedByOther(c)
       /\ key # "malformed"
       /\ \E l \in Levels \ pending_seeds : KeyFits(l, sf, t)
       /\ Refuse(c, "send_key", "0x24", t)
    \/ /\ ~OwnedByOther(c)
       /\ key = "wrong"
       /\ \E l \in pending_seeds : KeyFits(l, sf, t) /\ RejectKey(l, t)
       /\ Observe(t)
       /\ UNCHANGED <<authVars, ecuVars>>
       /\ Answer(c, "send_key", "0x35", None, "AUTH_FAILURE")
    \/ /\ ~OwnedByOther(c)
       /\ key = "right"
       /\ \E l \in pending_seeds :
            /\ KeyFits(l, sf, t)
            /\ AcceptKey(l)
            /\ Answer(c, "send_key", "positive", l, "AUTH_SUCCESS")
       /\ Enter(CurrentAt(t), t)
       /\ UNCHANGED <<authVars, ecuVars>>

\* _rpc_communicate_certificate
CommunicateCertificate(c, cert, t) ==
    \/ /\ OwnedByOther(c) \/ CurrentAt(now) = DEFAULT
       /\ Refuse(c, "communicate_certificate", "0x22", now)
    \/ /\ CurrentAt(now) # DEFAULT /\ session_owner = c
       /\ auth_mechanism = "0x27"
       /\ Refuse(c, "communicate_certificate", "0x24", now)
    \/ /\ CurrentAt(now) # DEFAULT /\ session_owner = c
       /\ auth_mechanism # "0x27"
       /\ ValidateCert(cert, now) # "positive"
       /\ Refuse(c, "communicate_certificate", ValidateCert(cert, now), now)
    \/ /\ CurrentAt(now) # DEFAULT /\ session_owner = c
       /\ auth_mechanism # "0x27"
       /\ ValidateCert(cert, now) = "positive"
       /\ ObserveAndTouch(t)
       /\ IssueChallenge(cert)
       /\ auth_mechanism' = "0x29"
       /\ UNCHANGED <<saVars, session_owner>>
       /\ Answer(c, "communicate_certificate", "positive", None, None)

\* _rpc_verify_proof; a proof that is no byte string raises before the check.
VerifyProof(c, proof, t) ==
    \/ /\ OwnedByOther(c) \/ CurrentAt(now) = DEFAULT
       /\ Refuse(c, "verify_proof", "0x22", now)
    \/ /\ CurrentAt(now) # DEFAULT /\ session_owner = c
       /\ VerifyProofOutcome(proof) = "positive"
       /\ ObserveAndTouch(t)
       /\ AcceptProof(CurrentAt(now))
       /\ UNCHANGED <<saVars, ecuVars>>
       /\ Answer(c, "verify_proof", "positive", GrantedBy29(CurrentAt(now)), "AUTH_SUCCESS")
    \/ /\ CurrentAt(now) # DEFAULT /\ session_owner = c
       /\ VerifyProofOutcome(proof) # "positive"
       /\ Observe(now)
       /\ RejectProof
       /\ UNCHANGED <<saVars, ecuVars>>
       /\ Answer(c, "verify_proof", VerifyProofOutcome(proof), None,
                 IF VerifyProofOutcome(proof) = "error" THEN None ELSE "AUTH_FAILURE")

MalformedProof(c) ==
    /\ CurrentAt(now) # DEFAULT /\ session_owner = c
    /\ Refuse(c, "verify_proof", "error", now)

\* _rpc_deauthenticate: positive in every session its caller may use.
Deauthenticate(c) ==
    \/ /\ OwnedByOther(c)
       /\ Refuse(c, "deauthenticate", "0x22", now)
    \/ /\ ~OwnedByOther(c)
       /\ Observe(now)
       /\ ClearAccess29
       /\ UNCHANGED <<saVars, ecuVars>>
       /\ Answer(c, "deauthenticate", "positive", None, None)

\* _rpc_check_access, from any connection.
CheckAccess(c, level) ==
    /\ Observe(now)
    /\ IF CurrentAt(now) = DEFAULT THEN ClearAccessLevels
       ELSE UNCHANGED <<saVars, authVars, ecuVars>>
    /\ Answer(c, "check_access",
              IF IsAccessGranted(level, CurrentAt(now)) THEN "granted" ELSE "denied", level, None)

\* _rpc_inject_replay_nonce, from any connection, with any bytes.
InjectReplayNonce(c, n) ==
    /\ InjectNonce(n)
    /\ UNCHANGED <<sessionVars, saVars, ecuVars>>
    /\ Answer(c, "inject_replay_nonce", "positive", None, None)

\* _rpc_send_uds_pdu: a well-formed PDU is the typed request, any other is 0x13.
SendUdsPdu(c, service_id, payload, t) ==
    \/ service_id = 16 /\ Len(payload) = 1 /\ SessionControl(c, Head(payload), t)
    \/ service_id = 39 /\ Len(payload) >= 1 /\ RequestSeed(c, Head(payload), t)
    \/ /\ ~(service_id = 16 /\ Len(payload) = 1) /\ ~(service_id = 39 /\ Len(payload) >= 1)
       /\ UNCHANGED <<sessionVars, saVars, authVars, ecuVars>>
       /\ Answer(c, "send_uds_pdu", "0x13", None, None)

\* Outside the ECU: the store's owner puts a certificate on the CRL.
Revoke(cert) ==
    /\ revoked' = revoked \cup {cert}
    /\ UNCHANGED <<sessionVars, saVars, ecuVars, pending_challenge, pending_tester_cert,
                   auth_granted, used_nonces, drawn>>
    /\ Answer(None, "add_revoked_thumbprint", "positive", None, None)

\* boot(): the ECU is stopped and another one started with new certificates.
\* Only the clock goes on; the old challenges become bytes never drawn.
PowerCycle ==
    /\ Reset(now)
    /\ pending_seeds' = {} /\ sa_granted' = None
    /\ attempt_counters' = [l \in Levels |-> 0]
    /\ lockout_until' = [l \in Levels |-> None]
    /\ last_fail_at' = [l \in Levels |-> None]
    /\ pending_challenge' = None /\ pending_tester_cert' = None /\ auth_granted' = None
    /\ used_nonces' = {} /\ drawn' = 0 /\ revoked' = {}
    /\ session_owner' = None /\ auth_mechanism' = None
    /\ Answer(None, "power_cycle", "positive", None, None)

\* No request is being served while time passes.
Tick ==
    /\ AdvanceClock
    /\ UNCHANGED <<saVars, authVars, ecuVars, out>>

\* One request of connection c, over the typed RPC methods or as a raw PDU.
Request(c, t) ==
    \/ \E target \in Requests : SessionControl(c, target, t)
    \/ GetSessionState(c, t)
    \/ InjectTamper(c, t)
    \/ \E sf \in Subfunctions : RequestSeed(c, sf, t)
    \/ \E sf \in Subfunctions, key \in Keys : SendKey(c, sf, key, t)
    \/ \E cert \in Certs : CommunicateCertificate(c, cert, t)
    \/ \E proof \in Proofs : proof.data <= drawn /\ VerifyProof(c, proof, t)
    \/ MalformedProof(c)
    \/ Deauthenticate(c)
    \/ \E level \in AccessLevels : CheckAccess(c, level)
    \/ \E n \in 0..drawn : InjectReplayNonce(c, n)
    \/ \E service_id \in {16, 39, 62}, payload \in {<<>>, <<1>>, <<3>>, <<3, 0>>} :
            SendUdsPdu(c, service_id, payload, t)

Next ==
    \/ \E c \in Clients, t \in Later : Request(c, t)
    \/ \E cert \in Certs : Revoke(cert)
    \/ PowerCycle
    \/ Tick

Spec == Init /\ [][Next]_vars

----------------------------------------------------------------------------
Results == {"positive", "granted", "denied", "error", "0x13", "0x22", "0x24", "0x35", "0x36",
            "0x37", "0x73", "0x74", "0x75", "0x76", "0x78"}
Events == {"SESSION_START", "SESSION_END", "SESSION_TAMPER_RESET", "AUTH_SUCCESS", "AUTH_FAILURE"}

ASSUME EventsAssumption == None \notin Events

Ops == {"start", "session_control", "get_session_state", "inject_tamper", "request_seed", "send_key",
        "communicate_certificate", "verify_proof", "deauthenticate", "check_access",
        "inject_replay_nonce", "send_uds_pdu", "add_revoked_thumbprint", "power_cycle"}
Outputs == [op : Ops, conn : Clients \cup {None}, result : Results,
            level : AccessLevels \cup {None}, event : Events \cup {None}]

\* Every component's state has its type; in particular no attempt counter ever
\* passes max_auth_attempts, although send_key checks no limit before it counts.
TypeOK ==
    /\ SessionTypeOK
    /\ SecurityAccessTypeOK
    /\ AuthenticationTypeOK
    /\ session_owner \in Clients \cup {None}
    /\ auth_mechanism \in {"0x27", "0x29", None}
    /\ out \in Outputs

\* REQ-037: a level is in lockout (running, or expired and not yet noticed)
\* exactly when its counter has reached the maximum, so that the lazy expiry in
\* _check_rate_limit, the reset in _record_success and the increment in
\* _record_failure never leave one without the other.
LockoutIffMaxed ==
    \A l \in Levels : (attempt_counters[l] = MaxAttempts) <=> (lockout_until[l] # None)

\* REQ-037, REQ-038: send_key checks neither the lockout nor the delay, and need
\* not: while a level has a pending seed it is in no lockout and the delay since
\* its last failure has elapsed, whichever sessions were entered in between.
NoSeedWhileBlocked ==
    \A l \in pending_seeds :
        /\ lockout_until[l] = None
        /\ last_fail_at[l] # None => now - last_fail_at[l] >= RequiredDelay

\* REQ-045: whatever 0x27 or 0x29 holds (a pending seed, a validated certificate,
\* a granted level) is there only while the mechanism lock names that service,
\* so the two are never both under way, whatever the order of resets, timeouts
\* and ownership changes.
ExclusiveMechanism ==
    /\ pending_seeds # {} \/ sa_granted # None => auth_mechanism = "0x27"
    /\ pending_tester_cert # None \/ auth_granted # None => auth_mechanism = "0x29"

\* REQ-007: an elevated session always has an owner; get_session_state forgets
\* the owner only after the timeout has taken the session back to Default.
OwnedWhileElevated == session # DEFAULT => session_owner # None

\* REQ-041: failed attempts are forgiven only by a right key for that level, by
\* a lockout that has run its full time, or by a power cycle; never by
\* a session change, a tamper reset, a timeout or another level's success.
LockoutServed ==
    [][\A l \in Levels :
         \/ attempt_counters'[l] >= attempt_counters[l] /\ lockout_until'[l] = lockout_until[l]
         \/ attempt_counters'[l] = MaxAttempts /\ lockout_until'[l] = now' + LockoutDuration
         \/ lockout_until[l] # None /\ now' >= lockout_until[l]
         \/ out'.op = "send_key" /\ out'.result = "positive" /\ out'.level = l
         \/ out'.op = "power_cycle"]_vars

\* REQ-038: a failure is counted at the earliest RequiredDelay after the last one.
FailuresSpaced ==
    [][\A l \in Levels :
         attempt_counters'[l] > attempt_counters[l] /\ last_fail_at[l] # None
            => now' - last_fail_at[l] >= RequiredDelay]_vars

\* REQ-007: while one connection holds a live elevated session, no request of
\* another connection changes anything but the clock: not the session, its timer
\* or owner, the mechanism lock, a seed, a counter, a challenge or a grant.  (The
\* simulation-only injections and a power cycle serve anybody.)
OwnerIsolation ==
    [][CurrentAt(now) # DEFAULT /\ out'.conn \notin {session_owner, None}
       /\ out'.op \notin {"inject_tamper", "inject_replay_nonce"}
         => UNCHANGED <<session, last_activity, saVars, authVars, ecuVars>>]_vars

\* REQ-046: a proof is accepted only for a challenge that no accepted proof has
\* answered since the power cycle, and is then remembered, even when the
\* pending challenge was overwritten or the session has changed since.
NonceSingleUse ==
    [][/\ out'.op = "verify_proof" /\ out'.result = "positive" /\ pending_challenge # None
            => pending_challenge \in used_nonces' \ used_nonces
       /\ used_nonces \subseteq used_nonces' \/ out'.op = "power_cycle"]_vars

\* The certificate parses, was issued and signed by the root, and has begun.
Trusted(cert, t) ==
    LET info == CertInfo[cert]
    IN  info.parses /\ info.issuer_matches /\ info.signed_by_root /\ info.not_before <= t

\* REQ-020 to REQ-024, REQ-050: whatever is injected, overwritten or reset between
\* the two phases, a certificate gets a challenge only while it is trusted, not
\* expired and not revoked, and 0x29 grants a level only for a certificate that
\* is still pending, is trusted and has an elliptic-curve key.
TrustedCertsOnly ==
    [][/\ pending_tester_cert' # None
          /\ <<pending_tester_cert', drawn'>> # <<pending_tester_cert, drawn>>
            => /\ Trusted(pending_tester_cert', now)
               /\ now <= CertInfo[pending_tester_cert'].not_after
               /\ pending_tester_cert' \notin revoked
       /\ auth_granted' # None
          /\ <<auth_granted', used_nonces'>> # <<auth_granted, used_nonces>>
            => /\ pending_tester_cert # None
               /\ Trusted(pending_tester_cert, now)
               /\ CertInfo[pending_tester_cert].ec_key]_vars
============================================================================
