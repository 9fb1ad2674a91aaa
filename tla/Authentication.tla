--------------------------- MODULE Authentication ---------------------------
(***************************************************************************)
(* AuthenticationHandler (sim/core/authentication.py): UDS 0x29, a         *)
(* certificate exchange that issues a challenge and a proof of possession  *)
(* that answers it.  The certificate store (sim/hal/cert_store_sim.py)     *)
(* contributes the revocation list, the crypto backend                     *)
(* (sim/hal/crypto_backend.py) fresh random challenges and the checks.     *)
(*                                                                         *)
(* A certificate is what its validation can tell about it, CertInfo.  A    *)
(* proof is the certificate whose private key made it and the bytes that   *)
(* were signed.  A challenge is the number of its draw; 0 stands for any   *)
(* bytes the ECU never drew (they can only be injected).                   *)
(***************************************************************************)
EXTENDS Session

CONSTANTS
    Certs,      \* the PEM texts testers send
    CertInfo,   \* what they contain
    MaxDraws    \* bound on the challenges drawn

VARIABLES
    pending_challenge,
    pending_tester_cert,
    auth_granted,       \* _granted_access_level of the 0x29 handler
    used_nonces,
    drawn,              \* number of challenges drawn so far
    revoked             \* CertStore._revoked

authVars == <<pending_challenge, pending_tester_cert, auth_granted, used_nonces, drawn, revoked>>

Nonces == 0..MaxDraws

ASSUME AuthenticationAssumption ==
    /\ MaxDraws \in Nat
    /\ None \notin Certs
    /\ None \notin {"ENGINEERING", "FULL_ACCESS"}
    /\ CertInfo \in [Certs -> [parses : BOOLEAN, not_before : Nat, not_after : Nat,
                               issuer_matches : BOOLEAN, signed_by_root : BOOLEAN,
                               ec_key : BOOLEAN]]

Proofs == [signer : Certs, data : Nonces]

----------------------------------------------------------------------------
AuthenticationInit ==
    /\ pending_challenge = None
    /\ pending_tester_cert = None
    /\ auth_granted = None
    /\ used_nonces = {}
    /\ drawn = 0
    /\ revoked = {}

\* A plausible bug: notBefore is checked and notAfter is not.
ValidateCertExpired(cert, t) ==
    LET info == CertInfo[cert]
    IN  IF ~info.parses THEN "0x73"
        ELSE IF t < info.not_before THEN "0x75"
        ELSE IF ~info.issuer_matches THEN "0x78"
        ELSE IF ~info.signed_by_root THEN "0x76"
        ELSE IF cert \in revoked THEN "0x74"
        ELSE "positive"

\* _validate_cert: the five checks, the first that fails names the NRC.
ValidateCert(cert, t) ==
    LET info == CertInfo[cert]
    IN  IF ~info.parses THEN "0x73"
        ELSE IF t < info.not_before \/ t > info.not_after THEN "0x75"
        ELSE IF ~info.issuer_matches THEN "0x78"
        ELSE IF ~info.signed_by_root THEN "0x76"
        ELSE IF cert \in revoked THEN "0x74"
        ELSE "positive"

\* generate_seed: fresh bytes, never drawn before.
DrawChallenge ==
    /\ drawn < MaxDraws
    /\ drawn' = drawn + 1
    /\ pending_challenge' = drawn + 1

\* communicate_certificate, once the certificate is validated.
IssueChallenge(cert) ==
    /\ DrawChallenge
    /\ pending_tester_cert' = cert
    /\ UNCHANGED <<auth_granted, used_nonces, revoked>>

\* A plausible bug: no nonce history is consulted.
VerifyProofOutcomeNoHistory(proof) ==
    IF pending_challenge = None \/ pending_tester_cert = None THEN "0x24"
    ELSE IF ~CertInfo[pending_tester_cert].ec_key THEN "error"
    ELSE IF proof = [signer |-> pending_tester_cert, data |-> pending_challenge]
         THEN "positive" ELSE "0x76"

\* verify_proof: "positive", an NRC, or "error" when the certificate's key is
\* not an elliptic-curve key and the signature check itself raises.
VerifyProofOutcome(proof) ==
    IF pending_challenge = None \/ pending_tester_cert = None THEN "0x24"
    ELSE IF pending_challenge \in used_nonces THEN "0x24"
    ELSE IF ~CertInfo[pending_tester_cert].ec_key THEN "error"
    ELSE IF proof = [signer |-> pending_tester_cert, data |-> pending_challenge]
         THEN "positive" ELSE "0x76"

GrantedBy29(s) == IF s = PROGRAMMING THEN "FULL_ACCESS" ELSE "ENGINEERING"

\* verify_proof succeeds in session s.
AcceptProof(s) ==
    /\ used_nonces' = used_nonces \cup {pending_challenge}
    /\ auth_granted' = GrantedBy29(s)
    /\ pending_challenge' = None
    /\ pending_tester_cert' = None
    /\ UNCHANGED <<drawn, revoked>>

\* verify_proof fails: the exchange is over unless there was none to consume.
RejectProof ==
    /\ IF pending_challenge = None \/ pending_tester_cert = None
       THEN UNCHANGED <<pending_challenge, pending_tester_cert>>
       ELSE pending_challenge' = None /\ pending_tester_cert' = None
    /\ UNCHANGED <<auth_granted, used_nonces, drawn, revoked>>

\* clear_access and deauthenticate.
ClearAccess29 ==
    /\ auth_granted' = None
    /\ pending_challenge' = None
    /\ pending_tester_cert' = None
    /\ UNCHANGED <<used_nonces, drawn, revoked>>

\* inject_pending_nonce_for_test
InjectNonce(n) ==
    /\ pending_challenge' = n
    /\ UNCHANGED <<pending_tester_cert, auth_granted, used_nonces, drawn, revoked>>

AuthenticationTypeOK ==
    /\ pending_challenge \in Nonces \cup {None}
    /\ pending_tester_cert \in Certs \cup {None}
    /\ auth_granted \in {"ENGINEERING", "FULL_ACCESS", None}
    /\ used_nonces \subseteq Nonces
    /\ drawn \in Nonces
    /\ revoked \subseteq Certs
============================================================================
