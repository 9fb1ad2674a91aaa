--------------------------- MODULE MCVirtualECU ---------------------------
(***************************************************************************)
(* Values for VirtualECU's constants: the certificates the 0x29 tests use. *)
(***************************************************************************)
EXTENDS ECURefinement

Sound == [parses |-> TRUE, not_before |-> 0, not_after |-> MaxTime,
          issuer_matches |-> TRUE, signed_by_root |-> TRUE, ec_key |-> TRUE]

\* "tester" is sound; each of the others differs from it in one respect.
CertFacts ==
    [tester    |-> Sound,
     garbage   |-> [Sound EXCEPT !.parses = FALSE],
     expired   |-> [Sound EXCEPT !.not_after = 1],
     future    |-> [Sound EXCEPT !.not_before = 2],
     stranger  |-> [Sound EXCEPT !.issuer_matches = FALSE],
     forged    |-> [Sound EXCEPT !.signed_by_root = FALSE],
     rsa       |-> [Sound EXCEPT !.ec_key = FALSE]]

\* out only records the last step: no guard reads it, and the properties read it
\* only primed, so states that differ in it alone are one state to TLC.
WithoutOut == <<sessionVars, saVars, authVars, ecuVars>>

MCCertInfo == [c \in Certs |-> CertFacts[c]]
============================================================================
