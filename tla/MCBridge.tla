----------------------------- MODULE MCBridge -----------------------------
(***************************************************************************)
(* Values for Bridge's constants.                                          *)
(***************************************************************************)
EXTENDS Bridge, MCVirtualECU

Command(name, arg) == [name |-> name, arg |-> arg]
SessionCommands == {Command("session", s) : s \in Valid}
SeedCommands == {Command("0x27_seed", l) : l \in Levels}
KeyCommands == {Command("0x27_key", [level |-> l, key |-> k]) : l \in Levels, k \in Keys}
WrongKeyCommands == {Command("inject_wrong_key", l) : l \in Levels}
PlainCommands == {Command(n, None) : n \in {"snapshot", "0x29_auth", "0x29_deauth", "inject_tamper",
                  "inject_expired_cert", "inject_replay_nonce", "power_cycle"}}
AllCommands == SessionCommands \cup SeedCommands \cup KeyCommands \cup WrongKeyCommands
               \cup PlainCommands
RaceCommands == {Command("session", EXTENDED), Command("0x29_auth", None),
                 Command("0x29_deauth", None)}
PageCommands == WrongKeyCommands \cup {Command("session", EXTENDED)}

\* A page that was connected before the bridge was last started.
OldPages == {[session |-> EXTENDED, access |-> None, attempts |-> [l \in Levels |-> 1]]}

\* inject_expired_cert makes a certificate that is never within its validity
\* period: the check fails as it does before the period.
BridgeCertInfo == [c \in Certs |-> IF c = "expired" THEN [Sound EXCEPT !.not_before = MaxTime + 1]
                                   ELSE CertFacts[c]]

\* As in MCVirtualECU: out is read only primed.
BridgeWithoutOut == <<WithoutOut, stateVars, pageVars, todo, running, entries>>
============================================================================
