# A TLA+ model of the SecureAccess virtual ECU

The repository simulates an automotive ECU that guards its services with UDS diagnostic sessions
(0x10), seed/key access (0x27) and certificate authentication (0x29), and a dashboard that drives it.
This directory holds TLA+ modules that model the ECU's core, its audit log, the RPC transport and the
dashboard's bridge, TLC configurations that check them on small instances, and
TLAPS proofs that the safety properties hold for every instance.

## The system

| Component | State | Operations | Talks to |
|---|---|---|---|
| `SessionStateMachine` (`sim/core/session.py`) | session, last activity | `current`, `transition`, `touch`, `reset`; lazy timeout | called by all handlers |
| `SecurityAccessHandler` (`sim/core/security_access.py`) | pending seeds, granted level; per level: attempt counter, lockout end, last failure | `request_seed`, `send_key`, `clear_access` | session machine, crypto backend |
| `AuthenticationHandler` (`sim/core/authentication.py`) | pending challenge and certificate, granted level, used nonces | `communicate_certificate`, `verify_proof`, `deauthenticate`, `clear_access`, nonce injection | session machine, certificate store, crypto backend |
| `VirtualECU` (`sim/core/ecu.py`) | session owner, mechanism lock | 15 RPC methods, each under one lock | all of the above, audit logger |
| `AuditLogger` (`sim/core/audit_logger.py`) | entries, last hash | `emit`, `entries`, `verify_chain` | called by `VirtualECU` |
| `CertStore`, `crypto_backend` (`sim/hal/`) | revocation list | certificate checks, random bytes, HMAC, ECDSA | called by the handlers |
| RPC transport (`sim/protocol/rpc.py`, `client.py`) | clients: lock, next id, socket timeout; server: one thread per connection, connection ids | connect, `call`, disconnect; dispatch | calls `VirtualECU` |
| Dashboard bridge (`sim/protocol/uds_server.py`) | one ECU, one client, WebSocket set, command lock, last seed | commands, pushes, a periodic task, power cycle | RPC client of the ECU; WebSockets to the pages |
| Dashboard page (`gui/secure_access_monitor.html`) | badges, message and audit tables | commands, rendering, reconnect | the bridge |

What is hard to get right, and hard to test:

- **Lazy expiry.** Nothing happens when a session or a lockout runs out. The next request that looks
  notices it, so the stored state is often that of a session or lockout that is over.
- **Limits checked in one place, needed in another.** `send_key` counts failures without checking
  lockout or delay; only `request_seed` does. That is right only if a pending seed implies that the
  level is open.
- **Several connections.** Any of them may come between two requests of the session's owner.
- **Partial cleanup.** `_clear_access_levels`, `get_session_state`, `deauthenticate` and the
  handlers' own `clear_access` each reset a different part of the state.
- **Two-phase exchanges** whose phases may run in different sessions, at different times, with a
  challenge overwritten in between.
- **Clock readings.** One handler reads the clock several times.
- **Identity by address.** A connection is known by `id(conn)`, which Python reuses after its thread ends.
- **Answers without ids.** A client takes the next line for its answer: late answers and other threads'
  answers must be kept out by the lock and by the file object that refuses to be read after a timeout.
- **Awaits.** The bridge's tasks give way at every send: commands, connects and the periodic push
  interleave on one connection to the ECU, and pages get broadcasts in different orders.
- **Failures half way.** A call may raise in the middle of a command, a page may close in the middle of
  a broadcast.

`PROJECT.json` lists these hazards at their lines, with the properties that cover them.

## The modules

| Module | Models |
|---|---|
| `Session` | the session machine; the clock `now`; `CurrentAt(t)` is what `current()` at time `t` returns and stores |
| `SecurityAccess` | the 0x27 handler's operations on its own state |
| `Authentication` | the 0x29 handler's operations, the revocation list |
| `VirtualECU` | composes the three; one action per RPC method, plus `Revoke`, `PowerCycle`, `Tick`; the specification and its properties |
| `AttemptLimiter`, `SessionLease` | abstract specifications: what the rate limits promise a level's secret, what the session promises its owner |
| `ECURefinement` | the refinement mappings from `VirtualECU` to the two |
| `AuditLogger` | `emit` in two halves, the hash chain, `verify_chain` |
| `Transport` | composes `VirtualECU` and `AuditLogger` behind the RPC server: connections, ids, threads, timeouts |
| `Bridge` | composes `VirtualECU` with the dashboard bridge and what the pages show |
| `Claims`, `BridgeClaims` | statements of the tests, comments and manual that the code does not keep |
| `MCVirtualECU`, `MCClaims`, `MCTransport`, `MCBridge`, `MCBridgeClaims` | values of the constants for TLC |
| `VirtualECU_proofs` | TLAPS proofs of the ECU's invariants, of `OwnerIsolation`, `NonceSingleUse` and `TrustedCertsOnly` |
| `ECURefinement_proofs` | TLAPS proofs of the rate limits' action properties and of the refinements of `AttemptLimiter` and `SessionLease` |
| `AuditLogger_proofs` | TLAPS proofs about the hash chain, for logs of any length |
| `Transport_proofs`, `Bridge_proofs` | TLAPS proofs that each of the two implements `VirtualECU`, and of their safety properties |
| `SequenceLemmas` | facts about sequences and the sets of their elements that the proofs share |

How state and code correspond:

- Every handler runs under `VirtualECU._lock`, so it is one action. Requests of different connections
  interleave freely. Time may pass inside a handler: its first clock reading is `now`, its later ones
  are taken at one `t` in `Later`, at most `MaxLag` later. `MaxLag < Timeout` (an assumption of
  `Session`) says that a session does not expire while the request that enters it is being served.
- A seed is fresh and random, and a key is right when it answers the seed pending for its level. So
  `pending_seeds` is a set of levels, and a key is `"right"`, `"wrong"` or `"malformed"` (not a byte
  string: the handler raises and the client gets an RPC error).
- A certificate is what its validation can find out about it (`CertInfo`); a proof is the signer and
  the signed bytes; a challenge is the number of its draw, and 0 stands for any bytes the ECU did not
  draw. The wall clock that validity periods are compared with is `now` as well.
- `out` records the last answer and the type of the audit entry it emitted. No guard reads it.
- A malformed certificate, an RSA certificate, unknown session bytes and subfunctions, and PDUs of
  the wrong length are inputs of the model. The `get_*` methods that only read are not actions.
- `PowerCycle` is the bridge's `boot()`: a new ECU with a new certificate store. A certificate name
  then stands for the corresponding certificate of the new store.
- In `Transport` a connection is its number and its id a member of `Clients`; a new connection gets any
  id no living thread has. A message is its JSON-RPC id, and which method it calls is chosen when it
  is served. A handler that logs is two actions: `Handle` up to the point where `emit` has built the
  entry, `Emit` that links it and answers. `elevator` is a history variable: the connection that
  started the elevated session. A client disconnects when it has no call under way.
- In `AuditLogger` the hash is ideal: a hash is the body it was computed from.
- In `Bridge`, `todo[x]` is what a task has still to do, as steps: RPC calls, broadcasts, and "rows"
  (broadcasts that only add lines to the message log). `Program` is the beginning of a command,
  `Answered` its continuation after a call. A task gives way only where the code awaits a send. RPC
  calls hold the event loop, as they do in the code. An RPC call that times out has been served by the
  ECU, and makes every later call on the same client raise, until a power cycle makes a new client.
  The lock is the queue of those who hold or await it, its holder first; to release it is to drop the
  first.
- Simplifications of `Bridge`: consecutive rows are one await; the entries of a snapshot are one
  broadcast, of the last of them; a closed page is dropped from `clients` when its send fails, not
  after the last send; a page that reconnects is a new one that starts with what it showed before
  (`KeptPages`) rather than blank; the audit log is its length, and one RPC call emits at most one entry.
- Definitions introduced with "A plausible bug" are not part of the model. They are variants of the
  definition that follows, and show which property notices the bug.

## The runs

| Run | Instance | Checks |
|---|---|---|
| `seedkey` | both 0x27 levels, one connection, time 0..7 | `LockoutIffMaxed`, `NoSeedWhileBlocked`, `LockoutServed`, `FailuresSpaced`; `LimitsAttempts`: the ECU implements `AttemptLimiter` |
| `ownership` | two connections, one level, one certificate, time 0..4 | `TypeOK`, `ExclusiveMechanism`, `OwnedWhileElevated`, `OwnerIsolation`; `LeasesSession`: the ECU implements `SessionLease` |
| `certificates` | five kinds of certificates, two challenges, one connection, time 0..3, one of them expiring and one beginning meanwhile | `TrustedCertsOnly`, `NonceSingleUse` |
| `transport` | two connections, two ids, two callers per client, three calls, session requests | `ReturnsOwnAnswer`, `ChainVerifies`, `TamperEvident`, `OwnerConnectionIsolation` |
| `answers` | the same with one caller per client | `RequestsAnswered` |
| `bridge_commands` | one page, new or reconnected, all commands, five of them, calls that time out | `NewestEntryShown` |
| `bridge_races` | two pages, three commands: Extended session, authenticate, deauthenticate | `NewestEntryShown`, `OwnProof` |
| `bridge_pages` | two pages, two commands: Extended session, wrong key; calls that time out | `CommandsFinish`, `BadgesConverge` |
| `claim_*` | smallest instance that shows the case | one statement of the repository each, violated (below) |

**Bounds.** With `Timeout = 2` and, in `seedkey`, `LockoutDuration = 3` (2 in the other runs of the ECU alone) a timeout can
fall within a lockout.
`RequiredDelay` is 2 in `seedkey`, so that a failure can come too early even though the clock moved
since the last one, and 1 in those others. `MaxAttempts = 2` is the least that has both a failure that is
followed by the delay and one that is followed by the lockout. In `seedkey`, `MaxTime = 7` leaves room for two failures, the lockout they cause, its
expiry, and failures after it. In `ownership`, `MaxTime = 4` allows two sessions to expire in
succession. Two challenges suffice for a replay: one accepted, one pending when the first is injected
again. In `transport`, three calls are enough for a call that times out and one
that would read its answer, with a third on the other connection; two connections are enough for an id
to be reused. Its handlers are those of sessions (`Levels` and `Certs` are empty): what the others do
to the ECU is the subject of the first three runs. Five commands reach the end of a nonce replay
(Extended, a seed, Default and Extended again to be rid of the 0x27 lock, the replay). `bridge_races` and `bridge_pages` have two pages, since two are enough for a
broadcast to overtake another; the clock stands still in `bridge_pages`, where time only adds timeouts.
`MaxTime`, `MaxDraws`, `MaxConns`, `MaxCalls`, `MaxPages` and `MaxCmds` are bounds of the model (the clock, the
challenges and so on stop there); the program itself has none.

States that differ only in `out` are one state to TLC (`VIEW WithoutOut` and its extensions
`TransportWithoutOut`, `BridgeWithoutOut`): no guard reads `out`, and the properties read it only
primed, that is, on the step that writes it; the temporal properties do not read it.

**Fairness.** `Spec` states none: its properties are invariants, action properties and refinements.
`TransportSpec` assumes weak fairness of every server thread's step: the operating system runs a thread
that can run, and `VirtualECU._lock` is held for the length of a handler. Weak fairness is enough
although the lock may be taken and released meanwhile by others, because the calls of a run are
bounded; nothing is assumed of clients, which may stop, time out or disconnect at any time.
`BridgeSpec` assumes strong fairness of every task's steps and of the periodic wake-up: asyncio runs
ready tasks in the order in which they became ready, its lock serves waiters in order, a send to a
page that does not answer ends with the WebSocket's keep-alive timeout, and the sleep of the periodic
task ends. Nothing is assumed of browsers: they need not connect, close or send anything.

**Deadlock** is checked in the runs of `VirtualECU`: some request can always be served. The runs of
`Transport` and `Bridge` do not check it: clients and browsers may stop, and the bounds on calls,
connections and commands end the run; that nobody waits for ever there is what `RequestsAnswered` and
`CommandsFinish` say.

### What the passing runs show

- The rate limits are right, although `send_key` does not check them and lockouts expire lazily: seen
  from a level's secret, the ECU weighs a key only when the level is open, closes it for the delay or
  the lockout after a wrong one, and forgives failures only by a right key, a served lockout or a
  power cycle.
- A live elevated session belongs to its owner. Other connections cannot change, prolong or end it,
  and an expired one can only be taken over through the Extended session. The simulation-only
  `inject_tamper` and `inject_replay_nonce` serve everyone, as the code says.
- 0x27 and 0x29 never both hold anything.
- A certificate gets a challenge only if it passes all five checks at that moment, validity and
  revocation included, and a level only if its key is an elliptic-curve key. No challenge is accepted twice
  between power cycles, even if it is injected again.
- `call()` returns the answer to its own request, although it compares no ids: `_lock` keeps other
  threads out, and after a timeout the file object refuses to be read, so a late answer is never taken
  for the next one.
- The audit chain verifies at all times, because every `emit` runs under the ECU's lock; and
  `verify_chain` refuses every log that has an entry changed, removed, repeated or exchanged. A log whose
  tail was cut off, or whose last entry was rewritten with a new hash, passes: the chain alone cannot
  show that.
- While the owner's connection is being served, no other connection has its id or disturbs it; every
  request of a client that stays is answered.
- At the dashboard, the command lock keeps the two halves of an authentication together; every command
  ends, failing calls and closing pages included; when the commands are done every page has been sent
  the newest audit entry; and the session and attempt badges of all pages converge to the ECU's state,
  whatever order broadcasts took, because the periodic push repeats them.

### Where code and documentation disagree

| Run | Stated in | What the code does |
|---|---|---|
| `claim_reauthenticate` | `tests/test_TC10_session_binding.py:8` | After a timeout, elevating the session again before any `check_access` brings back the level granted in the expired session. The mechanism lock survives in the same way, although the README says it lasts "until the session resets". |
| `claim_mutual` | `tests/test_TC08_access_level_gating.py:11` | A challenge obtained in Extended, without the ECU's certificate, is answered in Programming for `FULL_ACCESS`. |
| `claim_identity` | `sim/protocol/rpc.py:21` | A connection accepted after the owner's thread ended may get the same `id(conn)` and act as the owner of the session that is still live. |
| `claim_idle` | `sim/core/session.py:15`, `UserHelp.md:97` | With a page open, `periodic_push` asks for the session state on the owner's connection, which counts as activity: the session never times out. |

Smaller disagreements met while modelling, without a run of their own:

- A certificate with an RSA key that the root has signed is not rejected: `_validate_cert` does not look
  at the key, so it gets a positive answer and a challenge, and its proof then ends in an RPC error
  without NRC (`tests/test_TC12_anomaly_handling.py:12`: "Cert with invalid/non-EC public key rejected
  without crash", and `:153`). The test's certificate is signed by the RSA key itself and fails for
  that reason. It gets no level (`TrustedCertsOnly`).
- An authentication attempt that is refused before a key or proof is weighed, or whose signature check
  raises, leaves no audit entry (`tests/test_TC13_audit_log_integrity.py:6`: "Every auth attempt").
- Rewriting the last entry with a new hash does not break the verification
  (`tests/test_TC13_audit_log_integrity.py:9`: "any log entry").
- A certificate that expires or is revoked between the two phases of 0x29 is accepted; nothing says
  otherwise.
- A timeout is never logged: no code emits `SESSION_TIMEOUT` (`tests/test_TC13_audit_log_integrity.py:10`).
- `deauthenticate` and `check_access` do not restart the owner's inactivity timer (`sim/core/session.py:16`).
- `check_access` answers any connection as it answers the owner (`tests/test_TC10_session_binding.py:6`).
- Returning to Default revokes the level in the ECU, but no message takes it off the pages' Access Level
  badge (`UserHelp.md:94`, `UserHelp.md:35`): `session` pushes no level, and a snapshot without one
  leaves the badge alone.
- Every push says `locked: False`; the LOCKED badge of the manual never appears.
- The session timer that the bridge pushes counts from the start of the session, not from the last activity.
- `push_audit_tail` sends "those not yet sent" as the last entry only: a nonce replay emits two entries
  and pushes one, and a command that emits none (a `deauthenticate`) pushes the last one again.
- `VirtualECU.stop()` stops accepting; it closes neither the listening socket nor the connections.

## The proofs

Everything below holds for every set of levels, connections, certificates and commands, every number
of pages, calls and callers, and every value of the timing constants. The assumptions are named in
the modules that declare the constants, and TLC evaluates them in the runs:

| Assumption | Says |
|---|---|
| `SessionAssumption`, `SecurityAccessAssumption`, `AuthenticationAssumption` | the timing constants and bounds are naturals, `MaxLag < Timeout`, certificates have the facts their validation reads |
| `ClientsAssumption`, `EventsAssumption` | `None` is no connection id, mechanism or event type |
| `TransportAssumption`, `BridgeAssumption` | the bounds are naturals; the bridge has a connection, and the bound on challenges does not cut a command short |
| `CommandsAssumption` | commands are those of `handle_cmd`, with arguments it passes on |
| `CertificatesAssumption` | the store's tester certificate has an elliptic-curve key, and the certificate of `inject_expired_cert` is not valid |

### The ECU

`VirtualECU_proofs` proves that `Spec` implies `[]TypeOK`, `[]LockoutIffMaxed`,
`[]NoSeedWhileBlocked`, `[]ExclusiveMechanism` and `[]OwnedWhileElevated`.

The inductive invariant `Inv` is their conjunction, grouped by component, with `PendingCertTrusted`: a
pending certificate parsed, was issued and signed by the root, and has begun. None of its parts is
inductive alone: a wrong key increments a counter without looking at it, so the counter's bound (part
of `TypeOK`) needs `NoSeedWhileBlocked` (a level with a seed is in no lockout) and `LockoutIffMaxed`
(so its attempts are not exhausted); those two need the bound in turn. `ExclusiveMechanism` is
preserved by a first seed or challenge only because it says that the other service holds nothing
while the lock does not name it. The handlers' operations are shown to keep their component's group
(`LimitsInv`, `ExchangeInv`), the requests combine these lemmas, and the temporal step is
propositional.

The action properties `OwnerIsolation`, `NonceSingleUse` and `TrustedCertsOnly` are proved request by
request: each handler's guard refuses the stranger, the used challenge or the certificate before it
changes anything. `TrustedCertsOnly` needs `PendingCertTrusted` for the second phase, which does not
look at the certificate again.

`ECURefinement_proofs` proves `FailuresSpaced`, `LockoutServed` and the refinement `LimitsAttempts`
from `Inv`. Its central lemma, `EveryLimitStep`, says all that a step can do to the limits, whatever
request it serves: nothing, clear a level whose lockout has been served, count a failure or a success
at a level with a pending seed, or a power cycle. Each case maps to one action of `AttemptLimiter`;
`NoSeedWhileBlocked` supplies the guard (the level is open) that `send_key` does not have, and
`LockoutIffMaxed` relates the lazy counter to the eager one. In the same way `LeasesSession` rests on
`RequestSession`, which says all that a request can do to the session, its timer and its owner; each
case is an action of `SessionLease`.

### The audit log

`EveryEditShows` (`AuditLogger_proofs`): `verify_chain` refuses every edit, in the sense of `Edits`,
of a well-chained log. That a log verifies is not enough: an entry repeated or exchanged with another
of the same hash would not show. The invariant `AuditInv` adds that no two entries have the same hash,
which nobody checks and `emit` keeps: equal hashes mean equal bodies, so equal predecessors' hashes, so
(those being distinct) the same predecessor, and no entry's hash is the genesis hash.

### The transport

`TransportImplementsECU` proves `TransportSpec => Spec`, so that each theorem about the ECU holds
for the clients of the server. `TransportInv` has three parts besides types:

- `LogInv`: a thread between the halves of `emit` holds the ECU's lock, and its entry continues the
  log. With `AuditInv` it gives `ChainVerifies` and `TamperEvident`.
- `ExchangesInv`: until a call on a connection times out, its wire is empty, or carries exactly the
  request of the one caller that waits, or the answer to it. It gives `ReturnsOwnAnswer`.
- `ElevatorInv`: living threads have different ids, and the owner of an elevated session is the id of
  the connection that elevated it while that connection's thread lives. With `OwnersAreIsolated` it
  gives `OwnerConnectionIsolation`; the hypothesis that the thread lives is the one `claim_identity`
  shows to be necessary.

### The bridge

`BridgeImplementsECU` proves `BridgeSpec => Spec`. `BridgeInv` has a part for each thing that an await
could upset:

- `TodoInv`: how the steps a task has still to do follow one another (`Shape`: nothing but rows comes
  before a proof, a nonce replay ends with the tail, the steps whose answer decides what follows are
  last), and that their arguments are ones the ECU's handlers accept (`Legal`).
- `LockInv`: only the holder of the lock is in the middle of a command; those who wait for it have not
  begun; tasks without the lock only take snapshots, read counters and broadcast.
- `ChallengeInv`: the challenge a command is about to prove is pending, for the tester's certificate,
  and not used, or the session is over. It is kept because by `LockInv` the steps of other tasks in
  between only ask for the session state. It gives `OwnProof`.
- `DeliveryInv`: for each connected page that lacks the newest audit entry, some handler has still to
  do a step that will bring it: a tail or snapshot, or the broadcast of that entry with the page among
  its remaining recipients. It gives `NewestEntryShown`: when all handlers are done there is no such
  step, hence no such page.
- `OpenedInv`: a page has no task before it connects.

TLC also finds `TransportInv` and `BridgeInv` true in all states of the instances `transport` and
`bridge_*`.

### Only model-checked

`RequestsAnswered`, `CommandsFinish` and `BadgesConverge` are liveness under fairness, which is out of
the prover's reach. Every other property of the passing runs is a theorem. The statements of the
`claim_*` runs are false.

## Not modelled

- Framing of RPC lines and WebSocket messages; `RpcServer.shutdown`; the ephemeral ports.
- `push_audit_entries`, which nothing calls; the number in the session timer badge; the mechanism and
  tamper badges, which are set by the same messages as the rows; the message log.
- A power cycle while the RPC thread of the old ECU still serves a request: the bridge makes no
  concurrent calls, so there is none.
- Cryptographic primitives and certificate generation: library code, modelled by what it decides.
- The wall clock stepping independently of the monotonic clock.
- An ECU built without a certificate store (0x29 requests then end in RPC errors), and arguments of
  the wrong type other than the two modelled: they raise before any state changes.
- Layout, filters and the local countdown of the dashboard page, and the browser demo in `docs/`, which imitates the ECU in
  JavaScript.

## Plan

1. *Done:* session, 0x27, 0x29 and the ECU that composes them; abstract specifications and
   refinement; statements the code does not keep; the inductive invariant, the rate limits' action
   properties and the refinement of `AttemptLimiter` proved.
2. *Done:* `AuditLogger`, `Transport` and `Bridge`; the statements about connections and idle sessions
   that the code does not keep; liveness of requests, commands and badges.
3. *Done:* `OwnerIsolation`, `NonceSingleUse` and the refinement of `SessionLease`; the hash chain;
   that the transport and the bridge implement the ECU, and their safety properties.
4. Left: the invariants behind the liveness properties, as far as they are safety (a queued command
   always has a step to take; a request on the wire always has a living thread to serve it).
