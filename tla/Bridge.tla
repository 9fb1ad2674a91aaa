------------------------------- MODULE Bridge -------------------------------
(***************************************************************************)
(* The dashboard bridge (sim/protocol/uds_server.py): an asyncio server    *)
(* that turns the commands of browsers into RPC calls on one connection to *)
(* the VirtualECU and broadcasts what it learns, and the dashboard pages   *)
(* (gui/secure_access_monitor.html) that show it.                          *)
(*                                                                         *)
(* A task is a browser's handler() or periodic_push().  todo[x] is what    *)
(* task x has still to do, as a sequence of steps: an RPC call, a          *)
(* broadcast, or "rows" (broadcasts that only add rows to the message log  *)
(* of the pages).  A task gives up the event loop only when it awaits a    *)
(* send; until then running names it.  Commands also wait for the bridge's *)
(* lock, which serves its waiters in order.                                *)
(***************************************************************************)
EXTENDS VirtualECU, SequencesExt

CONSTANTS
    MaxPages,       \* bound on the WebSockets of dashboard pages
    KeptPages,      \* what a page that reconnects may show from before
    Commands,       \* the commands they send
    MaxCmds,        \* bound on the number of commands
    MayTimeOut      \* whether an RPC call may take longer than the client waits

VARIABLES
    opened,         \* pages that have connected so far
    handlers,       \* pages with a running handler()
    sockets,        \* pages whose WebSocket is open
    clients,        \* _state.clients
    lock_queue,     \* _state.lock: its holder and, behind it, its waiters
    todo,
    running,        \* the task between two awaits, if any
    client_ok,      \* no call on _state.client has timed out yet
    last_seed,      \* _state.last_seed is set
    boots,          \* power cycles so far
    entries,        \* number of entries in the ECU's audit log
    received,       \* commands received so far
    shown,          \* what each page shows
    behind          \* pages not sent the newest audit entry (of the calls that returned)

stateVars == <<clients, lock_queue, client_ok, last_seed, boots>>
pageVars == <<opened, handlers, sockets, received, shown, behind>>
bridgeVars == <<vars, stateVars, pageVars, todo, running, entries>>

Browsers == 1..MaxPages     \* a page is its number in the order of connecting
periodic == 0
Tasks == Browsers \cup {periodic}
Bridge == CHOOSE c \in Clients : TRUE     \* the RPC connection

ASSUME BridgeAssumption ==
    /\ Clients # {}
    /\ MaxPages \in Nat
    /\ MaxCmds \in Nat /\ MaxDraws >= 2 * MaxCmds     \* a command draws at most twice

CommandNames == {"snapshot", "session", "0x27_seed", "0x27_key", "0x29_auth", "0x29_deauth",
                 "inject_tamper", "inject_wrong_key", "inject_expired_cert", "inject_replay_nonce",
                 "power_cycle"}

\* Other commands and arguments are ignored or have a default.
ASSUME CommandsAssumption ==
    \A cmd \in Commands :
        /\ cmd.name \in CommandNames
        /\ cmd.name = "session" => cmd.arg \in Requests
        /\ cmd.name \in {"0x27_seed", "inject_wrong_key"} => cmd.arg \in Levels
        /\ cmd.name = "0x27_key" => cmd.arg \in [level : Levels, key : Keys]
        /\ cmd.name \in {"0x29_auth", "inject_replay_nonce"} => "tester" \in Certs
        /\ cmd.name = "inject_expired_cert" => "expired" \in Certs

\* The certificate store makes the tester's certificate with an EC key, and
\* inject_expired_cert one that is never valid.
ASSUME CertificatesAssumption ==
    /\ "tester" \in Certs => CertInfo["tester"].ec_key
    /\ "expired" \in Certs =>
         \A t \in 0..MaxTime : t < CertInfo["expired"].not_before \/ t > CertInfo["expired"].not_after

----------------------------------------------------------------------------
(* Steps of a task.                                                        *)

Do(op, arg) == <<op, arg>>
Op(s) == s[1]
Arg(s) == s[2]
Rows == Do("rows", None)

\* A plausible bug: the newest entry is never pushed.
PushTailNever == Do("rows", None)

PushTail == Do("tail", None)
Broadcast(type, value) == Do("broadcast", <<type, value>>)

\* A plausible bug: only a snapshot carries the counters.
PushCountersNever == <<>>

PushCounters == SetToSeq({Do("counter", l) : l \in Levels})

\* handle_cmd: what a command does first; the rest depends on the answers.
Program(cmd) ==
    CASE cmd.name = "snapshot"            -> <<Do("snapshot", None)>>
      [] cmd.name = "session"             -> <<Rows, Do("session", cmd.arg)>>
      [] cmd.name = "0x27_seed"           -> <<Rows, Do("seed", cmd.arg)>>
      [] cmd.name = "0x27_key"            -> IF cmd.arg.key = "malformed" THEN <<Rows>>
                                             ELSE <<Rows, Do("key", cmd.arg)>>
      [] cmd.name = "0x29_auth"           -> <<Do("state", None), Rows, Do("communicate", "tester")>>
      [] cmd.name = "0x29_deauth"         -> <<Rows, Do("deauth", None)>>
      [] cmd.name = "inject_tamper"       -> <<Rows, Do("tamper", None)>>
      [] cmd.name = "inject_wrong_key"    -> <<Do("seed_to_fail", cmd.arg)>>
      [] cmd.name = "inject_expired_cert" -> <<Rows, Do("communicate", "expired")>>
      [] cmd.name = "inject_replay_nonce" -> <<Do("replay", "tester")>>
      [] cmd.name = "power_cycle"         -> <<Do("boot", None)>>

\* The ECU's side of an RPC step; counters and the audit log are only read.
Perform(s) ==
    \/ Op(s) \in {"snapshot", "state", "periodic"} /\ GetSessionState(Bridge, now)
    \/ Op(s) = "session" /\ SessionControl(Bridge, Arg(s), now)
    \/ Op(s) \in {"seed", "seed_to_fail"} /\ RequestSeed(Bridge, SeedSubfunction(Arg(s)), now)
    \/ Op(s) = "key" /\ SendKey(Bridge, KeySubfunction(Arg(s).level), Arg(s).key, now)
    \/ Op(s) \in {"communicate", "replay", "communicate_again"}
       /\ CommunicateCertificate(Bridge, Arg(s), now)
    \/ Op(s) \in {"verify", "verify_replay"}
       /\ VerifyProof(Bridge, [signer |-> "tester", data |-> Arg(s)], now)
    \/ Op(s) = "deauth" /\ Deauthenticate(Bridge)
    \/ Op(s) = "tamper" /\ InjectTamper(Bridge, now)
    \/ Op(s) = "inject" /\ InjectReplayNonce(Bridge, Arg(s))
    \/ Op(s) \in {"counter", "tail"} /\ UNCHANGED vars

RpcOps == {"snapshot", "state", "periodic", "session", "seed", "seed_to_fail", "key", "communicate",
           "replay", "communicate_again", "verify", "verify_replay", "deauth", "tamper", "inject",
           "counter", "tail"}

\* The ECU logs the request.
Emits(s) == Op(s) \notin {"counter", "tail"} /\ out'.event # None

\* push_snapshot reads everything before its first await.
Snapshot == [session |-> session', attempts |-> attempt_counters',
             access |-> IF sa_granted' # None THEN sa_granted' ELSE auth_granted']

\* A plausible bug: entries[0] for entries[-1].
NewestEntryFirst == IF entries = 0 THEN <<>> ELSE <<Broadcast("entry", <<boots, 1>>)>>

NewestEntry == IF entries = 0 THEN <<>> ELSE <<Broadcast("entry", <<boots, entries>>)>>

\* What a task does with the answer to an RPC step.
Answered(s) ==
    LET positive == out'.result = "positive"
    IN CASE Op(s) = "snapshot" -> <<Broadcast("snapshot", Snapshot)>> \o NewestEntry
         [] Op(s) = "periodic" -> <<Broadcast("session", session')>> \o PushCounters
         [] Op(s) = "counter"  -> <<Broadcast("attempts", [level |-> Arg(s),
                                                          count |-> attempt_counters[Arg(s)]])>>
         [] Op(s) = "tail"     -> NewestEntry
         [] Op(s) = "session"  -> IF positive THEN <<Rows, Broadcast("session", Arg(s)), PushTail>>
                                 ELSE <<Rows>>
         [] Op(s) = "seed"     -> <<Rows>>
         [] Op(s) = "seed_to_fail" ->
                IF positive THEN <<Rows, Do("key", [level |-> Arg(s), key |-> "wrong"])>> ELSE <<>>
         [] Op(s) = "key"      -> IF positive
                                 THEN <<Rows, Broadcast("access", out'.level),
                                        Do("counter", out'.level), PushTail>>
                                 ELSE <<Rows>> \o PushCounters \o <<PushTail>>
         [] Op(s) = "communicate" ->
                IF positive THEN <<Rows, Do("verify", pending_challenge')>> ELSE <<Rows>>
         [] Op(s) = "verify"   -> IF positive
                                 THEN <<Rows, Broadcast("access", out'.level), Rows, PushTail>>
                                 ELSE <<Rows, PushTail>>
         [] Op(s) = "deauth"   -> <<Rows, Broadcast("access", None), PushTail>>
         [] Op(s) = "tamper"   -> <<Rows, Broadcast("session", DEFAULT), Broadcast("access", None),
                                   PushTail>>
         [] Op(s) = "replay"   ->
                IF ~positive THEN <<>>
                ELSE <<Do("verify_replay", pending_challenge'), Do("communicate_again", Arg(s)),
                       Do("inject", pending_challenge'), Rows,
                       Do("verify_replay", pending_challenge'), Rows, PushTail>>
         [] Op(s) \in {"state", "communicate_again", "verify_replay", "inject"} -> <<>>

----------------------------------------------------------------------------
(* The event loop.                                                         *)

Blank == [session |-> DEFAULT, access |-> None, attempts |-> [l \in Levels |-> 0]]

Type(m) == m[1]
Value(m) == m[2]

\* onSnapshot, onSessionUpdate, onAccessLevel, onAuthUpdate, onAuditEntry.  A
\* snapshot without an access level leaves the one the page shows.
Render(page, m) ==
    CASE Type(m) = "snapshot" -> [Value(m) EXCEPT !.access = IF @ = None THEN page.access ELSE @]
      [] Type(m) = "session"  -> [page EXCEPT !.session = Value(m)]
      [] Type(m) = "access"   -> [page EXCEPT !.access = Value(m)]
      [] Type(m) = "attempts" -> [page EXCEPT !.attempts[Value(m).level] = Value(m).count]
      [] Type(m) = "entry"    -> page

\* boot() by main(), and no browser yet.
BridgeInit ==
    /\ Init
    /\ opened = 0 /\ handlers = {} /\ sockets = {} /\ clients = {} /\ lock_queue = <<>>
    /\ todo = [x \in Tasks |-> <<>>]
    /\ running = None
    /\ client_ok = TRUE /\ last_seed = FALSE
    /\ boots = 0 /\ entries = 0 /\ received = 0
    /\ shown = [w \in Browsers |-> Blank]
    /\ behind = Browsers

\* A plausible bug: commands are not serialised.
HasLockAlways(x) == TRUE

\* async with _state.lock, for a command; other tasks run without it.
HasLock(x) == x \in ToSet(lock_queue) => x = Head(lock_queue)

MayRun(x) == todo[x] # <<>> /\ running \in {None, x} /\ HasLock(x)

\* Task x goes on with rest; a command that is done releases the lock, which
\* it holds since it began.
GoOn(x, rest) ==
    /\ todo' = [todo EXCEPT ![x] = rest]
    /\ lock_queue' = IF rest = <<>> /\ x \in ToSet(lock_queue) THEN Tail(lock_queue)
                     ELSE lock_queue

\* handler() begins: the browser is registered, and the snapshot is pushed
\* to all clients outside the lock.  A new page is blank, one that reconnects
\* shows what it did before.
Connect(w, page) ==
    /\ running = None
    /\ w = opened + 1
    /\ opened' = w
    /\ handlers' = handlers \cup {w} /\ sockets' = sockets \cup {w} /\ clients' = clients \cup {w}
    /\ todo' = [todo EXCEPT ![w] = <<Do("snapshot", None)>>]
    /\ running' = w
    /\ shown' = [shown EXCEPT ![w] = page]
    /\ UNCHANGED <<vars, lock_queue, client_ok, last_seed, boots, entries, received, behind>>

\* The WebSocket is gone, and with it the page.
Disconnected(w) ==
    /\ sockets' = sockets \ {w}
    /\ shown' = [shown EXCEPT ![w] = Blank]
    /\ behind' = behind \cup {w}

\* The page is closed.
Close(w) ==
    /\ w \in sockets
    /\ Disconnected(w)
    /\ UNCHANGED <<vars, stateVars, todo, running, entries, opened, handlers, received>>

\* The handler of a closed page ends when it next reads from the socket.
EndHandler(w) ==
    /\ running = None
    /\ w \in handlers \ sockets
    /\ todo[w] = <<>>
    /\ handlers' = handlers \ {w} /\ clients' = clients \ {w}
    /\ UNCHANGED <<vars, lock_queue, client_ok, last_seed, boots, todo, running, entries,
                   opened, sockets, received, shown, behind>>

\* A command arrives and queues for the lock.
Receive(w, cmd) ==
    /\ running = None
    /\ w \in handlers \cap sockets
    /\ todo[w] = <<>>
    /\ received < MaxCmds
    /\ received' = received + 1
    /\ todo' = [todo EXCEPT ![w] = Program(cmd)]
    /\ lock_queue' = Append(lock_queue, w)
    /\ UNCHANGED <<vars, clients, client_ok, last_seed, boots, running, entries,
                   opened, handlers, sockets, shown, behind>>

\* A plausible bug: the failing command does not release the lock.
FailCommandLocked(x) ==
    /\ todo' = [todo EXCEPT ![x] = <<>>] /\ UNCHANGED lock_queue
    /\ handlers' = handlers \ {x} /\ clients' = clients \ {x}
    /\ Disconnected(x)

\* An exception in a command ends its handler; the lock is released.
FailCommand(x) ==
    /\ GoOn(x, <<>>)
    /\ handlers' = handlers \ {x} /\ clients' = clients \ {x}
    /\ Disconnected(x)

\* A call raises: push_snapshot and push_audit_tail give up their broadcasts,
\* periodic_push its round, a command its handler.
Fail(x) ==
    \/ /\ Op(Head(todo[x])) \in {"snapshot", "tail"}
       /\ GoOn(x, Tail(todo[x]))
       /\ UNCHANGED <<handlers, sockets, clients, shown, behind>>
    \/ /\ x = periodic
       /\ GoOn(x, <<>>)
       /\ UNCHANGED <<handlers, sockets, clients, shown, behind>>
    \/ /\ x # periodic /\ Op(Head(todo[x])) \notin {"snapshot", "tail"}
       /\ FailCommand(x)

\* An RPC call, with the event loop held.  It raises when the answer does not
\* come within the 5 s the client waits, and ever after on the same client; the
\* ECU has served it all the same.
Rpc(x) ==
    LET s == Head(todo[x])
    IN  /\ MayRun(x)
        /\ Op(s) \in RpcOps
        /\ Op(s) = "replay" => last_seed
        /\ Perform(s)
        /\ entries' = IF Emits(s) THEN entries + 1 ELSE entries
        /\ \/ /\ client_ok
              /\ GoOn(x, Answered(s) \o Tail(todo[x]))
              /\ last_seed' = (last_seed \/ (Op(s) = "seed" /\ out'.result = "positive"))
              /\ behind' = IF Emits(s) THEN Browsers ELSE behind
              /\ UNCHANGED <<client_ok, handlers, sockets, clients, shown>>
           \/ /\ MayTimeOut \/ ~client_ok
              /\ Fail(x)
              /\ client_ok' = FALSE
              /\ UNCHANGED last_seed
        /\ running' = IF todo'[x] = <<>> THEN None ELSE x
        /\ UNCHANGED <<boots, opened, received>>

\* inject_replay_nonce before any seed: an error message.
NoSeed(x) ==
    /\ MayRun(x)
    /\ Op(Head(todo[x])) = "replay" /\ ~last_seed
    /\ GoOn(x, <<Rows>>)
    /\ UNCHANGED <<vars, clients, client_ok, last_seed, boots, pageVars, running, entries>>

\* power_cycle
Boot(x) ==
    /\ MayRun(x)
    /\ Op(Head(todo[x])) = "boot"
    /\ PowerCycle
    /\ boots' = boots + 1 /\ entries' = 0 /\ client_ok' = TRUE /\ last_seed' = FALSE
    /\ GoOn(x, <<Broadcast("session", DEFAULT), Broadcast("access", None), Rows, Do("snapshot", None)>>)
    /\ running' = x
    /\ UNCHANGED <<clients, pageVars>>

\* broadcast() of rows to the message log.
SendRows(x) ==
    /\ MayRun(x)
    /\ Op(Head(todo[x])) = "rows"
    /\ GoOn(x, Tail(todo[x]))
    /\ clients' = clients \cap sockets
    /\ running' = None
    /\ UNCHANGED <<vars, client_ok, last_seed, boots, pageVars, entries>>

\* broadcast() with nobody left to send to: no await.
SkipBroadcast(x) ==
    /\ MayRun(x)
    /\ Op(Head(todo[x])) = "broadcast" /\ clients = {}
    /\ GoOn(x, Tail(todo[x]))
    /\ running' = IF todo'[x] = <<>> THEN None ELSE x
    /\ UNCHANGED <<vars, clients, client_ok, last_seed, boots, pageVars, entries>>

\* One send of a broadcast to those who were clients when it began.  A closed
\* page is dropped when its send fails (the code drops it after the last send).
Send(x, w) ==
    LET s == Head(todo[x])
        to == IF Op(s) = "sending" THEN s[3] ELSE clients
        m == Arg(s)
    IN  /\ MayRun(x)
        /\ Op(s) \in {"broadcast", "sending"}
        /\ w \in to
        /\ GoOn(x, IF to = {w} THEN Tail(todo[x])
                   ELSE <<<<"sending", m, to \ {w}>>>> \o Tail(todo[x]))
        /\ IF w \in sockets
           THEN /\ shown' = [shown EXCEPT ![w] = Render(@, m)]
                /\ behind' = IF Type(m) = "entry" /\ Value(m) = <<boots, entries>>
                             THEN behind \ {w} ELSE behind
                /\ UNCHANGED clients
           ELSE clients' = clients \ {w} /\ UNCHANGED <<shown, behind>>
        /\ running' = None
        /\ UNCHANGED <<vars, client_ok, last_seed, boots, entries, opened, handlers, sockets, received>>

\* periodic_push wakes up every two seconds.
Wake ==
    /\ running = None
    /\ todo[periodic] = <<>>
    /\ clients # {}
    /\ todo' = [todo EXCEPT ![periodic] = <<Do("periodic", None)>>]
    /\ running' = periodic
    /\ UNCHANGED <<vars, stateVars, pageVars, entries>>

BridgeTick == Tick /\ UNCHANGED <<stateVars, pageVars, todo, running, entries>>

Step(x) ==
    \/ Rpc(x) \/ NoSeed(x) \/ Boot(x) \/ SendRows(x) \/ SkipBroadcast(x)
    \/ \E w \in Browsers : Send(x, w)

BridgeNext ==
    \/ \E w \in Browsers, page \in {Blank} \cup KeptPages : Connect(w, page)
    \/ \E w \in Browsers : Close(w) \/ EndHandler(w)
    \/ \E w \in Browsers, cmd \in Commands : Receive(w, cmd)
    \/ \E x \in Tasks : Step(x)
    \/ Wake
    \/ BridgeTick

\* The event loop serves every task that is ready in turn; browsers need do
\* nothing.
BridgeSpec ==
    /\ BridgeInit /\ [][BridgeNext]_bridgeVars
    /\ \A x \in Tasks : SF_bridgeVars(Step(x))
    /\ SF_bridgeVars(Wake)

----------------------------------------------------------------------------
Connected == clients \cap sockets
Idle == \A w \in Browsers : todo[w] = <<>>

\* The two halves of 0x29_auth are several awaits apart, while other browsers
\* send commands, pages connect and the periodic push runs: the proof is still
\* for the challenge that is pending, so that it is accepted unless the session
\* ended in between.
OwnProof ==
    [][\A w \in Browsers :
         todo[w] # <<>> /\ Op(Head(todo[w])) = "verify" /\ Rpc(w)
           => out'.result \in {"positive", "0x22"}]_bridgeVars

\* Once the commands are done, every connected page has been sent the newest
\* audit entry, whichever command, power cycle or connect pushed it, although
\* the tail is pushed to those who were clients when its broadcast began.
NewestEntryShown ==
    Idle /\ client_ok /\ entries > 0 => Connected \cap behind = {}

\* Every command that arrives is done with the lock at some time, even when a
\* call of it raises or pages close while it broadcasts.
CommandsFinish ==
    \A w \in Browsers : w \in ToSet(lock_queue) ~> w \notin ToSet(lock_queue)

\* Broadcasts of several tasks overtake one another from page to page, but once
\* commands cease every connected page comes to show the session and the
\* attempt counters of the ECU, provided calls do not time out.
BadgesConverge ==
    <>[](Idle /\ client_ok)
        => <>[](\A w \in Connected : /\ shown[w].session = CurrentAt(now)
                                     /\ shown[w].attempts = attempt_counters)
============================================================================
