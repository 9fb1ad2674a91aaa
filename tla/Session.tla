------------------------------ MODULE Session ------------------------------
(***************************************************************************)
(* SessionStateMachine (sim/core/session.py): the UDS 0x10 session, its    *)
(* transition table and its inactivity timer.                              *)
(*                                                                         *)
(* The timer is lazy.  Nothing happens when the timeout elapses: the       *)
(* session falls back to Default only when some later request calls        *)
(* current() or transition(), which both begin with _check_timeout().      *)
(* CurrentAt(t) is the session such a call at time t leaves behind.        *)
(*                                                                         *)
(* time.monotonic() is the integer clock now.  A request handler reads the *)
(* clock several times; it starts at now and ends at some t \in Later.     *)
(***************************************************************************)
EXTENDS Integers

CONSTANTS
    None,       \* Python's None
    Timeout,    \* session_timeout_seconds
    MaxTime,    \* bound on the clock
    MaxLag      \* bound on the time that passes inside one handler

VARIABLES
    now,            \* time.monotonic()
    session,        \* _session, as last written (may have expired)
    last_activity   \* _last_activity

sessionVars == <<now, session, last_activity>>

DEFAULT     == 1
PROGRAMMING == 2
EXTENDED    == 3
Valid       == {DEFAULT, EXTENDED, PROGRAMMING}

ASSUME SessionAssumption ==
    /\ Timeout \in Nat \ {0}
    /\ MaxTime \in Nat
    /\ MaxLag \in Nat /\ MaxLag < Timeout    \* no session expires while being entered
    /\ None \notin Nat

(***************************************************************************)
(* The table of ecu_policy.json.  It lists Default -> Programming; the     *)
(* code refuses that pair separately.                                      *)
(***************************************************************************)
allowed_transitions ==
    [s \in Valid |-> Valid \ {s}]

Later == {t \in now..(now + MaxLag) : t <= MaxTime}

\* A plausible bug: the timeout compares with > where the code has >=.
CurrentAtStrict(t) ==
    IF session # DEFAULT /\ t - last_activity > Timeout THEN DEFAULT ELSE session

CurrentAt(t) ==
    IF session # DEFAULT /\ t - last_activity >= Timeout THEN DEFAULT ELSE session

TransitionAllowed(from, target) ==
    /\ target \in Valid
    /\ \/ target = from
       \/ /\ ~(from = DEFAULT /\ target = PROGRAMMING)
          /\ target \in allowed_transitions[from]

----------------------------------------------------------------------------
SessionInit ==
    /\ now = 0
    /\ session = DEFAULT
    /\ last_activity = now

\* current() at time t, the last clock reading of its handler.
Observe(t) ==
    /\ now' = t
    /\ session' = CurrentAt(t)
    /\ UNCHANGED last_activity

\* current() when the handler starts, touch() when it ends.
ObserveAndTouch(t) ==
    /\ now' = t
    /\ session' = CurrentAt(now)
    /\ last_activity' = t

\* A successful transition(): the new session (or the same one) and touch().
Enter(target, t) ==
    /\ now' = t
    /\ session' = target
    /\ last_activity' = t

\* reset(): tamper events.
Reset(t) == Enter(DEFAULT, t)

\* Time passes with no request in the ECU.
AdvanceClock ==
    /\ now < MaxTime
    /\ now' = now + 1
    /\ UNCHANGED <<session, last_activity>>

SessionTypeOK ==
    /\ now \in 0..MaxTime
    /\ session \in Valid
    /\ last_activity \in 0..now
============================================================================
