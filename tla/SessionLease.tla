--------------------------- MODULE SessionLease ---------------------------
(***************************************************************************)
(* What the ECU promises the connection that elevates the session: a lease *)
(* nobody else can take, change or prolong before it expires.  The lease   *)
(* expires by itself; only a tamper event or a power cycle ends it early   *)
(* against its holder's will.                                              *)
(***************************************************************************)
EXTENDS Integers

CONSTANTS None, Clients, Timeout

VARIABLES
    now,
    mode,       \* the diagnostic session: 1 Default, 2 Programming, 3 Extended
    holder,     \* the connection the elevated session belongs to
    expires,    \* when it ends unless prolonged; 0 without a lease
    actor       \* the connection of the last request, or "reset"

lvars == <<now, mode, holder, expires, actor>>

Free(m, h, e) == m = 1 /\ h = None /\ e = 0

LeaseInit == now = 0 /\ Free(mode, holder, expires) /\ actor = None

Wait ==
    /\ now' >= now
    /\ IF mode = 1 \/ now' < expires
       THEN UNCHANGED <<mode, holder, expires>>
       ELSE Free(mode', holder', expires')

\* From Default only the Extended session can be entered (REQ-003).
Acquire ==
    /\ mode = 1
    /\ mode' = 3 /\ holder' = actor' /\ holder' \in Clients
    /\ now' >= now /\ expires' = now' + Timeout

\* The holder goes on, in the same session or in another elevated one.
Prolong ==
    /\ mode # 1 /\ actor' = holder
    /\ mode' \in {2, 3} /\ holder' = holder
    /\ now' >= now /\ expires' = now' + Timeout

Release ==
    /\ actor' \in {holder, "reset"}
    /\ now' >= now /\ Free(mode', holder', expires')

LeaseNext == Wait \/ Acquire \/ Prolong \/ Release

LeaseSpec == LeaseInit /\ [][LeaseNext]_lvars
============================================================================
