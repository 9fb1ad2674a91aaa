---------------------------- MODULE AuditLogger ----------------------------
(***************************************************************************)
(* AuditLogger (sim/core/audit_logger.py): an append-only log in which     *)
(* every entry carries the hash of the one before it.                      *)
(*                                                                         *)
(* SHA-256 is ideal: a hash is the body it was computed from, so different *)
(* bodies have different hashes.  The genesis hash is nobody's hash.       *)
(***************************************************************************)
EXTENDS SequencesExt

VARIABLES
    entries,    \* _entries
    prev_hash   \* _prev_hash

auditVars == <<entries, prev_hash>>

GENESIS_HASH == <<>>

HashEntry(body) == <<body>>

\* An entry without its entry_hash.  The caller's fields are in fields.
Body(e) == [fields |-> e.fields, prev_hash |-> e.prev_hash]

Seal(body) ==
    [fields |-> body.fields, prev_hash |-> body.prev_hash, entry_hash |-> HashEntry(body)]

----------------------------------------------------------------------------
AuditInit ==
    /\ entries = <<>>
    /\ prev_hash = GENESIS_HASH

\* emit, first half: the entry is built from the _prev_hash it reads.
BuildEntry(fields) == Seal([fields |-> fields, prev_hash |-> prev_hash])

\* emit, second half: the entry is linked and appended.
AppendEntry(e) ==
    /\ prev_hash' = e.entry_hash
    /\ entries' = Append(entries, e)

\* A plausible bug: the hashes are checked and the links are not.
VerifyChainHashesOnly(log) == \A i \in 1..Len(log) : log[i].entry_hash = HashEntry(Body(log[i]))

\* verify_chain with the genesis hash of the policy.
VerifyChain(log) ==
    \A i \in 1..Len(log) :
        /\ log[i].prev_hash = IF i = 1 THEN GENESIS_HASH ELSE log[i - 1].entry_hash
        /\ log[i].entry_hash = HashEntry(Body(log[i]))

----------------------------------------------------------------------------
\* The log the ECU hands out always verifies, whichever threads emitted into
\* it, and the next entry will continue it.
ChainVerifies ==
    /\ VerifyChain(entries)
    /\ prev_hash = IF entries = <<>> THEN GENESIS_HASH ELSE Last(entries).entry_hash

\* What can be done to a log without rewriting everything after the edit: other
\* fields in an entry, with the old hash or with a new one; an entry removed,
\* one repeated somewhere, or two exchanged.
Edits(log, fields) ==
    {ReplaceAt(log, i, [fields |-> fields, prev_hash |-> log[i].prev_hash,
                        entry_hash |-> log[i].entry_hash]) : i \in 1..Len(log)}
    \cup {ReplaceAt(log, i, Seal([fields |-> fields, prev_hash |-> log[i].prev_hash])) :
            i \in 1..(Len(log) - 1)}
    \cup {RemoveAt(log, i) : i \in 1..(Len(log) - 1)}
    \cup {InsertAt(log, i, log[j]) : i, j \in 1..Len(log)}
    \cup {ReplaceAt(ReplaceAt(log, i, log[j]), j, log[i]) : i, j \in 1..Len(log)}

\* REQ-052: verify_chain refuses every edited version of a log the ECU handed
\* out.  (Cutting the tail off, and rewriting the last entry with a new hash,
\* are not among the edits: the chain cannot show those.)
TamperEvident ==
    \A e \in ToSet(entries) : \A log \in Edits(entries, e.fields) \ {entries} : ~VerifyChain(log)
============================================================================
