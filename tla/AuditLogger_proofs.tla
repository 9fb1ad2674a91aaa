------------------------ MODULE AuditLogger_proofs ------------------------
(***************************************************************************)
(* What the hash chain of the audit log is worth, for logs of any length.  *)
(*                                                                         *)
(* A log is well chained when it verifies, its entries are what Seal makes *)
(* and no two of them have the same hash.  The last part need not be       *)
(* checked by anybody: emit keeps it, because two entries with one hash    *)
(* would have predecessors with one hash, and so on down to the genesis    *)
(* hash, which is nobody's.  It is what makes every edit visible, repeated *)
(* and exchanged entries included.                                         *)
(***************************************************************************)
EXTENDS AuditLogger, SequenceLemmas

HashesDistinct(log) ==
    \A i, j \in 1..Len(log) : log[i].entry_hash = log[j].entry_hash => i = j

Sealed(log) == \A i \in 1..Len(log) : log[i] = Seal(Body(log[i]))

WellChained(log) ==
    /\ log \in Seq(ToSet(log))
    /\ Sealed(log)
    /\ VerifyChain(log)
    /\ HashesDistinct(log)

\* The hash a new entry has to carry.
LastHash(log) == IF log = <<>> THEN GENESIS_HASH ELSE Last(log).entry_hash

AuditInv == WellChained(entries) /\ prev_hash = LastHash(entries)

----------------------------------------------------------------------------
\* No hash is the genesis hash.
LEMMA HashNotGenesis == \A body : HashEntry(body) # GENESIS_HASH
BY DEF HashEntry, GENESIS_HASH

\* A log without entries is well chained.
LEMMA EmptyLog == WellChained(<<>>) /\ LastHash(<<>>) = GENESIS_HASH
BY DEF WellChained, Sealed, VerifyChain, HashesDistinct, LastHash, ToSet

\* In a well-chained log an entry has a hash of its own, which the next one
\* repeats; the genesis hash is the first entry's alone.
LEMMA Links ==
    ASSUME NEW log, WellChained(log)
    PROVE  /\ Len(log) \in Nat
           /\ log \in [1..Len(log) -> ToSet(log)]
           /\ \A i \in 1..Len(log) : log[i].entry_hash # GENESIS_HASH
           /\ \A i, j \in 1..Len(log) : log[i].prev_hash = log[j].prev_hash => i = j
<1>1. Len(log) \in Nat /\ log \in [1..Len(log) -> ToSet(log)]
  BY DEF WellChained
<1>2. \A i \in 1..Len(log) : log[i].entry_hash # GENESIS_HASH
  BY HashNotGenesis DEF WellChained, VerifyChain
<1>3. ASSUME NEW i \in 1..Len(log), NEW j \in 1..Len(log), log[i].prev_hash = log[j].prev_hash
      PROVE  i = j
  BY <1>1, <1>2, <1>3 DEF WellChained, VerifyChain, HashesDistinct
<1> QED BY <1>1, <1>2, <1>3

\* emit continues a well-chained log: an entry sealed with the hash of the last
\* one is linked to it, and has a hash the log does not yet contain.
LEMMA AppendKeepsChain ==
    ASSUME NEW log, WellChained(log), NEW f
    PROVE  LET e == Seal([fields |-> f, prev_hash |-> LastHash(log)])
           IN  WellChained(Append(log, e)) /\ LastHash(Append(log, e)) = e.entry_hash
<1> DEFINE e == Seal([fields |-> f, prev_hash |-> LastHash(log)])
           n == Len(log)
           new == Append(log, e)
<1>1. n \in Nat /\ log \in Seq(ToSet(log)) /\ log \in [1..n -> ToSet(log)]
  BY Links DEF WellChained
<1>2. /\ new \in Seq(ToSet(log) \cup {e})
      /\ Len(new) = n + 1
      /\ new[n + 1] = e
      /\ \A i \in 1..n : new[i] = log[i]
      /\ new # <<>>
  <2>1. log \in Seq(ToSet(log) \cup {e})
    BY <1>1, SeqMonotonic
  <2> HIDE DEF e
  <2> QED BY <2>1, AppendProperties
<1>3. new \in Seq(ToSet(new))
  BY <1>2, SeqOfItsElements
<1>4. e.prev_hash = LastHash(log) /\ e = Seal(Body(e)) /\ e.entry_hash = HashEntry(Body(e))
  BY DEF Seal, Body
<1> HIDE DEF e, new
<1>5. Sealed(new)
  BY <1>1, <1>2, <1>4 DEF WellChained, Sealed
<1>6. LastHash(log) = IF n = 0 THEN GENESIS_HASH ELSE log[n].entry_hash
  BY <1>1 DEF LastHash, Last
<1>7. VerifyChain(new)
  <2> SUFFICES ASSUME NEW i \in 1..(n + 1)
               PROVE  /\ new[i].prev_hash = IF i = 1 THEN GENESIS_HASH ELSE new[i - 1].entry_hash
                      /\ new[i].entry_hash = HashEntry(Body(new[i]))
    BY <1>2 DEF VerifyChain
  <2>1. CASE i \in 1..n
    BY <1>1, <1>2, <2>1 DEF WellChained, VerifyChain
  <2>2. CASE i = n + 1
    BY <1>1, <1>2, <1>4, <1>6, <2>2
  <2> QED BY <1>1, <2>1, <2>2
<1>8. ASSUME NEW i \in 1..n, log[i].entry_hash = e.entry_hash PROVE FALSE
  <2>1. log[i].prev_hash = LastHash(log)
    <3>1. HashEntry(Body(log[i])) = HashEntry(Body(e))
      BY <1>4, <1>8 DEF WellChained, VerifyChain
    <3> QED BY <1>4, <3>1 DEF HashEntry, Body
  <2>2. n # 0 /\ log[i].prev_hash = log[n].entry_hash
    BY <1>1, <1>6, <2>1
  <2>3. CASE i = 1
    BY <1>1, <2>2, <2>3, Links DEF WellChained, VerifyChain
  <2>4. CASE i # 1
    <3>1. log[i - 1].entry_hash = log[n].entry_hash /\ i - 1 \in 1..n /\ n \in 1..n
      BY <1>1, <2>2, <2>4 DEF WellChained, VerifyChain
    <3> QED BY <1>1, <3>1 DEF WellChained, HashesDistinct
  <2> QED BY <2>3, <2>4
<1>9. HashesDistinct(new)
  BY <1>1, <1>2, <1>8 DEF WellChained, HashesDistinct
<1>10. LastHash(new) = e.entry_hash
  BY <1>1, <1>2 DEF LastHash, Last
<1> QED BY <1>3, <1>5, <1>7, <1>9, <1>10 DEF WellChained, e, new

----------------------------------------------------------------------------
(* Every edit shows.                                                       *)

\* Behind the same entry verify_chain accepts the same prev_hash only.
LEMMA SamePredecessor ==
    ASSUME NEW log, WellChained(log), NEW new, VerifyChain(new),
           NEW i \in 1..Len(log), i \in 1..Len(new), i # 1 => new[i - 1] = log[i - 1]
    PROVE  new[i].prev_hash = log[i].prev_hash
BY DEF WellChained, VerifyChain

\* An entry as its three parts.
LEMMA EntryParts ==
    ASSUME NEW log, WellChained(log), NEW i \in 1..Len(log)
    PROVE  /\ log[i].entry_hash = HashEntry([fields |-> log[i].fields, prev_hash |-> log[i].prev_hash])
           /\ log[i] = [fields |-> log[i].fields, prev_hash |-> log[i].prev_hash,
                        entry_hash |-> log[i].entry_hash]
<1>1. log[i] = Seal(Body(log[i])) /\ log[i].entry_hash = HashEntry(Body(log[i]))
  BY DEF WellChained, Sealed, VerifyChain
<1>2. Seal(Body(log[i])) = [fields |-> log[i].fields, prev_hash |-> log[i].prev_hash,
                           entry_hash |-> HashEntry(Body(log[i]))]
  BY DEF Seal, Body
<1> QED BY <1>1, <1>2 DEF Body

\* Other fields under the old hash: the entry's own hash is wrong.
LEMMA ChangedFieldsShow ==
    ASSUME NEW log, WellChained(log), NEW f, NEW i \in 1..Len(log),
           NEW new, new # log, VerifyChain(new),
           new = ReplaceAt(log, i, [fields |-> f, prev_hash |-> log[i].prev_hash,
                                    entry_hash |-> log[i].entry_hash])
    PROVE  FALSE
<1> DEFINE x == [fields |-> f, prev_hash |-> log[i].prev_hash, entry_hash |-> log[i].entry_hash]
<1>1. x # log[i] /\ Len(new) = Len(log) /\ new[i] = x
  BY Links DEF WellChained, ReplaceAt
<1>2. x.entry_hash = HashEntry(Body(x))
  BY <1>1 DEF VerifyChain
<1>3. HashEntry([fields |-> f, prev_hash |-> log[i].prev_hash])
        = HashEntry([fields |-> log[i].fields, prev_hash |-> log[i].prev_hash])
  BY <1>2, EntryParts DEF Body
<1>4. f = log[i].fields
  BY <1>3 DEF HashEntry
<1> QED BY <1>1, <1>4, EntryParts

\* Other fields with a hash that fits them: the next entry carries the old one.
LEMMA ResealedEntryShows ==
    ASSUME NEW log, WellChained(log), NEW f, NEW i \in 1..(Len(log) - 1),
           NEW new, new # log, VerifyChain(new),
           new = ReplaceAt(log, i, Seal([fields |-> f, prev_hash |-> log[i].prev_hash]))
    PROVE  FALSE
<1> DEFINE x == Seal([fields |-> f, prev_hash |-> log[i].prev_hash])
<1>1. Len(log) \in Nat /\ i \in 1..Len(log) /\ i + 1 \in 1..Len(log) /\ i + 1 # 1
  BY Links
<1>2. x # log[i] /\ Len(new) = Len(log) /\ new[i] = x /\ new[i + 1] = log[i + 1]
  BY <1>1, Links DEF WellChained, ReplaceAt
<1>3. new[i + 1].prev_hash = x.entry_hash /\ log[i + 1].prev_hash = log[i].entry_hash
  BY <1>1, <1>2 DEF VerifyChain, WellChained
<1>4. HashEntry([fields |-> f, prev_hash |-> log[i].prev_hash])
        = HashEntry([fields |-> log[i].fields, prev_hash |-> log[i].prev_hash])
  <2>1. x.entry_hash = log[i].entry_hash
    BY <1>2, <1>3
  <2>2. x.entry_hash = HashEntry([fields |-> f, prev_hash |-> log[i].prev_hash])
    BY DEF Seal
  <2> QED BY <1>1, <2>1, <2>2, EntryParts
<1>5. f = log[i].fields
  BY <1>4 DEF HashEntry
<1>6. x = [fields |-> f, prev_hash |-> log[i].prev_hash,
            entry_hash |-> HashEntry([fields |-> f, prev_hash |-> log[i].prev_hash])]
  BY DEF Seal
<1> HIDE DEF x
<1> QED BY <1>1, <1>2, <1>5, <1>6, EntryParts

\* An entry removed: the one behind it carries the removed entry's hash.
LEMMA RemovedEntryShows ==
    ASSUME NEW log, WellChained(log), NEW i \in 1..(Len(log) - 1),
           VerifyChain(RemoveAt(log, i))
    PROVE  FALSE
<1> DEFINE new == RemoveAt(log, i)
<1>0. Len(log) \in Nat /\ i \in 1..Len(log) /\ i + 1 \in 1..Len(log)
      /\ \A m \in 1..Len(log) : log[m] \in ToSet(log)
  BY Links
<1>1. /\ Len(new) = Len(log) - 1
      /\ new[i] = log[i + 1]
      /\ i # 1 => new[i - 1] = log[i - 1]
  <2>1. /\ SubSeq(log, 1, i - 1) \in Seq(ToSet(log))
        /\ Len(SubSeq(log, 1, i - 1)) = i - 1
        /\ \A m \in 1..(i - 1) : SubSeq(log, 1, i - 1)[m] = log[m]
    BY <1>0, SubSeqProperties
  <2>2. /\ SubSeq(log, i + 1, Len(log)) \in Seq(ToSet(log))
        /\ Len(SubSeq(log, i + 1, Len(log))) = Len(log) - i
        /\ \A m \in 1..(Len(log) - i) : SubSeq(log, i + 1, Len(log))[m] = log[i + m]
    BY <1>0, SubSeqProperties
  <2> QED BY <1>0, <2>1, <2>2, ConcatProperties DEF RemoveAt
<1>2. new[i].prev_hash = log[i].prev_hash
  BY <1>0, <1>1, SamePredecessor
<1> QED BY <1>0, <1>1, <1>2, Links

\* An entry repeated, next to itself or elsewhere: the entry behind the copy, or
\* the copy, carries the wrong hash.
LEMMA RepeatedEntryShows ==
    ASSUME NEW log, WellChained(log), NEW i \in 1..Len(log), NEW j \in 1..Len(log),
           VerifyChain(InsertAt(log, i, log[j]))
    PROVE  FALSE
<1> DEFINE new == InsertAt(log, i, log[j])
<1>0. Len(log) \in Nat /\ \A m \in 1..Len(log) : log[m] \in ToSet(log)
  BY Links
<1>1. /\ Len(new) = Len(log) + 1
      /\ new[i] = log[j] /\ new[i + 1] = log[i]
      /\ i # 1 => new[i - 1] = log[i - 1]
  <2>1. /\ SubSeq(log, 1, i - 1) \in Seq(ToSet(log))
        /\ Len(SubSeq(log, 1, i - 1)) = i - 1
        /\ \A m \in 1..(i - 1) : SubSeq(log, 1, i - 1)[m] = log[m]
    BY <1>0, SubSeqProperties
  <2>2. /\ SubSeq(log, i, Len(log)) \in Seq(ToSet(log))
        /\ Len(SubSeq(log, i, Len(log))) = Len(log) - i + 1
        /\ SubSeq(log, i, Len(log))[1] = log[i]
    BY <1>0, SubSeqProperties
  <2> DEFINE front == SubSeq(log, 1, i - 1) \o <<log[j]>>
  <2>3. <<log[j]>> \in Seq(ToSet(log)) /\ Len(<<log[j]>>) = 1 /\ <<log[j]>>[1] = log[j]
    BY <1>0
  <2>4. /\ front \in Seq(ToSet(log)) /\ Len(front) = i /\ front[i] = log[j]
        /\ i # 1 => front[i - 1] = log[i - 1]
    BY <1>0, <2>1, <2>3, ConcatProperties
  <2> HIDE DEF front
  <2> DEFINE back == SubSeq(log, i, Len(log))
  <2> HIDE DEF back
  <2>5. /\ Len(front \o back) = Len(front) + Len(back)
        /\ \A m \in 1..Len(front) + Len(back) :
              (front \o back)[m] = IF m <= Len(front) THEN front[m] ELSE back[m - Len(front)]
    BY <2>2, <2>4, ConcatProperties DEF back
  <2>6. /\ Len(front \o back) = Len(log) + 1
        /\ (front \o back)[i] = log[j] /\ (front \o back)[i + 1] = log[i]
        /\ i # 1 => (front \o back)[i - 1] = log[i - 1]
    BY <1>0, <2>2, <2>4, <2>5 DEF back
  <2> QED BY <2>6 DEF InsertAt, front, back
<1>2. new[i].prev_hash = log[i].prev_hash
  BY <1>0, <1>1, SamePredecessor
<1>3. i = j
  BY <1>1, <1>2, Links
<1>4. log[i].prev_hash = log[i].entry_hash
  BY <1>0, <1>1, <1>3 DEF VerifyChain
<1>5. CASE i = 1
  BY <1>0, <1>4, <1>5, Links DEF WellChained, VerifyChain
<1>6. CASE i # 1
  BY <1>0, <1>4, <1>6 DEF WellChained, VerifyChain, HashesDistinct
<1> QED BY <1>5, <1>6

\* Two entries exchanged: the first of them follows the wrong entry.
LEMMA ExchangedEntriesShow ==
    ASSUME NEW log, WellChained(log), NEW i \in 1..Len(log), NEW j \in 1..Len(log),
           NEW new, new = ReplaceAt(ReplaceAt(log, i, log[j]), j, log[i]), new # log,
           VerifyChain(new)
    PROVE  FALSE
<1>0. Len(log) \in Nat /\ log \in [1..Len(log) -> ToSet(log)]
  BY Links
<1>1. /\ Len(new) = Len(log)
      /\ new[i] = log[j] /\ new[j] = log[i]
      /\ \A m \in 1..Len(log) : m # i /\ m # j => new[m] = log[m]
  BY <1>0 DEF WellChained, ReplaceAt
<1>2. i # j
  BY <1>0 DEF ReplaceAt
<1>3. CASE i < j
  <2>1. i \in 1..Len(new) /\ (i # 1 => new[i - 1] = log[i - 1])
    BY <1>0, <1>1, <1>3
  <2>2. new[i].prev_hash = log[i].prev_hash
    BY <2>1, SamePredecessor
  <2> QED BY <1>1, <1>2, <2>2, Links
<1>4. CASE j < i
  <2>1. j \in 1..Len(new) /\ (j # 1 => new[j - 1] = log[j - 1])
    BY <1>0, <1>1, <1>4
  <2>2. new[j].prev_hash = log[j].prev_hash
    BY <2>1, SamePredecessor
  <2> QED BY <1>1, <1>2, <2>2, Links
<1> QED BY <1>0, <1>2, <1>3, <1>4

\* REQ-052 for one log: verify_chain refuses every edited version of it.
THEOREM EveryEditShows ==
    ASSUME NEW log, WellChained(log), NEW f, NEW new \in Edits(log, f), new # log
    PROVE  ~VerifyChain(new)
<1> SUFFICES ASSUME VerifyChain(new) PROVE FALSE
  OBVIOUS
<1>1. CASE \E i \in 1..Len(log) :
             new = ReplaceAt(log, i, [fields |-> f, prev_hash |-> log[i].prev_hash,
                                      entry_hash |-> log[i].entry_hash])
  BY <1>1, ChangedFieldsShow
<1>2. CASE \E i \in 1..(Len(log) - 1) :
             new = ReplaceAt(log, i, Seal([fields |-> f, prev_hash |-> log[i].prev_hash]))
  BY <1>2, ResealedEntryShows
<1>3. CASE \E i \in 1..(Len(log) - 1) : new = RemoveAt(log, i)
  BY <1>3, RemovedEntryShows
<1>4. CASE \E i, j \in 1..Len(log) : new = InsertAt(log, i, log[j])
  BY <1>4, RepeatedEntryShows
<1>5. CASE \E i, j \in 1..Len(log) : new = ReplaceAt(ReplaceAt(log, i, log[j]), j, log[i])
  BY <1>5, ExchangedEntriesShow
<1> QED BY <1>1, <1>2, <1>3, <1>4, <1>5 DEF Edits

\* What the invariant of the log says of the log the ECU hands out.
THEOREM AuditInvImplies == AuditInv => ChainVerifies /\ TamperEvident
<1> SUFFICES ASSUME AuditInv PROVE ChainVerifies /\ TamperEvident
  OBVIOUS
<1>1. ChainVerifies
  BY DEF AuditInv, WellChained, ChainVerifies, LastHash
<1>2. TamperEvident
  BY EveryEditShows DEF AuditInv, TamperEvident
<1> QED BY <1>1, <1>2
============================================================================
