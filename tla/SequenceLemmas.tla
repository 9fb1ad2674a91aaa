--------------------------- MODULE SequenceLemmas ---------------------------
(***************************************************************************)
(* Facts about sequences and the sets of their elements that the proofs of *)
(* the audit log, the transport and the bridge share.                      *)
(***************************************************************************)
EXTENDS SequencesExt, SequenceTheorems, TLAPS

\* A sequence is one of its own elements.
LEMMA SeqOfItsElements ==
    ASSUME NEW S, NEW s \in Seq(S)
    PROVE  s \in Seq(ToSet(s))
<1>1. Len(s) \in Nat /\ s \in [1..Len(s) -> S] /\ DOMAIN s = 1..Len(s)
  BY LenProperties
<1>2. s \in [1..Len(s) -> ToSet(s)]
  BY <1>1 DEF ToSet
<1> QED BY <1>1, <1>2, SeqDef

\* What has been appended to is not empty.
LEMMA AppendNonempty ==
    ASSUME NEW S, NEW s \in Seq(S), NEW e
    PROVE  Append(s, e) # <<>>
<1>1. s \in Seq(S \cup {e})
  BY SeqMonotonic
<1> QED BY <1>1, AppendProperties

\* A sequence of length 0 is empty, and only that.
LEMMA LenZero ==
    ASSUME NEW S, NEW s \in Seq(S)
    PROVE  /\ s = <<>> <=> Len(s) = 0
           /\ s # <<>> => Len(s) \in Nat \ {0}
BY EmptySeq

\* The elements of a sequence are its head and those of its tail.
LEMMA HeadTailElements ==
    ASSUME NEW S, NEW s \in Seq(S), s # <<>>
    PROVE  /\ Head(s) = s[1]
           /\ ToSet(s) = {Head(s)} \cup ToSet(Tail(s))
<1>1. Len(s) \in Nat \ {0} /\ DOMAIN s = 1..Len(s)
  BY LenZero, LenProperties
<1>2. Head(s) = s[1]
  BY <1>1
<1>3. DOMAIN Tail(s) = 1..(Len(s) - 1) /\ \A i \in 1..(Len(s) - 1) : Tail(s)[i] = s[i + 1]
  BY HeadTailProperties, LenProperties
<1> DEFINE n == Len(s)
<1> HIDE DEF n
<1>4. ASSUME NEW e \in ToSet(s) PROVE e \in {Head(s)} \cup ToSet(Tail(s))
  <2>1. PICK i \in 1..n : e = s[i]
    BY <1>1 DEF ToSet, n
  <2>2. CASE i = 1
    BY <1>2, <2>1, <2>2
  <2>3. CASE i # 1
    <3>1. i - 1 \in 1..(n - 1) /\ (i - 1) + 1 = i
      BY <1>1, <2>3 DEF n
    <3> QED BY <1>3, <2>1, <3>1 DEF ToSet, n
  <2> QED BY <2>2, <2>3
<1>5. ASSUME NEW i \in 1..(n - 1) PROVE i + 1 \in 1..n
  BY <1>1 DEF n
<1>6. 1 \in 1..n
  BY <1>1 DEF n
<1> QED BY <1>1, <1>2, <1>3, <1>4, <1>5, <1>6 DEF ToSet, n

\* The elements of a concatenation are those of its parts.
LEMMA ConcatElements ==
    ASSUME NEW S, NEW s \in Seq(S), NEW t \in Seq(S)
    PROVE  ToSet(s \o t) = ToSet(s) \cup ToSet(t)
<1> DEFINE m == Len(s)  n == Len(t)
<1>1. /\ m \in Nat /\ DOMAIN s = 1..m
      /\ n \in Nat /\ DOMAIN t = 1..n
      /\ DOMAIN (s \o t) = 1..(m + n)
  BY LenProperties, ConcatProperties
<1>2. \A i \in 1..(m + n) : (s \o t)[i] = IF i <= m THEN s[i] ELSE t[i - m]
  BY ConcatProperties
<1> HIDE DEF m, n
<1>3. ASSUME NEW e \in ToSet(s \o t) PROVE e \in ToSet(s) \cup ToSet(t)
  <2>1. PICK i \in 1..(m + n) : e = (s \o t)[i]
    BY <1>1 DEF ToSet
  <2>2. CASE i <= m
    <3>1. i \in 1..m
      BY <1>1, <2>2
    <3> QED BY <1>1, <1>2, <2>1, <2>2, <3>1 DEF ToSet
  <2>3. CASE ~(i <= m)
    <3>1. i - m \in 1..n
      BY <1>1, <2>3
    <3> QED BY <1>1, <1>2, <2>1, <2>3, <3>1 DEF ToSet
  <2> QED BY <2>2, <2>3
<1>4. ASSUME NEW i \in 1..m PROVE i \in 1..(m + n) /\ i <= m
  BY <1>1
<1>5. ASSUME NEW i \in 1..n PROVE i + m \in 1..(m + n) /\ ~(i + m <= m) /\ (i + m) - m = i
  BY <1>1
<1>6. ASSUME NEW e \in ToSet(s) PROVE e \in ToSet(s \o t)
  <2>1. PICK i \in 1..m : e = s[i]
    BY <1>1 DEF ToSet
  <2> QED BY <1>1, <1>2, <1>4, <2>1 DEF ToSet
<1>7. ASSUME NEW e \in ToSet(t) PROVE e \in ToSet(s \o t)
  <2>1. PICK i \in 1..n : e = t[i]
    BY <1>1 DEF ToSet
  <2>2. (s \o t)[i + m] = e
    BY <1>2, <1>5, <2>1
  <2> QED BY <1>1, <1>5, <2>2 DEF ToSet
<1> QED BY <1>3, <1>6, <1>7

\* The same, for sequences of their own elements.
LEMMA ConcatOfElements ==
    ASSUME NEW s, NEW t, s \in Seq(ToSet(s)), t \in Seq(ToSet(t))
    PROVE  /\ s \o t \in Seq(ToSet(s \o t))
           /\ ToSet(s \o t) = ToSet(s) \cup ToSet(t)
<1> DEFINE S == ToSet(s) \cup ToSet(t)
<1>1. s \in Seq(S) /\ t \in Seq(S)
  BY SeqMonotonic
<1> HIDE DEF S
<1>2. s \o t \in Seq(S)
  BY <1>1, ConcatProperties
<1> QED BY <1>1, <1>2, ConcatElements, SeqOfItsElements

NoRepeats(q) == \A i, j \in 1..Len(q) : q[i] = q[j] => i = j

\* Taking the first of distinct elements off a queue.
LEMMA TailNoRepeats ==
    ASSUME NEW S, NEW q \in Seq(S), q # <<>>, NoRepeats(q)
    PROVE  NoRepeats(Tail(q)) /\ Head(q) \notin ToSet(Tail(q))
<1> DEFINE n == Len(q)
<1>1. n \in Nat \ {0} /\ Len(Tail(q)) = n - 1 /\ Head(q) = q[1]
  BY LenZero, HeadTailProperties, HeadTailElements
<1>2. DOMAIN Tail(q) = 1..(n - 1) /\ \A i \in 1..(n - 1) : Tail(q)[i] = q[i + 1]
  BY HeadTailProperties, LenProperties
<1>3. \A i, j \in 1..n : q[i] = q[j] => i = j
  BY DEF NoRepeats
<1> HIDE DEF n
<1>4. ASSUME NEW i \in 1..(n - 1) PROVE i + 1 \in 1..n /\ 1 \in 1..n /\ i + 1 # 1
  BY <1>1
<1>5. ASSUME NEW i \in 1..(n - 1), NEW j \in 1..(n - 1), i + 1 = j + 1 PROVE i = j
  BY <1>5
<1>6. ASSUME NEW i \in 1..(n - 1), NEW j \in 1..(n - 1), q[i + 1] = q[j + 1] PROVE i = j
  BY <1>3, <1>4, <1>5, <1>6
<1>7. NoRepeats(Tail(q))
  BY <1>1, <1>2, <1>6 DEF NoRepeats
<1>8. \A i \in 1..(n - 1) : q[i + 1] # q[1]
  BY <1>3, <1>4
<1> QED BY <1>1, <1>2, <1>7, <1>8 DEF ToSet

\* Queueing an element that is not there yet.
LEMMA AppendNoRepeats ==
    ASSUME NEW S, NEW q \in Seq(S), NEW e \in S, e \notin ToSet(q), NoRepeats(q)
    PROVE  /\ Append(q, e) \in Seq(S)
           /\ NoRepeats(Append(q, e))
           /\ ToSet(Append(q, e)) = ToSet(q) \cup {e}
           /\ Head(Append(q, e)) = IF q = <<>> THEN e ELSE Head(q)
<1> DEFINE n == Len(q)  r == Append(q, e)
<1>1. /\ n \in Nat /\ DOMAIN q = 1..n
      /\ r \in Seq(S) /\ Len(r) = n + 1 /\ r # <<>>
      /\ \A i \in 1..n : r[i] = q[i]
      /\ r[n + 1] = e
  BY LenProperties, AppendProperties
<1>2. DOMAIN r = 1..(n + 1)
  BY <1>1, LenProperties
<1>3. Head(r) = r[1] /\ (q # <<>> => Head(q) = q[1])
  BY <1>1, HeadTailElements
<1>4. (q = <<>> => n = 0) /\ (q # <<>> => n \in Nat \ {0})
  BY LenZero
<1>5. \A i, j \in 1..n : q[i] = q[j] => i = j
  BY DEF NoRepeats
<1>6. \A i \in 1..n : q[i] # e
  BY <1>1 DEF ToSet
<1> HIDE DEF n, r
<1>7. 1..(n + 1) = (1..n) \cup {n + 1} /\ n + 1 \notin 1..n
  BY <1>1
<1>8. NoRepeats(r)
  BY <1>1, <1>5, <1>6, <1>7 DEF NoRepeats
<1>9. ToSet(r) = ToSet(q) \cup {e}
  BY <1>1, <1>2, <1>7 DEF ToSet
<1>10. Head(r) = IF q = <<>> THEN e ELSE Head(q)
  <2>1. CASE q = <<>>
    BY <1>1, <1>3, <1>4, <2>1
  <2>2. CASE q # <<>>
    <3>1. 1 \in 1..n
      BY <1>4, <2>2
    <3> QED BY <1>1, <1>3, <2>2, <3>1
  <2> QED BY <2>1, <2>2
<1> QED BY <1>1, <1>8, <1>9, <1>10 DEF r
============================================================================
