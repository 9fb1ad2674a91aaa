--------------------------- MODULE Bridge_proofs ---------------------------
(***************************************************************************)
(* The bridge, for any number of pages, commands and connects.             *)
(*                                                                         *)
(* The invariant has a part for each thing the awaits could upset: TodoInv *)
(* says how a task's remaining steps follow one another, LockInv which     *)
(* tasks may be in the middle of a command, ChallengeInv that the proof a  *)
(* command is about to send still fits, and DeliveryInv that some command  *)
(* under way will bring the newest audit entry to a page that lacks it.    *)
(***************************************************************************)
EXTENDS Bridge, VirtualECU_proofs, FiniteSetTheorems, SequenceLemmas

(* What a task has still to do.                                            *)

\* Nothing comes after one of these until its answer is there.
FinalOps == {"snapshot", "periodic", "session", "seed", "seed_to_fail", "key", "communicate",
             "verify", "deauth", "tamper", "replay", "boot"}

\* A nonce replay ends with the tail, and nothing but rows come before a proof.
Shape(q) ==
    /\ q \in Seq(ToSet(q))
    /\ \A i \in 1..Len(q) :
         /\ Op(q[i]) \in FinalOps => i = Len(q)
         /\ Op(q[i]) = "verify_replay" => q[Len(q)] = PushTail
         /\ i # Len(q) /\ Op(q[Len(q)]) = "verify" => q[i] = Rows

\* The arguments the ECU's handlers get.
Legal(s) ==
    /\ Op(s) = "session" => Arg(s) \in Requests
    /\ Op(s) \in {"seed", "seed_to_fail"} => Arg(s) \in Levels
    /\ Op(s) = "key" => Arg(s) \in [level : Levels, key : Keys]
    /\ Op(s) \in {"communicate", "communicate_again", "replay"} => Arg(s) \in Certs
    /\ Op(s) \in {"communicate", "replay"} => Arg(s) \in {"tester", "expired"}
    /\ Op(s) = "replay" => Arg(s) = "tester"
    /\ Op(s) \in {"verify", "verify_replay"} => "tester" \in Certs
    /\ Op(s) \in {"verify", "verify_replay", "inject"} => Arg(s) \in 1..drawn

TodoInv ==
    /\ DOMAIN todo = Tasks
    /\ \A x \in Tasks : Shape(todo[x]) /\ \A s \in ToSet(todo[x]) : Legal(s)

\* What tasks do without the lock: the snapshot of a new page, periodic_push.
FreeOps == {"snapshot", "periodic", "counter", "broadcast", "sending"}

\* Only the holder of the lock is in the middle of a command; those who wait
\* for it have not begun.
LockInv ==
    /\ lock_queue \in Seq(Browsers)
    /\ NoRepeats(lock_queue)
    /\ \A x \in ToSet(lock_queue) : todo[x] # <<>>
    /\ \A x \in Tasks \ ToSet(lock_queue) : \A s \in ToSet(todo[x]) : Op(s) \in FreeOps
    /\ \A x \in ToSet(lock_queue) :
         x # Head(lock_queue) => \E cmd \in Commands : todo[x] = Program(cmd)

\* The proof for challenge n would be accepted.
Fits(n) ==
    /\ pending_challenge = n
    /\ pending_tester_cert = "tester"
    /\ n \notin used_nonces

\* Challenges are drawn before they are used.
NoncesDrawn == used_nonces \subseteq 0..drawn /\ pending_challenge \in (0..drawn) \cup {None}

ChallengeInv ==
    /\ NoncesDrawn
    /\ \A x \in Tasks : \A s \in ToSet(todo[x]) :
         Op(s) = "verify" => CurrentAt(now) = DEFAULT \/ Fits(Arg(s))

\* Doing s brings the newest entry to page w.
Delivers(s, w) ==
    \/ Op(s) \in {"tail", "snapshot"}
    \/ s = Broadcast("entry", <<boots, entries>>)
    \/ Op(s) = "sending" /\ Arg(s) = <<"entry", <<boots, entries>>>> /\ w \in s[3]

DeliveryInv ==
    /\ entries \in Nat
    /\ client_ok /\ entries > 0 =>
         \A w \in Connected \cap behind :
             \E x \in Browsers : \E s \in ToSet(todo[x]) : Delivers(s, w)

\* A page has no task before it connects.
OpenedInv ==
    /\ opened \in Nat
    /\ handlers \subseteq 1..opened
    /\ \A w \in Browsers \ (1..opened) : todo[w] = <<>>

BridgeInv == TodoInv /\ LockInv /\ ChallengeInv /\ DeliveryInv /\ OpenedInv


----------------------------------------------------------------------------
(* Shapes.                                                                 *)

\* A task with nothing to do.
LEMMA EmptyShape == Shape(<<>>) /\ ToSet(<<>>) = {}
BY DEF Shape, ToSet

\* The tail of a shape.
LEMMA TailShape ==
    ASSUME NEW q, Shape(q), q # <<>>
    PROVE  Shape(Tail(q)) /\ Head(q) = q[1] /\ ToSet(q) = {Head(q)} \cup ToSet(Tail(q))
<1> DEFINE r == Tail(q)  n == Len(q)
<1>1. /\ n \in Nat \ {0} /\ q \in Seq(ToSet(q))
      /\ Len(r) = n - 1 /\ \A i \in 1..(n - 1) : r[i] = q[i + 1]
  BY LenZero, HeadTailProperties DEF Shape
<1>2. r \in Seq(ToSet(r))
  BY HeadTailProperties, SeqOfItsElements DEF Shape
<1>3. Head(q) = q[1] /\ ToSet(q) = {Head(q)} \cup ToSet(r)
  BY HeadTailElements DEF Shape
<1> HIDE DEF r
<1>4. \A i \in 1..n :
         /\ Op(q[i]) \in FinalOps => i = n
         /\ Op(q[i]) = "verify_replay" => q[n] = PushTail
         /\ i # n /\ Op(q[n]) = "verify" => q[i] = Rows
  BY DEF Shape
<1> HIDE DEF n
<1>5. ASSUME NEW i \in 1..(n - 1)
      PROVE  /\ r[i] = q[i + 1] /\ r[n - 1] = q[n] /\ i + 1 \in 1..n
             /\ i + 1 = n <=> i = n - 1
  BY <1>1
<1>6. ASSUME NEW i \in 1..(n - 1)
      PROVE  /\ Op(r[i]) \in FinalOps => i = n - 1
             /\ Op(r[i]) = "verify_replay" => r[n - 1] = PushTail
             /\ i # n - 1 /\ Op(r[n - 1]) = "verify" => r[i] = Rows
  BY <1>4, <1>5
<1> QED BY <1>1, <1>2, <1>3, <1>6 DEF Shape, r

\* What comes last.
LEMMA FinalAlone ==
    ASSUME NEW q, Shape(q), q # <<>>, Op(Head(q)) \in FinalOps
    PROVE  Tail(q) = <<>>
<1>1. Len(q) \in Nat \ {0} /\ q \in Seq(ToSet(q)) /\ Head(q) = q[1]
  BY LenZero, TailShape DEF Shape
<1> DEFINE n == Len(q)
<1>2. 1 \in 1..n
  <2>1. n \in Nat \ {0}
    BY <1>1
  <2> HIDE DEF n
  <2> QED BY <2>1
<1>3. 1 = n
  BY <1>1, <1>2 DEF Shape
<1>4. Len(Tail(q)) = 0 /\ Tail(q) \in Seq(ToSet(q))
  BY <1>1, <1>3, HeadTailProperties
<1> QED BY <1>4, LenZero

\* A sequence with none of the special steps.
LEMMA PlainShape ==
    ASSUME NEW q, q \in Seq(ToSet(q)),
           \A s \in ToSet(q) : Op(s) \notin FinalOps \cup {"verify_replay"}
    PROVE  Shape(q)
<1>1. DOMAIN q = 1..Len(q) /\ Len(q) \in Nat
  BY LenProperties
<1>2. \A i \in 1..Len(q) : q[i] \in ToSet(q)
  BY <1>1 DEF ToSet
<1>3. \A i \in 1..Len(q) : q[Len(q)] \in ToSet(q)
  <2> DEFINE n == Len(q)
  <2>1. \A i \in 1..n : n \in 1..n
    <3> HIDE DEF n
    <3> QED BY <1>1 DEF n
  <2> QED BY <1>2, <2>1
<1>4. "verify" \in FinalOps
  BY DEF FinalOps
<1> QED BY <1>2, <1>3, <1>4 DEF Shape

\* Only rows are sent before a proof.
LEMMA NoProofBehind ==
    ASSUME NEW q, Shape(q), q # <<>>, Head(q) # Rows
    PROVE  \A s \in ToSet(Tail(q)) : Op(s) # "verify"
<1> DEFINE n == Len(q)
<1>1. n \in Nat \ {0} /\ q \in Seq(ToSet(q)) /\ Head(q) = q[1]
  BY LenZero, TailShape DEF Shape
<1>2. DOMAIN Tail(q) = 1..(n - 1) /\ \A i \in 1..(n - 1) : Tail(q)[i] = q[i + 1]
  BY <1>1, HeadTailProperties, LenProperties
<1>3. \A i \in 1..n :
         /\ Op(q[i]) \in FinalOps => i = n
         /\ i # n /\ Op(q[n]) = "verify" => q[i] = Rows
  BY DEF Shape
<1> HIDE DEF n
<1>4. ASSUME NEW i \in 1..(n - 1), Op(q[i + 1]) = "verify" PROVE FALSE
  <2>1. i + 1 \in 1..n /\ 1 \in 1..n
    BY <1>1
  <2>2. i + 1 = n
    BY <1>3, <1>4, <2>1 DEF FinalOps
  <2>3. 1 # n
    BY <2>2
  <2> QED BY <1>1, <1>3, <1>4, <2>1, <2>2, <2>3
<1> QED BY <1>2, <1>4 DEF ToSet

\* Plain steps in front of a shape.
LEMMA JoinShape ==
    ASSUME NEW p, p \in Seq(ToSet(p)), \A s \in ToSet(p) : Op(s) \notin FinalOps \cup {"verify_replay"},
           NEW r, Shape(r), \A s \in ToSet(r) : Op(s) # "verify"
    PROVE  Shape(p \o r) /\ ToSet(p \o r) = ToSet(p) \cup ToSet(r)
<1> DEFINE m == Len(p)  k == Len(r)  q == p \o r
<1>1. q \in Seq(ToSet(q)) /\ ToSet(q) = ToSet(p) \cup ToSet(r)
  BY ConcatOfElements DEF Shape
<1>2. CASE r = <<>>
  BY <1>1, <1>2, ConcatEmptySeq, PlainShape
<1>3. CASE r # <<>>
  <2>1. m \in Nat /\ DOMAIN p = 1..m /\ k \in Nat \ {0} /\ DOMAIN r = 1..k
    BY <1>3, LenProperties, LenZero DEF Shape
  <2>2. Len(q) = m + k /\ \A i \in 1..(m + k) : q[i] = IF i <= m THEN p[i] ELSE r[i - m]
    <3> DEFINE S == ToSet(p) \cup ToSet(r)
    <3>1. p \in Seq(S) /\ r \in Seq(S)
      BY SeqMonotonic DEF Shape
    <3> HIDE DEF S
    <3> QED BY <3>1, ConcatProperties
  <2>3. \A i \in 1..k :
          /\ Op(r[i]) \in FinalOps => i = k
          /\ Op(r[i]) = "verify_replay" => r[k] = PushTail
    BY DEF Shape
  <2>4. \A i \in 1..m : Op(p[i]) \notin FinalOps \cup {"verify_replay"}
    BY <2>1 DEF ToSet
  <2>5. \A i \in 1..k : Op(r[i]) # "verify"
    BY <2>1 DEF ToSet
  <2> HIDE DEF m, k, q
  <2>6. q[m + k] = r[k] /\ k \in 1..k
    <3>1. m + k \in 1..(m + k) /\ ~(m + k <= m) /\ (m + k) - m = k /\ k \in 1..k
      BY <2>1
    <3> QED BY <2>2, <3>1
  <2>7. ASSUME NEW i \in 1..(m + k)
        PROVE  /\ Op(q[i]) \in FinalOps => i = m + k
               /\ Op(q[i]) = "verify_replay" => q[m + k] = PushTail
               /\ i # m + k /\ Op(q[m + k]) = "verify" => q[i] = Rows
    <3>1. CASE i <= m
      <4>1. i \in 1..m
        BY <2>1, <3>1
      <4> QED BY <2>2, <2>4, <2>5, <2>6, <3>1, <4>1
    <3>2. CASE ~(i <= m)
      <4>1. i - m \in 1..k /\ (i - m = k => i = m + k)
        BY <2>1, <3>2
      <4> QED BY <2>2, <2>3, <2>5, <2>6, <3>2, <4>1
    <3> QED BY <3>1, <3>2
  <2> QED BY <1>1, <2>2, <2>7 DEF Shape, q
<1> QED BY <1>2, <1>3

\* One broadcast more per level.
LEMMA CountersShape ==
    /\ PushCounters \in Seq(ToSet(PushCounters))
    /\ \A s \in ToSet(PushCounters) : Op(s) = "counter"
<1> DEFINE C == {Do("counter", l) : l \in Levels}
           n == Cardinality(C)
<1>1. IsFiniteSet(C)
  <2>1. C \subseteq {Do("counter", "CALIBRATION")} \cup {Do("counter", "ECU_PROGRAMMING")}
    BY SecurityAccessAssumption
  <2>2. IsFiniteSet({Do("counter", "CALIBRATION")} \cup {Do("counter", "ECU_PROGRAMMING")})
    BY FS_Singleton, FS_AddElement
  <2> QED BY <2>1, <2>2, FS_Subset
<1>2. n \in Nat /\ ExistsBijection(1..n, C)
  BY <1>1, FS_CardinalityType
<1> HIDE DEF n
<1>3. \E f \in [1..n -> C] : IsInjective(f)
  BY <1>2 DEF ExistsBijection, Bijection, Injection, IsInjective
<1>4. PushCounters \in [1..n -> C]
  BY <1>3 DEF PushCounters, SetToSeq, n
<1>5. PushCounters \in Seq(C)
  BY <1>2, <1>4, SeqDef
<1>6. \A s \in C : Op(s) = "counter"
  BY DEF Do, Op
<1> QED BY <1>4, <1>5, <1>6, SeqOfItsElements DEF ToSet

----------------------------------------------------------------------------
(* Commands and answers.                                                   *)

\* What arises only in the middle of a command.
MiddleOps == {"verify", "verify_replay", "inject", "communicate_again"}

\* A command begins with a shape of legal steps, none from the middle.
LEMMA ProgramSteps ==
    ASSUME NEW cmd \in Commands
    PROVE  /\ Shape(Program(cmd)) /\ Program(cmd) # <<>>
           /\ \A s \in ToSet(Program(cmd)) : Legal(s) /\ Op(s) \notin MiddleOps
<1> DEFINE Good(q) == /\ Shape(q) /\ q # <<>>
                      /\ \A s \in ToSet(q) : Legal(s) /\ Op(s) \notin MiddleOps
           Fine(s) == Legal(s) /\ Op(s) \notin MiddleOps
<1>1. \A s : Op(s) \notin MiddleOps => Shape(<<s>>)
  BY DEF Shape, ToSet, MiddleOps
<1>2. \A s : Op(s) \notin MiddleOps => Shape(<<Rows, s>>)
  BY DEF Shape, ToSet, Rows, Do, Op, FinalOps, MiddleOps
<1>3. \A s : Op(s) \notin MiddleOps => Shape(<<Do("state", None), Rows, s>>)
  BY DEF Shape, ToSet, Rows, Do, Op, FinalOps, MiddleOps
<1>4. Fine(Rows) /\ Fine(Do("state", None)) /\ Fine(Do("snapshot", None)) /\ Fine(Do("boot", None))
      /\ Fine(Do("deauth", None)) /\ Fine(Do("tamper", None))
  BY DEF Rows, Do, Op, Arg, Legal, MiddleOps
<1>5. ASSUME cmd.name = "session" PROVE Fine(Do("session", cmd.arg))
  BY <1>5, CommandsAssumption DEF Do, Op, Arg, Legal, MiddleOps
<1>6. ASSUME cmd.name = "0x27_seed" PROVE Fine(Do("seed", cmd.arg))
  BY <1>6, CommandsAssumption DEF Do, Op, Arg, Legal, MiddleOps
<1>7. ASSUME cmd.name = "0x27_key" PROVE Fine(Do("key", cmd.arg))
  BY <1>7, CommandsAssumption DEF Do, Op, Arg, Legal, MiddleOps
<1>8. ASSUME cmd.name = "0x29_auth" PROVE Fine(Do("communicate", "tester"))
  BY <1>8, CommandsAssumption DEF Do, Op, Arg, Legal, MiddleOps
<1>9. ASSUME cmd.name = "inject_wrong_key" PROVE Fine(Do("seed_to_fail", cmd.arg))
  BY <1>9, CommandsAssumption DEF Do, Op, Arg, Legal, MiddleOps
<1>10. ASSUME cmd.name = "inject_expired_cert" PROVE Fine(Do("communicate", "expired"))
  BY <1>10, CommandsAssumption DEF Do, Op, Arg, Legal, MiddleOps
<1>11. ASSUME cmd.name = "inject_replay_nonce" PROVE Fine(Do("replay", "tester"))
  BY <1>11, CommandsAssumption DEF Do, Op, Arg, Legal, MiddleOps
<1>12. \/ \E s : Program(cmd) = <<s>> /\ Fine(s)
       \/ \E s : Program(cmd) = <<Rows, s>> /\ Fine(s)
       \/ \E s : Program(cmd) = <<Do("state", None), Rows, s>> /\ Fine(s)
  <2> HIDE DEF Fine
  <2> QED BY <1>4, <1>5, <1>6, <1>7, <1>8, <1>9, <1>10, <1>11, CommandsAssumption
          DEF Program, CommandNames
<1>13. ASSUME NEW s, Fine(s) PROVE Op(s) \notin MiddleOps
  BY <1>13
<1>14. ASSUME NEW s, Fine(s) PROVE Good(<<s>>) /\ Good(<<Rows, s>>) /\ Good(<<Do("state", None), Rows, s>>)
  <2> HIDE DEF Fine
  <2>1. \A q : Shape(q) /\ q # <<>> /\ (\A u \in ToSet(q) : Fine(u)) => Good(q)
    BY DEF Fine
  <2> DEFINE q1 == <<s>>  q2 == <<Rows, s>>  q3 == <<Do("state", None), Rows, s>>
  <2>2. q1 # <<>> /\ q2 # <<>> /\ q3 # <<>>
    OBVIOUS
  <2>3. ToSet(q1) = {s} /\ ToSet(q2) = {Rows, s} /\ ToSet(q3) = {Do("state", None), Rows, s}
    BY DEF ToSet
  <2>4. Shape(q1) /\ Shape(q2) /\ Shape(q3)
    BY <1>1, <1>2, <1>3, <1>13, <1>14
  <2> HIDE DEF Good, q1, q2, q3
  <2>5. Good(q1) /\ Good(q2) /\ Good(q3)
    BY <1>4, <1>14, <2>1, <2>2, <2>3, <2>4
  <2> QED BY <2>5 DEF q1, q2, q3
<1> QED BY <1>12, <1>14

----------------------------------------------------------------------------
(* The ECU behind the bridge.                                              *)

\* The bridge is one of the ECU's clients, and calls it without delay.
LEMMA BridgeIsClient == Bridge \in Clients
BY BridgeAssumption DEF Bridge

\* An RPC step with legal arguments is a request, or only reads.
LEMMA PerformIsRequest ==
    ASSUME Inv, NEW s, Legal(s), Perform(s)
    PROVE  Request(Bridge, now) \/ UNCHANGED vars
<1>1. CASE Op(s) \in {"snapshot", "state", "periodic"} /\ GetSessionState(Bridge, now)
  BY <1>1 DEF Request
<1>2. CASE Op(s) = "session" /\ SessionControl(Bridge, Arg(s), now)
  BY <1>2 DEF Request, Legal
<1>3. CASE Op(s) \in {"seed", "seed_to_fail"} /\ RequestSeed(Bridge, SeedSubfunction(Arg(s)), now)
  <2>1. SeedSubfunction(Arg(s)) \in Subfunctions
    BY DEF SeedSubfunction, Subfunctions
  <2> QED BY <1>3, <2>1 DEF Request
<1>4. CASE Op(s) = "key" /\ SendKey(Bridge, KeySubfunction(Arg(s).level), Arg(s).key, now)
  <2>1. KeySubfunction(Arg(s).level) \in Subfunctions /\ Arg(s).key \in Keys
    BY <1>4 DEF KeySubfunction, SeedSubfunction, Subfunctions, Legal
  <2> QED BY <1>4, <2>1 DEF Request
<1>5. CASE Op(s) \in {"communicate", "replay", "communicate_again"}
           /\ CommunicateCertificate(Bridge, Arg(s), now)
  BY <1>5 DEF Request, Legal
<1>6. CASE Op(s) \in {"verify", "verify_replay"}
           /\ VerifyProof(Bridge, [signer |-> "tester", data |-> Arg(s)], now)
  <2>1. "tester" \in Certs /\ Arg(s) \in 1..drawn /\ drawn \in 0..MaxDraws /\ MaxDraws \in Nat
    BY <1>6, AuthenticationAssumption DEF Legal, Inv, ExchangeInv, AuthenticationTypeOK, Nonces
  <2>2. [signer |-> "tester", data |-> Arg(s)] \in Proofs /\ Arg(s) <= drawn
    BY <2>1 DEF Proofs, Nonces
  <2> QED BY <1>6, <2>2 DEF Request
<1>7. CASE Op(s) = "deauth" /\ Deauthenticate(Bridge)
  BY <1>7 DEF Request
<1>8. CASE Op(s) = "tamper" /\ InjectTamper(Bridge, now)
  BY <1>8 DEF Request
<1>9. CASE Op(s) = "inject" /\ InjectReplayNonce(Bridge, Arg(s))
  <2>1. Arg(s) \in 0..drawn
    BY <1>9 DEF Legal, Inv, ExchangeInv, AuthenticationTypeOK, Nonces
  <2> QED BY <1>9, <2>1 DEF Request
<1>10. CASE Op(s) \in {"counter", "tail"} /\ UNCHANGED vars
  BY <1>10
<1> QED BY <1>1, <1>2, <1>3, <1>4, <1>5, <1>6, <1>7, <1>8, <1>9, <1>10 DEF Perform

\* No request forgets a draw, and every challenge it uses has been drawn.
LEMMA RequestDrawn ==
    ASSUME Inv, NoncesDrawn, NEW c, NEW t, Request(c, t)
    PROVE  NoncesDrawn' /\ 0..drawn \subseteq 0..drawn' /\ 1..drawn \subseteq 1..drawn'
<1> DEFINE Goal == NoncesDrawn' /\ 0..drawn \subseteq 0..drawn' /\ 1..drawn \subseteq 1..drawn'
<1>1. ASSUME UNCHANGED authVars PROVE Goal
  BY <1>1 DEF authVars, NoncesDrawn
<1>2. ASSUME NEW op, NEW nrc, NEW u, Refuse(c, op, nrc, u) PROVE Goal
  BY <1>1, <1>2 DEF Refuse
<1>3. ASSUME ClearAccess29 PROVE Goal
  BY <1>3 DEF ClearAccess29, NoncesDrawn
<1>4. ASSUME NEW target, SessionControl(c, target, t) PROVE Goal
  BY <1>1, <1>2, <1>3, <1>4 DEF SessionControl, ClearAccessLevels
<1>5. CASE GetSessionState(c, t)
  BY <1>1, <1>5 DEF GetSessionState
<1>6. CASE InjectTamper(c, t)
  BY <1>3, <1>6 DEF InjectTamper, ClearAccessLevels
<1>7. ASSUME NEW sf, RequestSeed(c, sf, t) PROVE Goal
  BY <1>1, <1>2, <1>7 DEF RequestSeed
<1>8. ASSUME NEW sf, NEW key, SendKey(c, sf, key, t) PROVE Goal
  BY <1>1, <1>2, <1>8 DEF SendKey
<1>9. ASSUME NEW cert, CommunicateCertificate(c, cert, t) PROVE Goal
  <2>1. ASSUME IssueChallenge(cert) PROVE Goal
    <3>1. PICK n \in Nat : n = drawn
      BY DEF Inv, ExchangeInv, AuthenticationTypeOK, Nonces
    <3>2. 0..n \subseteq 0..(n + 1) /\ 1..n \subseteq 1..(n + 1) /\ n + 1 \in 0..(n + 1)
      OBVIOUS
    <3>3. drawn' = n + 1 /\ pending_challenge' = n + 1 /\ used_nonces' = used_nonces
      BY <2>1, <3>1 DEF IssueChallenge, DrawChallenge
    <3> QED BY <3>1, <3>2, <3>3 DEF NoncesDrawn
  <2> QED BY <1>2, <1>9, <2>1 DEF CommunicateCertificate
<1>10. ASSUME NEW proof, VerifyProof(c, proof, t) PROVE Goal
  <2>1. ASSUME AcceptProof(CurrentAt(now)), VerifyProofOutcome(proof) = "positive" PROVE Goal
    BY <2>1 DEF AcceptProof, VerifyProofOutcome, NoncesDrawn
  <2>2. ASSUME RejectProof PROVE Goal
    BY <2>2 DEF RejectProof, NoncesDrawn
  <2> QED BY <1>2, <1>10, <2>1, <2>2 DEF VerifyProof
<1>11. CASE MalformedProof(c)
  BY <1>2, <1>11 DEF MalformedProof
<1>12. CASE Deauthenticate(c)
  BY <1>2, <1>3, <1>12 DEF Deauthenticate
<1>13. ASSUME NEW level, CheckAccess(c, level) PROVE Goal
  BY <1>1, <1>3, <1>13 DEF CheckAccess, ClearAccessLevels
<1>14. ASSUME NEW n \in 0..drawn, InjectReplayNonce(c, n) PROVE Goal
  BY <1>14 DEF InjectReplayNonce, InjectNonce, NoncesDrawn
<1>15. ASSUME NEW service_id, NEW payload, SendUdsPdu(c, service_id, payload, t) PROVE Goal
  BY <1>1, <1>4, <1>7, <1>15 DEF SendUdsPdu
<1> QED BY <1>4, <1>5, <1>6, <1>7, <1>8, <1>9, <1>10, <1>11, <1>12, <1>13, <1>14, <1>15 DEF Request

\* Which RPC steps the ECU logs.
LEMMA EmitsWhen ==
    ASSUME NEW s, Perform(s), Emits(s)
    PROVE  /\ Op(s) \in {"session", "key", "verify", "verify_replay", "tamper"}
           /\ Op(s) = "session" => out'.result = "positive"
<1> DEFINE Silent == out'.event = None
<1>1. ASSUME NEW c, NEW op, NEW nrc, NEW u, Refuse(c, op, nrc, u) PROVE Silent
  BY <1>1 DEF Refuse, Answer
<1>2. ASSUME GetSessionState(Bridge, now) PROVE Silent
  BY <1>2 DEF GetSessionState, Answer
<1>3. ASSUME NEW sf, RequestSeed(Bridge, sf, now) PROVE Silent
  BY <1>1, <1>3 DEF RequestSeed, Answer
<1>4. ASSUME NEW cert, CommunicateCertificate(Bridge, cert, now) PROVE Silent
  BY <1>1, <1>4 DEF CommunicateCertificate, Answer
<1>5. ASSUME Deauthenticate(Bridge) PROVE Silent
  BY <1>1, <1>5 DEF Deauthenticate, Answer
<1>6. ASSUME NEW n, InjectReplayNonce(Bridge, n) PROVE Silent
  BY <1>6 DEF InjectReplayNonce, Answer
<1>7. ASSUME NEW target, SessionControl(Bridge, target, now) PROVE Silent \/ out'.result = "positive"
  BY <1>1, <1>7 DEF SessionControl, Answer
<1> QED BY <1>2, <1>3, <1>4, <1>5, <1>6, <1>7 DEF Perform, Emits

\* A positive answer to a certificate: there is a new challenge, and it was not
\* the expired one.
LEMMA PositiveChallenge ==
    ASSUME Inv, NoncesDrawn, NEW cert \in Certs, CommunicateCertificate(Bridge, cert, now),
           out'.result = "positive"
    PROVE  /\ cert # "expired"
           /\ pending_challenge' \in 1..drawn'
           /\ pending_challenge' \notin used_nonces'
           /\ pending_tester_cert' = cert
<1>1. ASSUME NEW c, NEW op, NEW nrc, NEW u, Refuse(c, op, nrc, u) PROVE out'.result = nrc
  BY <1>1 DEF Refuse, Answer
<1>2. ValidateCert(cert, now) = "positive" /\ IssueChallenge(cert)
  BY <1>1 DEF CommunicateCertificate
<1>3. cert # "expired"
  BY <1>2, CertificatesAssumption DEF ValidateCert, Inv, SessionTypeOK
<1>4. PICK n \in Nat : n = drawn
  BY DEF Inv, ExchangeInv, AuthenticationTypeOK, Nonces
<1>5. n + 1 \in 1..(n + 1) /\ n + 1 \notin 0..n
  OBVIOUS
<1>6. drawn' = n + 1 /\ pending_challenge' = n + 1 /\ used_nonces' = used_nonces
      /\ pending_tester_cert' = cert
  BY <1>2, <1>4 DEF IssueChallenge, DrawChallenge
<1> QED BY <1>3, <1>4, <1>5, <1>6 DEF NoncesDrawn

\* Steps any task may have left, whatever the ECU's state.
PlainOps == {"rows", "broadcast", "sending", "counter", "tail"}

\* Plain steps make a legal shape.
LEMMA PlainSteps ==
    ASSUME NEW q, q \in Seq(ToSet(q)), \A u \in ToSet(q) : Op(u) \in PlainOps
    PROVE  Shape(q) /\ \A u \in ToSet(q) : Legal(u)' /\ Op(u) # "verify"
<1>1. \A u \in ToSet(q) : Op(u) \notin FinalOps \cup {"verify_replay"}
  BY DEF PlainOps, FinalOps
<1>2. Shape(q)
  BY <1>1, PlainShape
<1>3. \A u \in ToSet(q) : Legal(u)' /\ Op(u) # "verify"
  BY DEF PlainOps, Legal
<1> QED BY <1>2, <1>3

\* Most answers lead to plain steps only.
LEMMA AnsweredPlain ==
    ASSUME NEW s, Op(s) \in RpcOps \ {"seed_to_fail", "communicate", "replay"}
    PROVE  /\ Answered(s) \in Seq(ToSet(Answered(s)))
           /\ \A u \in ToSet(Answered(s)) :
                /\ Op(u) \in PlainOps
                /\ Op(s) \notin FinalOps => Op(u) = "broadcast"
                /\ Op(s) \in FreeOps => Op(u) \in FreeOps
<1> DEFINE q == Answered(s)
           Good(p) == /\ p \in Seq(ToSet(p))
                      /\ \A u \in ToSet(p) :
                           /\ Op(u) \in PlainOps
                           /\ Op(s) \notin FinalOps => Op(u) = "broadcast"
                           /\ Op(s) \in FreeOps => Op(u) \in FreeOps
<1> USE DEF PlainOps, FinalOps, FreeOps
<1>1. \A type, v : Op(Broadcast(type, v)) = "broadcast"
  BY DEF Broadcast, Do, Op
<1>2. Op(Rows) = "rows" /\ Op(PushTail) = "tail" /\ \A l : Op(Do("counter", l)) = "counter"
  BY DEF Rows, PushTail, Do, Op
<1>3. NewestEntry \in Seq(ToSet(NewestEntry)) /\ \A u \in ToSet(NewestEntry) : Op(u) = "broadcast"
  BY <1>1 DEF NewestEntry, ToSet
<1>4. CASE Op(s) = "snapshot"
  <2> DEFINE b == <<Broadcast("snapshot", Snapshot)>>
  <2>1. q = b \o NewestEntry
    BY <1>4 DEF Answered
  <2>2. b \in Seq(ToSet(b)) /\ ToSet(b) = {Broadcast("snapshot", Snapshot)}
    BY DEF ToSet
  <2> HIDE DEF b, q
  <2>3. q \in Seq(ToSet(q)) /\ ToSet(q) = ToSet(b) \cup ToSet(NewestEntry)
    BY <1>3, <2>1, <2>2, ConcatOfElements
  <2>4. Good(q)
    BY <1>1, <1>3, <1>4, <2>2, <2>3
  <2> QED BY <2>4 DEF q
<1>5. CASE Op(s) = "periodic"
  <2> DEFINE b == <<Broadcast("session", session')>>
  <2>1. q = b \o PushCounters
    BY <1>5 DEF Answered
  <2>2. b \in Seq(ToSet(b)) /\ ToSet(b) = {Broadcast("session", session')}
    BY DEF ToSet
  <2> HIDE DEF b, q
  <2>3. q \in Seq(ToSet(q)) /\ ToSet(q) = ToSet(b) \cup ToSet(PushCounters)
    BY <2>1, <2>2, ConcatOfElements, CountersShape
  <2>4. Good(q)
    BY <1>1, <1>5, <2>2, <2>3, CountersShape
  <2> QED BY <2>4 DEF q
<1>6. CASE Op(s) = "counter"
  <2> DEFINE v == [level |-> Arg(s), count |-> attempt_counters[Arg(s)]]
  <2>1. q = <<Broadcast("attempts", v)>>
    BY <1>6 DEF Answered
  <2> HIDE DEF v
  <2> QED BY <1>1, <1>6, <2>1 DEF ToSet
<1>7. CASE Op(s) = "tail"
  <2>1. q = NewestEntry
    BY <1>7 DEF Answered
  <2> QED BY <1>3, <1>7, <2>1
<1>8. CASE Op(s) = "session"
  <2>1. q = <<Rows, Broadcast("session", Arg(s)), PushTail>> \/ q = <<Rows>>
    BY <1>8 DEF Answered
  <2> QED BY <1>1, <1>2, <1>8, <2>1 DEF ToSet
<1>9. CASE Op(s) = "seed"
  <2>1. q = <<Rows>>
    BY <1>9 DEF Answered
  <2> QED BY <1>2, <1>9, <2>1 DEF ToSet
<1>10. CASE Op(s) = "key"
  <2>1. CASE q = <<Rows, Broadcast("access", out'.level), Do("counter", out'.level), PushTail>>
    BY <1>1, <1>2, <1>10, <2>1 DEF ToSet
  <2>2. CASE q = <<Rows>> \o PushCounters \o <<PushTail>>
    <3> DEFINE a == <<Rows>>  b == <<PushTail>>  p == a \o PushCounters
    <3>1. /\ a \in Seq(ToSet(a)) /\ ToSet(a) = {Rows}
          /\ b \in Seq(ToSet(b)) /\ ToSet(b) = {PushTail}
      BY DEF ToSet
    <3>2. q = p \o b
      BY <2>2
    <3> HIDE DEF a, b, q
    <3>3. p \in Seq(ToSet(p)) /\ ToSet(p) = ToSet(a) \cup ToSet(PushCounters)
      BY <3>1, ConcatOfElements, CountersShape
    <3> HIDE DEF p
    <3>4. q \in Seq(ToSet(q)) /\ ToSet(q) = ToSet(p) \cup ToSet(b)
      BY <3>1, <3>2, <3>3, ConcatOfElements
    <3>5. Good(q)
      BY <1>2, <1>10, <3>1, <3>3, <3>4, CountersShape
    <3> QED BY <3>5 DEF q
  <2> QED BY <1>10, <2>1, <2>2 DEF Answered
<1>11. CASE Op(s) = "verify"
  <2>1. q = <<Rows, Broadcast("access", out'.level), Rows, PushTail>> \/ q = <<Rows, PushTail>>
    BY <1>11 DEF Answered
  <2> QED BY <1>1, <1>2, <1>11, <2>1 DEF ToSet
<1>12. CASE Op(s) = "deauth"
  <2>1. q = <<Rows, Broadcast("access", None), PushTail>>
    BY <1>12 DEF Answered
  <2> QED BY <1>1, <1>2, <1>12, <2>1 DEF ToSet
<1>13. CASE Op(s) = "tamper"
  <2>1. q = <<Rows, Broadcast("session", DEFAULT), Broadcast("access", None), PushTail>>
    BY <1>13 DEF Answered
  <2> QED BY <1>1, <1>2, <1>13, <2>1 DEF ToSet
<1>14. CASE Op(s) \in {"state", "communicate_again", "verify_replay", "inject"}
  <2>1. q = <<>>
    BY <1>14 DEF Answered
  <2> QED BY <2>1, EmptyShape DEF Shape
<1> QED BY <1>4, <1>5, <1>6, <1>7, <1>8, <1>9, <1>10, <1>11, <1>12, <1>13, <1>14 DEF RpcOps

\* What the task does with any answer: legal steps in shape, and if a proof is
\* among them it fits.
LEMMA AnsweredSteps ==
    ASSUME Inv, NoncesDrawn, NEW s, Op(s) \in RpcOps, Legal(s), Perform(s)
    PROVE  /\ Shape(Answered(s))
           /\ \A u \in ToSet(Answered(s)) :
                /\ Legal(u)'
                /\ Op(u) = "verify" => Fits(Arg(u))'
                /\ Op(s) \notin FinalOps => Op(u) = "broadcast"
                /\ Op(s) \in FreeOps => Op(u) \in FreeOps
<1> DEFINE q == Answered(s)
           Good(u) == /\ Legal(u)'
                      /\ Op(u) = "verify" => Fits(Arg(u))'
                      /\ Op(s) \notin FinalOps => Op(u) = "broadcast"
                      /\ Op(s) \in FreeOps => Op(u) \in FreeOps
<1>0. PICK n : n = pending_challenge'
  OBVIOUS
<1>1. CASE Op(s) \in RpcOps \ {"seed_to_fail", "communicate", "replay"}
  BY <1>1, AnsweredPlain, PlainSteps
<1> USE DEF FinalOps, FreeOps
<1>2. ASSUME Op(s) \in {"seed_to_fail", "communicate", "replay"} PROVE Good(Rows) /\ Good(PushTail)
  BY <1>2 DEF Rows, PushTail, Do, Op, Legal
<1>3. CASE Op(s) = "seed_to_fail"
  <2> DEFINE k == Do("key", [level |-> Arg(s), key |-> "wrong"])
  <2>1. q = <<Rows, k>> \/ q = <<>>
    BY <1>3 DEF Answered
  <2>2. Op(k) = "key" /\ Arg(k) \in [level : Levels, key : Keys]
    BY <1>3 DEF Do, Op, Arg, Legal, Keys
  <2> HIDE DEF k
  <2>3. Good(k)
    BY <1>3, <2>2 DEF Legal
  <2>4. Shape(<<Rows, k>>) /\ ToSet(<<Rows, k>>) = {Rows, k}
    BY <2>2 DEF Shape, ToSet, Rows, Do, Op
  <2> HIDE DEF Good, q
  <2>5. Shape(q) /\ \A u \in ToSet(q) : Good(u)
    BY <1>2, <1>3, <2>1, <2>3, <2>4, EmptyShape
  <2> QED BY <2>5 DEF Good, q
<1>4. ASSUME Op(s) \in {"communicate", "replay"}, out'.result = "positive"
      PROVE  "tester" \in Certs /\ Arg(s) = "tester" /\ n \in 1..drawn' /\ Fits(n)'
  <2>1. CommunicateCertificate(Bridge, Arg(s), now) /\ Arg(s) \in Certs /\ Arg(s) \in {"tester", "expired"}
    BY <1>4 DEF Perform, Legal
  <2> QED BY <1>0, <1>4, <2>1, PositiveChallenge DEF Fits
<1>5. CASE Op(s) = "communicate"
  <2> DEFINE v == Do("verify", n)
  <2>1. (out'.result = "positive" /\ q = <<Rows, v>>) \/ q = <<Rows>>
    BY <1>0, <1>5 DEF Answered
  <2>2. out'.result = "positive" => Good(v)
    BY <1>4, <1>5 DEF Do, Op, Arg, Legal
  <2>3. Shape(<<Rows, v>>) /\ ToSet(<<Rows, v>>) = {Rows, v}
    BY DEF Shape, ToSet, Rows, Do, Op
  <2>4. Shape(<<Rows>>) /\ ToSet(<<Rows>>) = {Rows}
    BY DEF Shape, ToSet, Rows, Do, Op
  <2> HIDE DEF Good, q, v
  <2>5. Shape(q) /\ \A u \in ToSet(q) : Good(u)
    BY <1>2, <1>5, <2>1, <2>2, <2>3, <2>4
  <2> QED BY <2>5 DEF Good, q
<1>6. CASE Op(s) = "replay"
  <2> DEFINE v == Do("verify_replay", n)  c == Do("communicate_again", Arg(s))  i == Do("inject", n)
             r == <<v, c, i, Rows, v, Rows, PushTail>>
  <2>1. (out'.result = "positive" /\ q = r) \/ q = <<>>
    BY <1>0, <1>6 DEF Answered
  <2>2. out'.result = "positive" => Good(v) /\ Good(c) /\ Good(i)
    BY <1>4, <1>6 DEF Do, Op, Arg, Legal
  <2>3. Shape(r) /\ ToSet(r) = {v, c, i, Rows, PushTail}
    BY DEF Shape, ToSet, Rows, PushTail, Do, Op
  <2> HIDE DEF Good, q, r, v, c, i
  <2>4. Shape(q) /\ \A u \in ToSet(q) : Good(u)
    BY <1>2, <1>6, <2>1, <2>2, <2>3, EmptyShape
  <2> QED BY <2>4 DEF Good, q
<1> QED BY <1>1, <1>3, <1>5, <1>6

\* What the ECU logs is followed by a push of the tail.
LEMMA EmittedIsPushed ==
    ASSUME NEW s, Perform(s), Emits(s), Op(s) # "verify_replay"
    PROVE  PushTail \in ToSet(Answered(s))
<1> DEFINE q == Answered(s)
<1>1. CASE Op(s) = "session"
  <2>1. q = <<Rows, Broadcast("session", Arg(s)), PushTail>>
    BY <1>1, EmitsWhen DEF Answered
  <2> QED BY <2>1 DEF ToSet
<1>2. CASE Op(s) = "key"
  <2>1. CASE q = <<Rows, Broadcast("access", out'.level), Do("counter", out'.level), PushTail>>
    BY <2>1 DEF ToSet
  <2>2. CASE q = <<Rows>> \o PushCounters \o <<PushTail>>
    <3> DEFINE a == <<Rows>>  b == <<PushTail>>  p == a \o PushCounters
    <3>1. /\ a \in Seq(ToSet(a))
          /\ b \in Seq(ToSet(b)) /\ ToSet(b) = {PushTail}
      BY DEF ToSet
    <3>2. q = p \o b
      BY <2>2
    <3> HIDE DEF a, b, q
    <3>3. p \in Seq(ToSet(p))
      BY <3>1, ConcatOfElements, CountersShape
    <3> HIDE DEF p
    <3>4. ToSet(q) = ToSet(p) \cup ToSet(b)
      BY <3>1, <3>2, <3>3, ConcatOfElements
    <3> QED BY <3>1, <3>4 DEF q
  <2> QED BY <1>2, <2>1, <2>2 DEF Answered
<1>3. CASE Op(s) = "verify"
  <2>1. q = <<Rows, Broadcast("access", out'.level), Rows, PushTail>> \/ q = <<Rows, PushTail>>
    BY <1>3 DEF Answered
  <2> QED BY <2>1 DEF ToSet
<1>4. CASE Op(s) = "tamper"
  <2>1. q = <<Rows, Broadcast("session", DEFAULT), Broadcast("access", None), PushTail>>
    BY <1>4 DEF Answered
  <2> QED BY <2>1 DEF ToSet
<1> QED BY <1>1, <1>2, <1>3, <1>4, EmitsWhen

\* A tail or a snapshot broadcasts the newest entry.
LEMMA TailIsBroadcast ==
    ASSUME NEW s, Op(s) \in {"tail", "snapshot"}, entries # 0
    PROVE  Broadcast("entry", <<boots, entries>>) \in ToSet(Answered(s))
<1> DEFINE e == Broadcast("entry", <<boots, entries>>)
<1>1. NewestEntry = <<e>> /\ ToSet(<<e>>) = {e}
  BY DEF NewestEntry, ToSet
<1> HIDE DEF e
<1>2. CASE Op(s) = "tail"
  BY <1>1, <1>2 DEF Answered, e
<1>3. CASE Op(s) = "snapshot"
  <2> DEFINE b == <<Broadcast("snapshot", Snapshot)>>
  <2>1. b \in Seq(ToSet(b)) /\ <<e>> \in Seq(ToSet(<<e>>))
    BY DEF ToSet
  <2>2. Answered(s) = b \o <<e>>
    BY <1>1, <1>3 DEF Answered
  <2> HIDE DEF b
  <2>3. ToSet(b \o <<e>>) = ToSet(b) \cup ToSet(<<e>>)
    BY <2>1, ConcatOfElements
  <2> QED BY <1>1, <2>2, <2>3 DEF e
<1> QED BY <1>2, <1>3

----------------------------------------------------------------------------
(* Task x goes on.                                                         *)

\* TodoInv follows from what the task does next and from what the ECU's step
\* does to the arguments of the others.
LEMMA GoOnTodo ==
    ASSUME TodoInv, NEW x \in Tasks, NEW rest, todo' = [todo EXCEPT ![x] = rest],
           Shape(rest), \A s \in ToSet(rest) : Legal(s)',
           \A y \in Tasks \ {x} : \A s \in ToSet(todo[y]) : Legal(s)'
    PROVE  TodoInv'
<1>1. DOMAIN todo' = Tasks /\ \A y \in Tasks : todo'[y] = IF y = x THEN rest ELSE todo[y]
  BY DEF TodoInv
<1>2. ASSUME NEW y \in Tasks PROVE Shape(todo'[y]) /\ \A s \in ToSet(todo'[y]) : Legal(s)'
  BY <1>1 DEF TodoInv
<1>3. \A y \in Tasks : Shape(todo[y])' <=> Shape(todo'[y])
  BY DEF Shape, Op, PushTail, Rows, Do, ToSet
<1> QED BY <1>1, <1>2, <1>3 DEF TodoInv

\* The queue of the lock when its first leaves.
LEMMA QueueTail ==
    ASSUME LockInv, NEW x \in ToSet(lock_queue), HasLock(x)
    PROVE  /\ x = Head(lock_queue)
           /\ Tail(lock_queue) \in Seq(Browsers)
           /\ NoRepeats(Tail(lock_queue))
           /\ ToSet(Tail(lock_queue)) = ToSet(lock_queue) \ {x}
<1>1. lock_queue # <<>> /\ lock_queue \in Seq(Browsers) /\ x = Head(lock_queue)
  BY EmptyShape DEF LockInv, HasLock
<1>2. Tail(lock_queue) \in Seq(Browsers)
  BY <1>1, HeadTailProperties
<1>3. NoRepeats(Tail(lock_queue)) /\ x \notin ToSet(Tail(lock_queue))
  BY <1>1, TailNoRepeats DEF LockInv
<1> QED BY <1>1, <1>2, <1>3, HeadTailElements

\* LockInv follows when a task without the lock takes no step of a command.
LEMMA GoOnLock ==
    ASSUME TodoInv, LockInv, NEW x \in Tasks, NEW rest, HasLock(x), GoOn(x, rest),
           x \notin ToSet(lock_queue) => \A s \in ToSet(rest) : Op(s) \in FreeOps
    PROVE  LockInv'
<1>1. \A y \in Tasks : todo'[y] = IF y = x THEN rest ELSE todo[y]
  BY DEF GoOn, TodoInv
<1>2. lock_queue \in Seq(Browsers) /\ ToSet(lock_queue) \subseteq Tasks
  <2>1. lock_queue \in [1..Len(lock_queue) -> Browsers] /\ DOMAIN lock_queue = 1..Len(lock_queue)
    BY LenProperties DEF LockInv
  <2> QED BY <2>1 DEF LockInv, ToSet, Tasks
<1>3. CASE x \notin ToSet(lock_queue)
  <2>1. lock_queue' = lock_queue
    BY <1>3 DEF GoOn
  <2> QED BY <1>1, <1>2, <1>3, <2>1 DEF LockInv, Op
<1>4. CASE x \in ToSet(lock_queue) /\ rest # <<>>
  <2>1. lock_queue' = lock_queue /\ x = Head(lock_queue)
    BY <1>4, QueueTail DEF GoOn
  <2> QED BY <1>1, <1>2, <1>4, <2>1 DEF LockInv, Op
<1>5. CASE x \in ToSet(lock_queue) /\ rest = <<>>
  <2>1. lock_queue' = Tail(lock_queue)
    BY <1>5 DEF GoOn
  <2>2. /\ x = Head(lock_queue)
        /\ lock_queue' \in Seq(Browsers) /\ NoRepeats(lock_queue')
        /\ ToSet(lock_queue') = ToSet(lock_queue) \ {x}
    BY <1>5, <2>1, QueueTail
  <2>3. \A y \in ToSet(lock_queue') : todo'[y] # <<>> /\ \E cmd \in Commands : todo'[y] = Program(cmd)
    BY <1>1, <1>2, <2>2 DEF LockInv
  <2>4. \A y \in Tasks \ ToSet(lock_queue') : \A s \in ToSet(todo'[y]) : Op(s) \in FreeOps
    BY <1>1, <1>5, <2>2, EmptyShape DEF LockInv
  <2> QED BY <2>2, <2>3, <2>4 DEF LockInv, NoRepeats, ToSet, Op
<1> QED BY <1>3, <1>4, <1>5

\* While another task is in the middle of a command, x is none of those that
\* queue for the lock.
LEMMA MiddleHolder ==
    ASSUME LockInv, NEW x \in Tasks, HasLock(x), NEW y \in Tasks \ {x},
           NEW s \in ToSet(todo[y]), Op(s) \in MiddleOps
    PROVE  x \notin ToSet(lock_queue)
<1>1. y \in ToSet(lock_queue)
  BY DEF LockInv, MiddleOps, FreeOps
<1>2. y = Head(lock_queue)
  BY <1>1, ProgramSteps DEF LockInv
<1> QED BY <1>2 DEF HasLock

\* Arguments stay legal while no draw is forgotten.
LEMMA StaysLegal ==
    ASSUME NEW s, Legal(s), Op(s) \in MiddleOps => 1..drawn \subseteq 1..drawn'
    PROVE  Legal(s)'
BY DEF Legal, MiddleOps

\* What x has left after the answer to its RPC step.
LEMMA RestSteps ==
    ASSUME Inv, NoncesDrawn, NEW q, Shape(q), q # <<>>, Op(Head(q)) \in RpcOps, Legal(Head(q)),
           Perform(Head(q))
    PROVE  /\ Shape(Answered(Head(q)) \o Tail(q))
           /\ ToSet(Answered(Head(q)) \o Tail(q)) = ToSet(Answered(Head(q))) \cup ToSet(Tail(q))
           /\ \A s \in ToSet(Tail(q)) : Op(s) # "verify"
<1> DEFINE s == Head(q)  p == Answered(s)  r == Tail(q)
<1>1. Head(q) # Rows
  BY DEF RpcOps, Rows, Do, Op
<1>2. \A u \in ToSet(r) : Op(u) # "verify"
  BY <1>1, NoProofBehind
<1>3. Shape(p) /\ (Op(s) \notin FinalOps => \A u \in ToSet(p) : Op(u) = "broadcast")
  BY AnsweredSteps
<1>4. Shape(r)
  BY TailShape
<1>5. CASE Op(s) \in FinalOps
  <2>1. r = <<>>
    BY <1>5, FinalAlone
  <2> HIDE DEF p, r
  <2>2. p \o r = p
    BY <1>3, <2>1, ConcatEmptySeq DEF Shape
  <2> QED BY <1>2, <1>3, <2>1, <2>2, EmptyShape DEF p, r
<1>6. CASE Op(s) \notin FinalOps
  <2>1. p \in Seq(ToSet(p)) /\ \A u \in ToSet(p) : Op(u) \notin FinalOps \cup {"verify_replay"}
    BY <1>3, <1>6 DEF Shape, FinalOps
  <2> HIDE DEF p, r
  <2>2. Shape(p \o r) /\ ToSet(p \o r) = ToSet(p) \cup ToSet(r)
    BY <1>2, <1>4, <2>1, JoinShape
  <2> QED BY <1>2, <2>2 DEF p, r
<1> QED BY <1>5, <1>6

\* Polling the session leaves a pending proof as good as it was.
LEMMA QuietStep ==
    ASSUME NEW n, CurrentAt(now) = DEFAULT \/ Fits(n),
           GetSessionState(Bridge, now) \/ UNCHANGED vars
    PROVE  (CurrentAt(now) = DEFAULT \/ Fits(n))'
<1>1. CASE UNCHANGED vars
  BY <1>1 DEF vars, sessionVars, authVars, CurrentAt, Fits
<1>2. CASE GetSessionState(Bridge, now) /\ CurrentAt(now) = DEFAULT
  <2>1. session' = DEFAULT
    BY <1>2 DEF GetSessionState, Observe, ObserveAndTouch
  <2> QED BY <2>1 DEF CurrentAt
<1>3. CASE GetSessionState(Bridge, now) /\ Fits(n)
  BY <1>3 DEF GetSessionState, authVars, Fits
<1> QED BY <1>1, <1>2, <1>3

\* How an RPC step changes its task.
LEMMA RpcRest ==
    ASSUME TodoInv, LockInv, ChallengeInv, Inv, NEW x \in Tasks, Rpc(x)
    PROVE  \E rest :
             /\ GoOn(x, rest)
             /\ Shape(rest)
             /\ \A u \in ToSet(rest) \ ToSet(Answered(Head(todo[x]))) :
                    u \in ToSet(Tail(todo[x])) /\ Op(u) # "verify"
             /\ client_ok' => /\ ToSet(Answered(Head(todo[x]))) \subseteq ToSet(rest)
                              /\ ToSet(Tail(todo[x])) \subseteq ToSet(rest)
<1> DEFINE q == todo[x]  s == Head(q)  r == Tail(q)
<1>1. q # <<>> /\ Shape(q) /\ Op(s) \in RpcOps /\ Perform(s) /\ Legal(s)
  BY TailShape DEF Rpc, MayRun, TodoInv
<1>2. /\ Shape(Answered(s) \o r) /\ ToSet(Answered(s) \o r) = ToSet(Answered(s)) \cup ToSet(r)
      /\ \A u \in ToSet(r) : Op(u) # "verify"
  BY <1>1, RestSteps DEF ChallengeInv
<1>3. Shape(r)
  BY <1>1, TailShape
<1>4. CASE client_ok /\ GoOn(x, Answered(s) \o r)
  BY <1>2, <1>4
<1>5. CASE Fail(x) /\ client_ok' = FALSE
  <2>1. CASE GoOn(x, r)
    BY <1>2, <1>3, <1>5, <2>1
  <2>2. CASE GoOn(x, <<>>)
    BY <1>5, <2>2, EmptyShape
  <2> QED BY <1>5, <2>1, <2>2 DEF Fail, FailCommand
<1> QED BY <1>4, <1>5 DEF Rpc

\* An RPC step keeps the first three parts of the invariant.
LEMMA RpcKeeps ==
    ASSUME TodoInv, LockInv, ChallengeInv, Inv, NEW x \in Tasks, Rpc(x)
    PROVE  TodoInv' /\ LockInv' /\ ChallengeInv'
<1> DEFINE q == todo[x]  s == Head(q)  r == Tail(q)
<1>1. /\ q # <<>> /\ Op(s) \in RpcOps /\ Perform(s) /\ Legal(s) /\ HasLock(x)
      /\ ToSet(q) = {s} \cup ToSet(r)
  BY TailShape DEF Rpc, MayRun, TodoInv
<1>2. NoncesDrawn' /\ 1..drawn \subseteq 1..drawn'
  <2>1. CASE Request(Bridge, now)
    BY <2>1, RequestDrawn DEF ChallengeInv
  <2>2. CASE UNCHANGED vars
    BY <2>2 DEF ChallengeInv, NoncesDrawn, vars, authVars
  <2> QED BY <1>1, <2>1, <2>2, PerformIsRequest
<1>3. \A u \in ToSet(Answered(s)) :
        /\ Legal(u)'
        /\ Op(u) = "verify" => Fits(Arg(u))'
        /\ Op(s) \in FreeOps => Op(u) \in FreeOps
  BY <1>1, AnsweredSteps DEF ChallengeInv
<1>4. PICK rest :
        /\ GoOn(x, rest) /\ Shape(rest)
        /\ \A u \in ToSet(rest) \ ToSet(Answered(s)) : u \in ToSet(r) /\ Op(u) # "verify"
  BY RpcRest
<1>5. \A y \in Tasks : \A u \in ToSet(todo[y]) : Legal(u)'
  BY <1>2, StaysLegal DEF TodoInv
<1> HIDE DEF s, r, q
<1>6. \A u \in ToSet(rest) : Legal(u)'
  BY <1>1, <1>3, <1>4, <1>5 DEF q
<1>7. TodoInv'
  BY <1>4, <1>5, <1>6, GoOnTodo DEF GoOn
<1>8. x \notin ToSet(lock_queue) => Op(s) \in FreeOps /\ \A u \in ToSet(rest) : Op(u) \in FreeOps
  BY <1>1, <1>3, <1>4 DEF LockInv, q
<1>9. LockInv'
  BY <1>1, <1>4, <1>8, GoOnLock
<1>10. \A y \in Tasks : todo'[y] = IF y = x THEN rest ELSE todo[y]
  BY <1>4 DEF GoOn, TodoInv
<1>11. ASSUME NEW u \in ToSet(rest), Op(u) = "verify" PROVE Fits(Arg(u))'
  BY <1>3, <1>4, <1>11
<1>12. ASSUME NEW y \in Tasks \ {x}, NEW u \in ToSet(todo[y]), Op(u) = "verify"
       PROVE  (CurrentAt(now) = DEFAULT \/ Fits(Arg(u)))'
  <2>1. Op(s) \in FreeOps
    BY <1>1, <1>8, <1>12, MiddleHolder DEF MiddleOps
  <2>2. GetSessionState(Bridge, now) \/ UNCHANGED vars
    BY <1>1, <2>1 DEF Perform, FreeOps
  <2>3. CurrentAt(now) = DEFAULT \/ Fits(Arg(u))
    BY <1>12 DEF ChallengeInv
  <2>4. PICK n : n = Arg(u)
    OBVIOUS
  <2>5. (CurrentAt(now) = DEFAULT \/ Fits(n))'
    BY <2>2, <2>3, <2>4, QuietStep
  <2> QED BY <2>4, <2>5 DEF Arg
<1>13. \A y \in Tasks : \A u \in ToSet(todo'[y]) :
         Op(u) = "verify" => (CurrentAt(now) = DEFAULT \/ Fits(Arg(u)))'
  BY <1>10, <1>11, <1>12
<1>14. ChallengeInv'
  BY <1>2, <1>13 DEF ChallengeInv, Op, ToSet
<1> QED BY <1>7, <1>9, <1>14

\* An RPC step leaves every page that lacks the newest entry with a task that
\* will bring it: it logs only what it pushes, and a push reads the log.
LEMMA RpcDelivers ==
    ASSUME TodoInv, LockInv, ChallengeInv, DeliveryInv, Inv, NEW x \in Tasks, Rpc(x)
    PROVE  DeliveryInv'
<1> DEFINE q == todo[x]  s == Head(q)  r == Tail(q)
<1>1. /\ q # <<>> /\ Op(s) \in RpcOps /\ Perform(s) /\ Legal(s) /\ HasLock(x) /\ Shape(q)
      /\ ToSet(q) = {s} \cup ToSet(r)
  BY TailShape DEF Rpc, MayRun, TodoInv
<1>2. entries' \in Nat /\ boots' = boots /\ (~Emits(s) => entries' = entries)
  BY DEF Rpc, DeliveryInv
<1>3. PICK rest :
        /\ GoOn(x, rest)
        /\ client_ok' => ToSet(Answered(s)) \subseteq ToSet(rest) /\ ToSet(r) \subseteq ToSet(rest)
  BY RpcRest
<1>4. \A y \in Tasks : todo'[y] = IF y = x THEN rest ELSE todo[y]
  BY <1>3 DEF GoOn, TodoInv
<1>5. client_ok' => /\ client_ok
                    /\ clients' = clients /\ sockets' = sockets
                    /\ behind' = IF Emits(s) THEN Browsers ELSE behind
  BY DEF Rpc
<1>6. PushTail \in ToSet(rest) /\ x \in Browsers
        => \A w : \E y \in Browsers : \E u \in ToSet(todo'[y]) : Delivers(u, w)'
  BY <1>4 DEF Delivers, PushTail, Do, Op, Tasks
<1> HIDE DEF s, r, q
<1>7. ASSUME client_ok', entries' > 0, NEW w \in (Connected \cap behind)'
      PROVE  \E y \in Browsers : \E u \in ToSet(todo'[y]) : Delivers(u, w)'
  <2>1. CASE Emits(s)
    <3>1. x \in Browsers
      <4>1. Op(s) \notin FreeOps
        BY <1>1, <2>1, EmitsWhen DEF FreeOps
      <4>2. x \in ToSet(lock_queue)
        BY <1>1, <4>1 DEF LockInv, q
      <4>3. lock_queue \in [1..Len(lock_queue) -> Browsers] /\ DOMAIN lock_queue = 1..Len(lock_queue)
        BY LenProperties DEF LockInv
      <4> QED BY <4>2, <4>3 DEF ToSet
    <3>2. CASE Op(s) # "verify_replay"
      BY <1>1, <1>3, <1>6, <1>7, <2>1, <3>1, <3>2, EmittedIsPushed
    <3>3. CASE Op(s) = "verify_replay"
      <4>1. PushTail \in ToSet(q)
        <5>1. Len(q) \in Nat \ {0} /\ q \in Seq(ToSet(q)) /\ DOMAIN q = 1..Len(q) /\ s = q[1]
          BY <1>1, LenZero, LenProperties, TailShape DEF Shape, s
        <5> DEFINE n == Len(q)
        <5>2. 1 \in 1..n /\ n \in 1..n
          <6>1. n \in Nat \ {0}
            BY <5>1
          <6> HIDE DEF n
          <6> QED BY <6>1
        <5>3. q[n] = PushTail
          BY <1>1, <3>3, <5>1, <5>2 DEF Shape
        <5> QED BY <5>1, <5>2, <5>3 DEF ToSet
      <4>2. PushTail # s
        BY <3>3 DEF PushTail, Do, Op
      <4> QED BY <1>1, <1>3, <1>6, <1>7, <3>1, <4>1, <4>2
    <3> QED BY <3>2, <3>3
  <2>2. CASE ~Emits(s)
    <3>0. PICK y \in Browsers : \E u \in ToSet(todo[y]) : Delivers(u, w)
      BY <1>2, <1>5, <1>7, <2>2 DEF DeliveryInv, Connected
    <3>1. PICK u \in ToSet(todo[y]) : Delivers(u, w)
      BY <3>0
    <3>2. y \in Tasks /\ \A e : Delivers(e, w) => Delivers(e, w)'
      BY <1>2, <2>2 DEF Tasks, Delivers, Op, Arg, Broadcast, Do
    <3>3. CASE u \in ToSet(todo'[y])
      BY <3>1, <3>2, <3>3
    <3>4. CASE u \notin ToSet(todo'[y])
      <4>1. y = x /\ u = s
        BY <1>1, <1>3, <1>4, <1>7, <3>1, <3>2, <3>4 DEF q
      <4>2. Op(s) \in {"tail", "snapshot"}
        BY <1>1, <3>1, <4>1 DEF Delivers, RpcOps, Broadcast, Do, Op
      <4> DEFINE e == Broadcast("entry", <<boots, entries>>)
      <4>3. e \in ToSet(Answered(s))
        BY <1>2, <1>7, <2>2, <4>2, TailIsBroadcast
      <4>4. Delivers(e, w)
        BY DEF Delivers
      <4> QED BY <1>3, <1>4, <1>7, <3>1, <3>2, <4>1, <4>3, <4>4
    <3> QED BY <3>3, <3>4
  <2> QED BY <2>1, <2>2
<1>8. \A w : \A y \in Browsers : (\E u \in ToSet(todo'[y]) : Delivers(u, w)')
               => (\E u \in ToSet(todo[y]) : Delivers(u, w))'
  BY DEF ToSet
<1> QED BY <1>2, <1>7, <1>8 DEF DeliveryInv

----------------------------------------------------------------------------
(* The steps that do not call the ECU.                                     *)

\* A step of a task that calls nobody keeps the first three parts.
LEMMA QuietKeeps ==
    ASSUME TodoInv, LockInv, ChallengeInv, UNCHANGED vars, NEW x \in Tasks, NEW rest,
           HasLock(x), GoOn(x, rest), Shape(rest),
           \A u \in ToSet(rest) : u \in ToSet(todo[x]) \/ Op(u) \in PlainOps,
           x \notin ToSet(lock_queue) => \A u \in ToSet(rest) : Op(u) \in FreeOps
    PROVE  TodoInv' /\ LockInv' /\ ChallengeInv'
<1>1. \A s : Legal(s) => Legal(s)'
  BY DEF vars, authVars, Legal
<1>2. \A s : Op(s) \in PlainOps => Legal(s)
  BY DEF Legal, PlainOps
<1>3. TodoInv'
  BY <1>1, <1>2, GoOnTodo DEF TodoInv, GoOn
<1>4. LockInv'
  BY GoOnLock
<1>5. \A y \in Tasks : todo'[y] = IF y = x THEN rest ELSE todo[y]
  BY DEF GoOn, TodoInv
<1>6. ASSUME NEW y \in Tasks, NEW u \in ToSet(todo'[y]), Op(u) = "verify"
      PROVE  CurrentAt(now) = DEFAULT \/ Fits(Arg(u))
  <2>1. u \in ToSet(todo[y])
    BY <1>5, <1>6 DEF PlainOps
  <2> QED BY <1>6, <2>1 DEF ChallengeInv
<1>7. UNCHANGED <<CurrentAt(now), NoncesDrawn>> /\ \A n : Fits(n)' = Fits(n)
  BY DEF vars, sessionVars, authVars, CurrentAt, Fits, NoncesDrawn
<1>8. ChallengeInv'
  BY <1>6, <1>7 DEF ChallengeInv, Op, Arg, ToSet
<1> QED BY <1>3, <1>4, <1>8

\* The newest entry and those who lack it stay the same, or fewer lack it.
LEMMA QuietDelivers ==
    ASSUME TodoInv, DeliveryInv, NEW x \in Tasks, NEW rest,
           todo' = [todo EXCEPT ![x] = rest],
           UNCHANGED <<entries, boots, client_ok>>,
           (Connected \cap behind)' \subseteq Connected \cap behind,
           \A w \in (Connected \cap behind)' : \A u \in ToSet(todo[x]) :
               Delivers(u, w) => \E v \in ToSet(rest) : Delivers(v, w)
    PROVE  DeliveryInv'
<1>1. \A y \in Tasks : todo'[y] = IF y = x THEN rest ELSE todo[y]
  BY DEF TodoInv
<1>2. \A e, w : Delivers(e, w)' = Delivers(e, w)
  BY DEF Delivers, Op, Arg, Broadcast, Do
<1>3. ASSUME client_ok, entries > 0, NEW w \in (Connected \cap behind)'
      PROVE  \E y \in Browsers : \E u \in ToSet(todo'[y]) : Delivers(u, w)
  <2>1. PICK y \in Browsers : \E u \in ToSet(todo[y]) : Delivers(u, w)
    BY <1>3 DEF DeliveryInv
  <2> QED BY <1>1, <1>3, <2>1 DEF Tasks
<1> QED BY <1>2, <1>3 DEF DeliveryInv, ToSet

\* Tasks of pages that have not connected do not start by themselves.
LEMMA StepOpened ==
    ASSUME TodoInv, OpenedInv, NEW x \in Tasks, NEW rest, todo[x] # <<>>,
           todo' = [todo EXCEPT ![x] = rest], opened' = opened, handlers' \subseteq handlers
    PROVE  OpenedInv'
<1>1. \A y \in Browsers \ {x} : todo'[y] = todo[y]
  BY DEF TodoInv, Tasks
<1> QED BY <1>1 DEF OpenedInv

\* broadcast() of rows, or of anything when no client is left.
LEMMA SkipKeeps ==
    ASSUME BridgeInv, NEW x \in Tasks, SendRows(x) \/ SkipBroadcast(x)
    PROVE  BridgeInv'
<1> USE DEF BridgeInv
<1> DEFINE q == todo[x]  r == Tail(q)
<1>1. /\ q # <<>> /\ Shape(q) /\ HasLock(x) /\ GoOn(x, r)
      /\ Op(Head(q)) \in {"rows", "broadcast"}
      /\ UNCHANGED <<vars, client_ok, boots, entries, opened, handlers, sockets, behind>>
      /\ clients' \subseteq clients
      /\ Op(Head(q)) = "broadcast" => clients' = {}
  BY DEF SendRows, SkipBroadcast, MayRun, TodoInv, pageVars
<1>2. Shape(r) /\ ToSet(q) = {Head(q)} \cup ToSet(r)
  BY <1>1, TailShape
<1>3. x \notin ToSet(lock_queue) => \A u \in ToSet(r) : Op(u) \in FreeOps
  BY <1>2 DEF LockInv
<1>4. TodoInv' /\ LockInv' /\ ChallengeInv'
  BY <1>1, <1>2, <1>3, QuietKeeps
<1>5. (Connected \cap behind)' \subseteq Connected \cap behind
  BY <1>1 DEF Connected
<1>6. ASSUME NEW w \in (Connected \cap behind)', NEW u \in ToSet(q), Delivers(u, w)
      PROVE  u \in ToSet(r)
  BY <1>1, <1>2, <1>6 DEF Connected, Delivers, Broadcast, Do, Op
<1>7. DeliveryInv'
  BY <1>1, <1>5, <1>6, QuietDelivers DEF GoOn
<1>8. OpenedInv'
  BY <1>1, StepOpened DEF GoOn
<1> QED BY <1>4, <1>7, <1>8

\* A nonce replay without a seed: only the error message is left to send.
LEMMA NoSeedKeeps ==
    ASSUME BridgeInv, NEW x \in Tasks, NoSeed(x)
    PROVE  BridgeInv'
<1> USE DEF BridgeInv
<1> DEFINE q == todo[x]
<1>1. /\ q # <<>> /\ Shape(q) /\ HasLock(x) /\ GoOn(x, <<Rows>>)
      /\ Op(Head(q)) = "replay"
      /\ UNCHANGED <<vars, client_ok, boots, entries, opened, handlers, sockets, behind, clients>>
  BY DEF NoSeed, MayRun, TodoInv, pageVars
<1>2. ToSet(q) = {Head(q)}
  <2>1. Op(Head(q)) \in FinalOps
    BY <1>1 DEF FinalOps
  <2>2. Tail(q) = <<>>
    BY <1>1, <2>1, FinalAlone
  <2>3. ToSet(q) = {Head(q)} \cup ToSet(Tail(q))
    BY <1>1, TailShape
  <2> QED BY <2>2, <2>3, EmptyShape
<1>3. Shape(<<Rows>>) /\ ToSet(<<Rows>>) = {Rows} /\ Op(Rows) \in PlainOps
  BY DEF Shape, ToSet, Rows, Do, Op, PlainOps
<1>4. x \in ToSet(lock_queue)
  BY <1>1, <1>2 DEF LockInv, FreeOps
<1>5. TodoInv' /\ LockInv' /\ ChallengeInv'
  BY <1>1, <1>3, <1>4, QuietKeeps
<1>6. (Connected \cap behind)' \subseteq Connected \cap behind
  BY <1>1 DEF Connected
<1>7. ASSUME NEW w, NEW u \in ToSet(q), Delivers(u, w) PROVE FALSE
  BY <1>1, <1>2, <1>7 DEF Delivers, Broadcast, Do, Op
<1>8. DeliveryInv'
  BY <1>1, <1>6, <1>7, QuietDelivers DEF GoOn
<1>9. OpenedInv'
  BY <1>1, StepOpened DEF GoOn
<1> QED BY <1>5, <1>8, <1>9

\* One send of a broadcast: the page that was sent the newest entry no longer
\* lacks it, the others are still on the list.
LEMMA SendKeeps ==
    ASSUME BridgeInv, NEW x \in Tasks, NEW w \in Browsers, Send(x, w)
    PROVE  BridgeInv'
<1> USE DEF BridgeInv
<1> DEFINE q == todo[x]  s == Head(q)  r == Tail(q)
           to == IF Op(s) = "sending" THEN s[3] ELSE clients
           m == Arg(s)
           v == <<"sending", m, to \ {w}>>
           rest == IF to = {w} THEN r ELSE <<v>> \o r
<1>1. /\ q # <<>> /\ Shape(q) /\ HasLock(x) /\ GoOn(x, rest)
      /\ Op(s) \in {"broadcast", "sending"} /\ w \in to
      /\ UNCHANGED <<vars, client_ok, boots, entries, opened, handlers, sockets>>
  BY DEF Send, MayRun, TodoInv
<1>2. /\ clients' \subseteq clients /\ behind' \subseteq behind
      /\ w \notin sockets => w \notin clients'
      /\ w \in sockets /\ m = <<"entry", <<boots, entries>>>> => w \notin behind'
  BY DEF Send, Type, Value
<1>3. Shape(r) /\ ToSet(q) = {s} \cup ToSet(r)
  BY <1>1, TailShape
<1>4. Op(v) = "sending" /\ Arg(v) = m /\ v[3] = to \ {w}
  BY DEF Op, Arg
<1>5. <<v>> \in Seq(ToSet(<<v>>)) /\ ToSet(<<v>>) = {v}
  BY DEF ToSet
<1>6. \A u \in ToSet(r) : Op(u) # "verify"
  <2>1. s # Rows
    BY <1>1 DEF Rows, Do, Op
  <2> QED BY <1>1, <2>1, NoProofBehind
<1>7. Shape(<<v>> \o r) /\ ToSet(<<v>> \o r) = {v} \cup ToSet(r)
  <2> HIDE DEF r, v
  <2>1. \A u \in ToSet(<<v>>) : Op(u) \notin FinalOps \cup {"verify_replay"}
    BY <1>4, <1>5 DEF FinalOps
  <2> QED BY <1>3, <1>5, <1>6, <2>1, JoinShape
<1> HIDE DEF q, s, r, to, m, v
<1>8. /\ Shape(rest) /\ ToSet(r) \subseteq ToSet(rest) /\ ToSet(rest) \subseteq {v} \cup ToSet(r)
      /\ to # {w} => v \in ToSet(rest)
  BY <1>3, <1>7
<1> HIDE DEF rest
<1>9. x \notin ToSet(lock_queue) => \A u \in ToSet(rest) : Op(u) \in FreeOps
  BY <1>3, <1>4, <1>8 DEF LockInv, FreeOps, q
<1>10. \A u \in ToSet(rest) : u \in ToSet(todo[x]) \/ Op(u) \in PlainOps
  BY <1>3, <1>4, <1>8 DEF PlainOps, q
<1>11. TodoInv' /\ LockInv' /\ ChallengeInv'
  BY <1>1, <1>8, <1>9, <1>10, QuietKeeps
<1>12. (Connected \cap behind)' \subseteq Connected \cap behind
  BY <1>1, <1>2 DEF Connected
<1>13. ASSUME NEW z \in (Connected \cap behind)', NEW u \in ToSet(todo[x]), Delivers(u, z)
       PROVE  \E e \in ToSet(rest) : Delivers(e, z)
  <2>1. CASE u \in ToSet(r)
    BY <1>8, <1>13, <2>1
  <2>2. CASE u = s
    <3>1. m = <<"entry", <<boots, entries>>>> /\ z \in to
      <4>1. z \in clients
        BY <1>12, <1>13 DEF Connected
      <4> QED BY <1>1, <1>13, <2>2, <4>1 DEF Delivers, Broadcast, Do, Op, Arg, to, m
    <3>2. z # w
      BY <1>1, <1>2, <1>13, <3>1 DEF Connected
    <3>3. v \in ToSet(rest) /\ z \in to \ {w}
      BY <1>8, <3>1, <3>2
    <3>4. Delivers(v, z)
      BY <1>4, <3>1, <3>3 DEF Delivers
    <3> QED BY <3>3, <3>4
  <2> QED BY <1>3, <1>13, <2>1, <2>2 DEF q
<1>14. DeliveryInv'
  BY <1>1, <1>12, <1>13, QuietDelivers DEF GoOn
<1>15. OpenedInv'
  BY <1>1, StepOpened DEF GoOn, q
<1> QED BY <1>11, <1>14, <1>15

\* After a power cycle there is nothing to show and nothing in the middle.
LEMMA BootKeeps ==
    ASSUME BridgeInv, NEW x \in Tasks, Boot(x)
    PROVE  BridgeInv'
<1> USE DEF BridgeInv
<1> DEFINE q == todo[x]
           rest == <<Broadcast("session", DEFAULT), Broadcast("access", None), Rows,
                     Do("snapshot", None)>>
<1>1. /\ q # <<>> /\ Shape(q) /\ HasLock(x) /\ GoOn(x, rest)
      /\ Op(Head(q)) = "boot" /\ PowerCycle
      /\ entries' = 0 /\ opened' = opened /\ handlers' = handlers
  BY DEF Boot, MayRun, TodoInv, pageVars
<1>2. x \in ToSet(lock_queue)
  <2>1. Head(q) \in ToSet(q)
    BY <1>1, TailShape
  <2> QED BY <1>1, <2>1 DEF LockInv, FreeOps
<1>3. /\ Shape(rest)
      /\ \A u \in ToSet(rest) : Op(u) \in {"broadcast", "rows", "snapshot"}
  BY DEF Shape, ToSet, Broadcast, Rows, Do, Op, FinalOps, PushTail
<1> HIDE DEF rest
<1>4. \A u \in ToSet(rest) : Legal(u)'
  BY <1>3 DEF Legal
<1>5. ASSUME NEW y \in Tasks \ {x}, NEW u \in ToSet(todo[y]) PROVE Op(u) \notin MiddleOps /\ Legal(u)'
  <2>1. Op(u) \notin MiddleOps
    BY <1>1, <1>2, MiddleHolder
  <2> QED BY <2>1, StaysLegal DEF TodoInv
<1>6. TodoInv'
  BY <1>1, <1>3, <1>4, <1>5, GoOnTodo DEF GoOn
<1>7. LockInv'
  BY <1>1, <1>2, GoOnLock
<1>8. \A y \in Tasks : todo'[y] = IF y = x THEN rest ELSE todo[y]
  BY <1>1 DEF GoOn, TodoInv
<1>9. \A y \in Tasks : \A u \in ToSet(todo'[y]) : Op(u) # "verify"
  BY <1>3, <1>5, <1>8 DEF MiddleOps
<1>10. NoncesDrawn'
  BY <1>1 DEF PowerCycle, NoncesDrawn
<1>11. ChallengeInv'
  BY <1>9, <1>10 DEF ChallengeInv, Op, ToSet
<1>12. DeliveryInv'
  BY <1>1 DEF DeliveryInv
<1>13. OpenedInv'
  BY <1>1, StepOpened DEF GoOn
<1> QED BY <1>6, <1>7, <1>11, <1>12, <1>13

----------------------------------------------------------------------------
(* The steps of pages, periodic_push and the clock.                        *)

\* Those who queue for the lock are tasks of pages with something to do.
LEMMA QueuedAreBusy ==
    ASSUME LockInv, NEW x \in ToSet(lock_queue)
    PROVE  x \in Browsers /\ todo[x] # <<>>
<1>1. lock_queue \in [1..Len(lock_queue) -> Browsers] /\ DOMAIN lock_queue = 1..Len(lock_queue)
  BY LenProperties DEF LockInv
<1> QED BY <1>1 DEF LockInv, ToSet

\* A task that was doing nothing starts with one step that needs no lock.
LEMMA StartKeeps ==
    ASSUME TodoInv, LockInv, ChallengeInv, UNCHANGED <<vars, lock_queue>>, NEW x \in Tasks, NEW s,
           todo[x] = <<>>, todo' = [todo EXCEPT ![x] = <<s>>], Op(s) \in {"snapshot", "periodic"}
    PROVE  TodoInv' /\ LockInv' /\ ChallengeInv'
<1>1. Shape(<<s>>) /\ ToSet(<<s>>) = {s}
  BY DEF Shape, ToSet
<1>2. \A u : Legal(u) => Legal(u)'
  BY DEF vars, authVars, Legal
<1>3. Legal(s)' /\ Op(s) \in FreeOps /\ Op(s) # "verify"
  BY DEF Legal, FreeOps
<1>4. TodoInv'
  BY <1>1, <1>2, <1>3, GoOnTodo DEF TodoInv
<1>5. x \notin ToSet(lock_queue)
  BY QueuedAreBusy
<1>6. \A y \in Tasks : todo'[y] = IF y = x THEN <<s>> ELSE todo[y]
  BY DEF TodoInv
<1>7. \A y \in ToSet(lock_queue) : y \in Tasks
  BY QueuedAreBusy DEF Tasks
<1>8. LockInv'
  BY <1>1, <1>3, <1>5, <1>6, <1>7 DEF LockInv, Op
<1>9. UNCHANGED <<CurrentAt(now), NoncesDrawn>> /\ \A n : Fits(n)' = Fits(n)
  BY DEF vars, sessionVars, authVars, CurrentAt, Fits, NoncesDrawn
<1>10. ASSUME NEW y \in Tasks, NEW u \in ToSet(todo'[y]), Op(u) = "verify"
       PROVE  CurrentAt(now) = DEFAULT \/ Fits(Arg(u))
  BY <1>1, <1>3, <1>6, <1>10 DEF ChallengeInv
<1>11. ChallengeInv'
  BY <1>9, <1>10 DEF ChallengeInv, Op, Arg, ToSet
<1> QED BY <1>4, <1>8, <1>11

\* handler() begins with the snapshot, which brings everybody the newest entry.
LEMMA ConnectKeeps ==
    ASSUME BridgeInv, NEW w \in Browsers, NEW page, Connect(w, page)
    PROVE  BridgeInv'
<1> USE DEF BridgeInv
<1> DEFINE s == Do("snapshot", None)
<1>1. /\ w = opened + 1 /\ opened' = w /\ handlers' = handlers \cup {w}
      /\ todo' = [todo EXCEPT ![w] = <<s>>]
      /\ UNCHANGED <<vars, lock_queue, entries>>
  BY DEF Connect
<1>2. opened \in Nat /\ w \in Tasks /\ w \notin 1..opened
  BY <1>1 DEF OpenedInv, Tasks
<1>3. todo[w] = <<>>
  BY <1>2 DEF OpenedInv
<1>4. Op(s) = "snapshot" /\ ToSet(<<s>>) = {s}
  BY DEF Do, Op, ToSet
<1> HIDE DEF s
<1>5. TodoInv' /\ LockInv' /\ ChallengeInv'
  BY <1>1, <1>2, <1>3, <1>4, StartKeeps
<1>6. \A y \in Tasks : todo'[y] = IF y = w THEN <<s>> ELSE todo[y]
  BY <1>1 DEF TodoInv
<1>7. \A z : s \in ToSet(todo'[w]) /\ Delivers(s, z)'
  BY <1>2, <1>4, <1>6 DEF Delivers, Op
<1>8. DeliveryInv'
  BY <1>1, <1>7 DEF DeliveryInv, ToSet
<1>9. 1..opened' = (1..opened) \cup {w} /\ opened' \in Nat
  <2>1. PICK n \in Nat : n = opened
    BY <1>2
  <2>2. 1..(n + 1) = (1..n) \cup {n + 1}
    OBVIOUS
  <2> QED BY <1>1, <2>1, <2>2
<1>10. OpenedInv'
  BY <1>1, <1>6, <1>9 DEF OpenedInv, Tasks
<1> QED BY <1>5, <1>8, <1>10

\* periodic_push begins a round.
LEMMA WakeKeeps ==
    ASSUME BridgeInv, Wake
    PROVE  BridgeInv'
<1> USE DEF BridgeInv
<1> DEFINE s == Do("periodic", None)
<1>1. /\ todo[periodic] = <<>> /\ todo' = [todo EXCEPT ![periodic] = <<s>>]
      /\ UNCHANGED <<vars, lock_queue, clients, client_ok, boots, entries, opened, handlers, sockets, behind>>
  BY DEF Wake, stateVars, pageVars
<1>2. periodic \in Tasks /\ periodic \notin Browsers
  BY DEF Tasks, periodic, Browsers
<1>3. Op(s) = "periodic"
  BY DEF Do, Op
<1> HIDE DEF s
<1>4. TodoInv' /\ LockInv' /\ ChallengeInv'
  BY <1>1, <1>2, <1>3, StartKeeps
<1>5. (Connected \cap behind)' \subseteq Connected \cap behind
  BY <1>1 DEF Connected
<1>6. DeliveryInv'
  BY <1>1, <1>2, <1>5, EmptyShape, QuietDelivers
<1>7. \A y \in Browsers : todo'[y] = todo[y]
  BY <1>1, <1>2 DEF TodoInv, Tasks
<1>8. OpenedInv'
  BY <1>1, <1>7 DEF OpenedInv
<1> QED BY <1>4, <1>6, <1>8

\* A command queues for the lock and has not begun.
LEMMA ReceiveKeeps ==
    ASSUME BridgeInv, NEW w \in Browsers, NEW cmd \in Commands, Receive(w, cmd)
    PROVE  BridgeInv'
<1> USE DEF BridgeInv
<1> DEFINE p == Program(cmd)
<1>1. /\ w \in handlers /\ todo[w] = <<>> /\ todo' = [todo EXCEPT ![w] = p]
      /\ lock_queue' = Append(lock_queue, w)
      /\ UNCHANGED <<vars, clients, client_ok, boots, entries, opened, handlers, sockets, behind>>
  BY DEF Receive
<1>2. w \in Tasks /\ p # <<>> /\ Shape(p) /\ \A u \in ToSet(p) : Legal(u) /\ Op(u) # "verify"
  BY ProgramSteps DEF Tasks, MiddleOps
<1> HIDE DEF p
<1>3. \A u : Legal(u) => Legal(u)'
  BY <1>1 DEF vars, authVars, Legal
<1>4. TodoInv'
  BY <1>1, <1>2, <1>3, GoOnTodo DEF TodoInv
<1>5. w \notin ToSet(lock_queue)
  BY <1>1, QueuedAreBusy
<1>6. \A y \in Tasks : todo'[y] = IF y = w THEN p ELSE todo[y]
  BY <1>1 DEF TodoInv
<1>7. /\ lock_queue' \in Seq(Browsers) /\ NoRepeats(lock_queue')
      /\ ToSet(lock_queue') = ToSet(lock_queue) \cup {w}
      /\ Head(lock_queue') = IF lock_queue = <<>> THEN w ELSE Head(lock_queue)
  BY <1>1, <1>5, AppendNoRepeats DEF LockInv
<1>8. \A y \in ToSet(lock_queue) : y \in Tasks /\ lock_queue # <<>>
  BY QueuedAreBusy, EmptyShape DEF Tasks
<1>9. LockInv'
  <2>1. \A y \in ToSet(lock_queue') : todo'[y] # <<>>
    BY <1>2, <1>6, <1>7, <1>8 DEF LockInv
  <2>2. \A y \in Tasks \ ToSet(lock_queue') : \A u \in ToSet(todo'[y]) : Op(u) \in FreeOps
    BY <1>6, <1>7 DEF LockInv
  <2>3. \A y \in ToSet(lock_queue') : y # Head(lock_queue') => \E c \in Commands : todo'[y] = Program(c)
    BY <1>2, <1>6, <1>7, <1>8 DEF LockInv, p
  <2> QED BY <1>7, <2>1, <2>2, <2>3 DEF LockInv, NoRepeats, ToSet, Op
<1>10. UNCHANGED <<CurrentAt(now), NoncesDrawn>> /\ \A n : Fits(n)' = Fits(n)
  BY <1>1 DEF vars, sessionVars, authVars, CurrentAt, Fits, NoncesDrawn
<1>11. ASSUME NEW y \in Tasks, NEW u \in ToSet(todo'[y]), Op(u) = "verify"
       PROVE  CurrentAt(now) = DEFAULT \/ Fits(Arg(u))
  BY <1>2, <1>6, <1>11 DEF ChallengeInv
<1>12. ChallengeInv'
  BY <1>10, <1>11 DEF ChallengeInv, Op, Arg, ToSet
<1>13. (Connected \cap behind)' \subseteq Connected \cap behind
  BY <1>1 DEF Connected
<1>14. DeliveryInv'
  BY <1>1, <1>2, <1>13, EmptyShape, QuietDelivers
<1>15. OpenedInv'
  BY <1>1, <1>6 DEF OpenedInv, Tasks
<1> QED BY <1>4, <1>9, <1>12, <1>14, <1>15

\* A page goes away, its handler ends, time passes.
LEMMA OthersKeep ==
    ASSUME BridgeInv, Inv,
           \/ \E w \in Browsers : Close(w) \/ EndHandler(w)
           \/ BridgeTick
           \/ UNCHANGED bridgeVars
    PROVE  BridgeInv'
<1> USE DEF BridgeInv
<1>1. UNCHANGED <<todo, lock_queue, client_ok, boots, entries, opened>> /\ handlers' \subseteq handlers
  BY DEF Close, EndHandler, BridgeTick, bridgeVars, stateVars, pageVars, Disconnected
<1>2. (Connected \cap behind)' \subseteq Connected \cap behind
  BY DEF Close, EndHandler, BridgeTick, bridgeVars, stateVars, pageVars, Disconnected, Connected
<1>3. UNCHANGED authVars
  BY DEF Close, EndHandler, BridgeTick, bridgeVars, Tick, vars
<1>4. CurrentAt(now) = DEFAULT => CurrentAt(now)' = DEFAULT
  <2>1. CASE UNCHANGED vars
    BY <2>1 DEF vars, sessionVars, CurrentAt
  <2>2. CASE Tick
    BY <2>2, SessionAssumption DEF Tick, AdvanceClock, CurrentAt, Inv, SessionTypeOK
  <2> QED BY <2>1, <2>2 DEF Close, EndHandler, BridgeTick, bridgeVars
<1>5. \A s : Legal(s)' = Legal(s)
  BY <1>3 DEF Legal, authVars
<1>6. TodoInv'
  BY <1>1, <1>5 DEF TodoInv
<1>7. LockInv'
  BY <1>1 DEF LockInv
<1>8. UNCHANGED NoncesDrawn /\ \A n : Fits(n)' = Fits(n)
  BY <1>3 DEF authVars, Fits, NoncesDrawn
<1>9. ChallengeInv'
  BY <1>1, <1>4, <1>8 DEF ChallengeInv
<1>10. \A e, w : Delivers(e, w)' = Delivers(e, w)
  BY <1>1 DEF Delivers
<1>11. DeliveryInv'
  BY <1>1, <1>2, <1>10 DEF DeliveryInv
<1>12. OpenedInv'
  BY <1>1 DEF OpenedInv
<1> QED BY <1>6, <1>7, <1>9, <1>11, <1>12

\* An RPC step starts no task of its own.
LEMMA RpcOpened ==
    ASSUME BridgeInv, Inv, NEW x \in Tasks, Rpc(x)
    PROVE  OpenedInv'
<1>1. PICK rest : GoOn(x, rest)
  BY RpcRest DEF BridgeInv
<1>2. todo[x] # <<>> /\ opened' = opened /\ handlers' \subseteq handlers
  BY DEF Rpc, MayRun, Fail, FailCommand
<1> QED BY <1>1, <1>2, StepOpened DEF BridgeInv, GoOn

\* Every step keeps the invariant.
LEMMA StepBridge ==
    ASSUME BridgeInv, Inv, [BridgeNext]_bridgeVars
    PROVE  BridgeInv'
<1>1. CASE \E w \in Browsers, page \in {Blank} \cup KeptPages : Connect(w, page)
  BY <1>1, ConnectKeeps
<1>2. CASE \/ \E w \in Browsers : Close(w) \/ EndHandler(w)
           \/ BridgeTick
           \/ UNCHANGED bridgeVars
  BY <1>2, OthersKeep
<1>3. CASE \E w \in Browsers, cmd \in Commands : Receive(w, cmd)
  BY <1>3, ReceiveKeeps
<1>4. ASSUME NEW x \in Tasks, Step(x) PROVE BridgeInv'
  <2>1. CASE Rpc(x)
    BY <2>1, RpcKeeps, RpcDelivers, RpcOpened DEF BridgeInv
  <2>2. CASE NoSeed(x)
    BY <2>2, NoSeedKeeps
  <2>3. CASE Boot(x)
    BY <2>3, BootKeeps
  <2>4. CASE SendRows(x) \/ SkipBroadcast(x)
    BY <2>4, SkipKeeps
  <2>5. CASE \E w \in Browsers : Send(x, w)
    BY <2>5, SendKeeps
  <2> QED BY <1>4, <2>1, <2>2, <2>3, <2>4, <2>5 DEF Step
<1>5. CASE Wake
  BY <1>5, WakeKeeps
<1> QED BY <1>1, <1>2, <1>3, <1>4, <1>5 DEF BridgeNext

\* A step of the bridge is a step of the ECU, or leaves it alone.
LEMMA BridgeECUStep ==
    ASSUME BridgeInv, Inv, [BridgeNext]_bridgeVars
    PROVE  [Next]_vars
<1>1. ASSUME NEW x \in Tasks, Rpc(x) PROVE [Next]_vars
  <2>1. Perform(Head(todo[x])) /\ Legal(Head(todo[x]))
    BY <1>1, TailShape DEF Rpc, MayRun, BridgeInv, TodoInv
  <2>2. Request(Bridge, now) \/ UNCHANGED vars
    BY <2>1, PerformIsRequest
  <2>3. now \in Later
    BY NowIsLater DEF Inv
  <2> QED BY <2>2, <2>3, BridgeIsClient DEF Next
<1>2. ASSUME NEW x \in Tasks, Step(x) PROVE Rpc(x) \/ PowerCycle \/ UNCHANGED vars
  BY <1>2 DEF Step, NoSeed, Boot, SendRows, SkipBroadcast, Send
<1>3. CASE \E x \in Tasks : Step(x)
  BY <1>1, <1>2, <1>3 DEF Next
<1>4. CASE BridgeTick
  BY <1>4 DEF BridgeTick, Next
<1>5. CASE ~(\E x \in Tasks : Step(x)) /\ ~BridgeTick
  BY <1>5 DEF BridgeNext, bridgeVars, Connect, Close, EndHandler, Receive, Wake
<1> QED BY <1>3, <1>4, <1>5

\* The invariant holds when the bridge starts.
LEMMA InitBridge == BridgeInit => BridgeInv /\ Inv
<1> SUFFICES ASSUME BridgeInit PROVE BridgeInv /\ Inv
  OBVIOUS
<1>1. Inv
  BY InitInv DEF BridgeInit
<1>2. DOMAIN todo = Tasks /\ \A x \in Tasks : todo[x] = <<>> /\ ToSet(todo[x]) = {}
  BY EmptyShape DEF BridgeInit
<1>3. TodoInv
  BY <1>2, EmptyShape DEF TodoInv
<1>4. LockInv
  BY <1>2, EmptyShape DEF BridgeInit, LockInv, NoRepeats
<1>5. ChallengeInv
  BY <1>2 DEF BridgeInit, Init, AuthenticationInit, ChallengeInv, NoncesDrawn
<1>6. DeliveryInv
  BY DEF BridgeInit, DeliveryInv
<1>7. OpenedInv
  BY <1>2 DEF BridgeInit, OpenedInv, Tasks
<1> QED BY <1>1, <1>3, <1>4, <1>5, <1>6, <1>7 DEF BridgeInv

----------------------------------------------------------------------------
(* What the bridge guarantees.                                             *)

\* The invariant of the bridge, and that of the ECU under it, hold for any
\* number of pages, commands and RPC timeouts.
THEOREM BridgeInvariance == BridgeSpec => [](BridgeInv /\ Inv)
<1>1. BridgeInv /\ Inv /\ [BridgeNext]_bridgeVars => BridgeInv' /\ Inv'
  BY StepBridge, BridgeECUStep, NextInv
<1> QED BY <1>1, InitBridge, PTL DEF BridgeSpec

\* Whatever browsers send, the bridge drives the ECU only through steps the ECU
\* can take: the ECU's theorems hold of it behind the bridge.
THEOREM BridgeImplementsECU == BridgeSpec => Spec
<1>1. BridgeInit => Init
  BY DEF BridgeInit
<1>2. BridgeInv /\ Inv /\ [BridgeNext]_bridgeVars => [Next]_vars
  BY BridgeECUStep
<1> QED BY <1>1, <1>2, BridgeInvariance, PTL DEF BridgeSpec, Spec

\* Once the commands are done every connected page has been sent the newest
\* audit entry (push_audit_tail, push_snapshot).
THEOREM NewestIsShown == BridgeSpec => []NewestEntryShown
<1>1. BridgeInv => NewestEntryShown
  <2> SUFFICES ASSUME BridgeInv, Idle, client_ok, entries > 0,
                      NEW w \in Connected \cap behind
               PROVE  FALSE
    BY DEF NewestEntryShown
  <2>1. PICK x \in Browsers : ToSet(todo[x]) # {}
    BY DEF BridgeInv, DeliveryInv
  <2>2. todo[x] = <<>>
    BY DEF Idle
  <2> QED BY <2>1, <2>2, EmptyShape
<1> QED BY <1>1, BridgeInvariance, PTL

\* The second half of 0x29_auth proves possession for the challenge that is
\* pending: it is accepted, unless the session has ended.
LEMMA ProofStep ==
    ASSUME BridgeInv, Inv, NEW w \in Browsers, todo[w] # <<>>,
           Op(Head(todo[w])) = "verify", Rpc(w)
    PROVE  out'.result \in {"positive", "0x22"}
<1> DEFINE s == Head(todo[w])  proof == [signer |-> "tester", data |-> Arg(s)]
<1>1. w \in Tasks /\ s \in ToSet(todo[w])
  BY TailShape DEF Tasks, BridgeInv, TodoInv
<1>2. Legal(s) /\ (CurrentAt(now) = DEFAULT \/ Fits(Arg(s)))
  BY <1>1 DEF BridgeInv, TodoInv, ChallengeInv
<1>3. VerifyProof(Bridge, proof, now)
  BY DEF Rpc, Perform
<1>4. CASE OwnedByOther(Bridge) \/ CurrentAt(now) = DEFAULT
  BY <1>3, <1>4 DEF VerifyProof, Refuse, Answer, OwnedByOther
<1>5. CASE ~OwnedByOther(Bridge) /\ CurrentAt(now) # DEFAULT
  <2>1. Fits(Arg(s)) /\ "tester" \in Certs /\ Arg(s) \in 1..drawn
    BY <1>2, <1>5 DEF Legal
  <2>2. pending_challenge # None /\ pending_tester_cert # None
    BY <2>1, AuthenticationAssumption, SessionAssumption DEF Fits, Inv, ExchangeInv, AuthenticationTypeOK, Nonces
  <2>3. VerifyProofOutcome(proof) = "positive"
    BY <2>1, <2>2, CertificatesAssumption DEF VerifyProofOutcome, Fits
  <2> HIDE DEF proof
  <2> QED BY <1>3, <1>5, <2>3 DEF VerifyProof, Answer
<1> QED BY <1>4, <1>5

\* No interleaving of browsers, connects and the periodic push comes between the
\* certificate and the proof of one 0x29_auth: the lock keeps its challenge.
THEOREM ProofsAreOwn == BridgeSpec => OwnProof
<1>1. BridgeInv /\ Inv /\ [BridgeNext]_bridgeVars
        => [\A w \in Browsers :
              todo[w] # <<>> /\ Op(Head(todo[w])) = "verify" /\ Rpc(w)
                => out'.result \in {"positive", "0x22"}]_bridgeVars
  BY ProofStep
<1> QED BY <1>1, BridgeInvariance, PTL DEF BridgeSpec, OwnProof
============================================================================
