------------------------- MODULE Transport_proofs -------------------------
(***************************************************************************)
(* The transport, for any number of connections, callers and calls.        *)
(*                                                                         *)
(* Behind it the ECU takes steps of VirtualECU only, so that whatever is   *)
(* proved of VirtualECU holds for clients of the server too.  On top of    *)
(* that three invariants: LogInv about the thread that emits while it      *)
(* holds the ECU's lock, ExchangesInv about what is on the wire while a    *)
(* caller waits, and ElevatorInv about the ids of the connections.         *)
(***************************************************************************)
EXTENDS Transport, VirtualECU_proofs, AuditLogger_proofs

ConnsInv ==
    /\ accepted \in 0..MaxConns
    /\ connected \subseteq 1..accepted
    /\ conn_id \in [Conns -> Clients \cup {None}]
    /\ requests \in [Conns -> Seq(Nat)]
    /\ answers \in [Conns -> Seq(Nat)]
    /\ next_id \in [Conns -> Nat]
    /\ waiting \in [Conns -> [Callers -> Nat]]
    /\ DOMAIN serving = Conns
    /\ ecu_lock \in Conns \cup {None}

\* The entry a thread is about to link continues the log, because nobody else
\* emits while that thread holds the ECU's lock.
LogInv ==
    /\ AuditInv
    /\ \A k \in Conns : serving[k] # <<>> =>
         /\ ecu_lock = k
         /\ requests[k] # <<>>
         /\ serving[k] = <<BuildEntry(Head(serving[k]).fields)>>

\* Nothing is on the wire between a client and its thread, or exactly the one
\* request its one waiting caller has sent, or the answer to that request.
OneExchange(k) ==
    \/ /\ requests[k] = <<>> /\ answers[k] = <<>>
       /\ \A p \in Callers : waiting[k][p] = 0
    \/ \E p \in Callers :
         /\ waiting[k][p] # 0
         /\ \A q \in Callers \ {p} : waiting[k][q] = 0
         /\ \/ requests[k] = <<waiting[k][p]>> /\ answers[k] = <<>>
            \/ requests[k] = <<>> /\ answers[k] = <<waiting[k][p]>>

\* That is so until a call on the connection times out; a connection not yet
\* accepted has an empty wire.
ExchangesInv ==
    /\ \A k \in Conns \ (1..accepted) :
         requests[k] = <<>> /\ answers[k] = <<>> /\ \A p \in Callers : waiting[k][p] = 0
    /\ \A k \in connected \ timed_out : OneExchange(k)

\* Living threads have different ids, and the owner of an elevated session is
\* the id of the connection that elevated it for as long as its thread lives.
ElevatorInv ==
    /\ elevator \in (1..accepted) \cup {None}
    /\ \A k \in Conns \ (1..accepted) : conn_id[k] = None
    /\ \A j, k \in Conns : conn_id[j] # None /\ conn_id[j] = conn_id[k] => j = k
    /\ session # DEFAULT /\ elevator # None /\ conn_id[elevator] # None
         => session_owner = conn_id[elevator]

TransportInv == ConnsInv /\ LogInv /\ ExchangesInv /\ ElevatorInv

----------------------------------------------------------------------------
(* The ECU behind the transport.                                           *)

\* A step of the transport is a step of the ECU or leaves the ECU alone.
LEMMA TransportECUStep ==
    ASSUME ConnsInv, [TransportNext]_transportVars
    PROVE  [Next]_vars
<1>1. ASSUME NEW k \in Conns, Handle(k) PROVE Next
  <2>1. conn_id[k] \in Clients
    BY <1>1 DEF Handle, ConnsInv
  <2> QED BY <1>1, <2>1 DEF Handle, Next
<1>2. TransportTick => Next
  BY DEF TransportTick, Next
<1> QED BY <1>1, <1>2 DEF TransportNext, ClientStep, ThreadStep, Connect, Call, Return, TimeOut,
        Disconnect, Emit, EndThread, transportVars

----------------------------------------------------------------------------
(* Every step keeps ConnsInv.                                              *)

\* The answer goes to the end of a queue of ids.
LEMMA AnswerConns ==
    ASSUME ConnsInv, NEW k \in Conns, requests[k] # <<>>, AnswerRequest(k)
    PROVE  /\ requests' \in [Conns -> Seq(Nat)]
           /\ answers' \in [Conns -> Seq(Nat)]
           /\ ecu_lock' = None
<1>1. Head(requests[k]) \in Nat /\ Tail(requests[k]) \in Seq(Nat)
  BY HeadTailProperties DEF ConnsInv
<1>2. Append(answers[k], Head(requests[k])) \in Seq(Nat)
  BY <1>1, AppendProperties DEF ConnsInv
<1> QED BY <1>1, <1>2 DEF ConnsInv, AnswerRequest, Send

\* Every step keeps ConnsInv.
LEMMA StepConns ==
    ASSUME ConnsInv, LogInv, [TransportNext]_transportVars
    PROVE  ConnsInv'
<1> USE TransportAssumption, SessionAssumption
<1>1. ASSUME NEW k \in Conns, NEW c \in Clients, Connect(k, c) PROVE ConnsInv'
  BY <1>1 DEF Connect, FreshId, ConnsInv, Conns
<1>2. ASSUME NEW k \in Conns, NEW p \in Callers, Call(k, p) PROVE ConnsInv'
  <2>1. next_id' \in [Conns -> Nat] /\ next_id'[k] \in Nat
    BY <1>2 DEF Call, ConnsInv
  <2>2. Append(requests[k], next_id'[k]) \in Seq(Nat)
    BY <2>1, AppendProperties DEF ConnsInv
  <2>3. requests' \in [Conns -> Seq(Nat)]
    BY <1>2, <2>2 DEF Call, ConnsInv
  <2>4. waiting' \in [Conns -> [Callers -> Nat]]
    BY <1>2, <2>1 DEF Call, ConnsInv
  <2> QED BY <1>2, <2>1, <2>3, <2>4 DEF Call, serverVars, ConnsInv
<1>3. ASSUME NEW k \in Conns, NEW p \in Callers, Return(k, p) PROVE ConnsInv'
  <2>1. Tail(answers[k]) \in Seq(Nat)
    BY <1>3, HeadTailProperties DEF Return, ConnsInv
  <2> QED BY <1>3, <2>1 DEF Return, serverVars, ConnsInv
<1>4. ASSUME NEW k \in Conns, NEW p \in Callers, TimeOut(k, p) PROVE ConnsInv'
  BY <1>4 DEF TimeOut, serverVars, ConnsInv
<1>5. ASSUME NEW k \in Conns, Disconnect(k) PROVE ConnsInv'
  BY <1>5 DEF Disconnect, serverVars, ConnsInv
<1>6. ASSUME NEW k \in Conns, Handle(k) PROVE ConnsInv'
  <2>1. CASE AnswerRequest(k) /\ UNCHANGED serving
    BY <1>6, <2>1, AnswerConns DEF Handle, clientVars, ConnsInv
  <2>2. CASE /\ DOMAIN serving' = Conns /\ ecu_lock' = k
             /\ UNCHANGED <<requests, answers>>
    BY <1>6, <2>2 DEF Handle, clientVars, ConnsInv
  <2> QED BY <1>6, <2>1, <2>2 DEF Handle, ConnsInv
<1>7. ASSUME NEW k \in Conns, Emit(k) PROVE ConnsInv'
  <2>1. requests[k] # <<>>
    BY <1>7 DEF Emit, LogInv
  <2> QED BY <1>7, <2>1, AnswerConns DEF Emit, clientVars, ConnsInv
<1>8. ASSUME NEW k \in Conns, EndThread(k) PROVE ConnsInv'
  BY <1>8 DEF EndThread, clientVars, ConnsInv
<1>9. CASE TransportTick
  BY <1>9 DEF TransportTick, clientVars, serverVars, ConnsInv
<1>10. CASE UNCHANGED transportVars
  BY <1>10 DEF transportVars, clientVars, serverVars, ConnsInv
<1> QED BY <1>1, <1>2, <1>3, <1>4, <1>5, <1>6, <1>7, <1>8, <1>9, <1>10
        DEF TransportNext, ClientStep, ThreadStep

----------------------------------------------------------------------------
(* Every step keeps LogInv.                                                *)

\* Every step keeps LogInv.
LEMMA StepLog ==
    ASSUME ConnsInv, LogInv, [TransportNext]_transportVars
    PROVE  LogInv'
<1> USE TransportAssumption, SessionAssumption
<1>0. None \notin Conns
  BY DEF Conns
<1>1. ASSUME UNCHANGED <<auditVars, serving, ecu_lock, requests>> PROVE LogInv'
  BY <1>1 DEF LogInv, AuditInv, auditVars, BuildEntry
<1>2. ASSUME NEW k \in Conns, NEW p \in Callers, Call(k, p) PROVE LogInv'
  <2>1. requests' \in [Conns -> Seq(Nat)] /\ requests'[k] # <<>>
    <3>1. requests' \in [Conns -> Seq(Nat)]
      BY <1>2, StepConns DEF TransportNext, ClientStep, ConnsInv
    <3>2. Append(requests[k], next_id'[k]) # <<>>
      BY AppendNonempty DEF ConnsInv
    <3> QED BY <1>2, <3>1, <3>2 DEF Call, ConnsInv
  <2>2. \A j \in Conns : requests[j] # <<>> => requests'[j] # <<>>
    BY <1>2, <2>1 DEF Call, ConnsInv
  <2> QED BY <1>2, <2>2 DEF Call, LogInv, AuditInv, auditVars, serverVars, BuildEntry
<1>3. ASSUME NEW k \in Conns, Handle(k) PROVE LogInv'
  <2>1. \A j \in Conns : serving[j] = <<>>
    BY <1>0, <1>3 DEF Handle, EcuLockFree, LogInv
  <2>2. CASE UNCHANGED serving
    BY <1>3, <2>1, <2>2 DEF Handle, LogInv, AuditInv, auditVars
  <2>3. CASE /\ serving' = [serving EXCEPT ![k] = <<BuildEntry(EmitFields)>>]
             /\ ecu_lock' = k
             /\ UNCHANGED <<requests, answers>>
    <3>1. Head(<<BuildEntry(EmitFields)>>).fields = EmitFields
      BY DEF BuildEntry, Seal
    <3>2. \A j \in Conns : serving'[j] = IF j = k THEN <<BuildEntry(EmitFields)>> ELSE <<>>
      BY <2>1, <2>3 DEF ConnsInv
    <3>3. UNCHANGED auditVars /\ requests[k] # <<>>
      BY <1>3 DEF Handle
    <3>4. serving'[k] = <<BuildEntry(Head(serving'[k]).fields)>>
      BY <3>1, <3>2
    <3>5. \A j \in Conns : serving'[j] # <<>> => j = k
      BY <3>2
    <3>6. \A f : BuildEntry(f)' = BuildEntry(f)
      BY <3>3 DEF BuildEntry, auditVars
    <3> QED BY <2>3, <3>3, <3>4, <3>5, <3>6 DEF LogInv, AuditInv, auditVars
  <2> QED BY <1>3, <2>2, <2>3 DEF Handle
<1>4. ASSUME NEW k \in Conns, Emit(k) PROVE LogInv'
  <2>1. \A j \in Conns : serving'[j] = <<>>
    BY <1>4 DEF Emit, LogInv, ConnsInv
  <2> DEFINE f == Head(serving[k]).fields
             e == Seal([fields |-> f, prev_hash |-> LastHash(entries)])
  <2>2. serving[k] = <<e>>
    BY <1>4 DEF Emit, LogInv, AuditInv, BuildEntry
  <2> HIDE DEF f
  <2>3. entries' = Append(entries, e) /\ prev_hash' = e.entry_hash
    <3> HIDE DEF e
    <3> QED BY <1>4, <2>2 DEF Emit, AppendEntry
  <2>4. WellChained(Append(entries, e)) /\ LastHash(Append(entries, e)) = e.entry_hash
    BY AppendKeepsChain DEF LogInv, AuditInv
  <2> HIDE DEF e
  <2>5. AuditInv'
    BY <2>3, <2>4 DEF AuditInv
  <2> QED BY <2>1, <2>5 DEF LogInv
<1>5. ASSUME NEW k \in Conns, EndThread(k) PROVE LogInv'
  <2>1. \A j \in Conns : j # k => requests'[j] = requests[j]
    BY <1>5 DEF EndThread, ConnsInv
  <2> QED BY <1>5, <2>1 DEF EndThread, LogInv, AuditInv, auditVars, BuildEntry
<1>6. CASE \/ \E k \in Conns, c \in Clients : Connect(k, c)
           \/ \E k \in Conns, p \in Callers : Return(k, p) \/ TimeOut(k, p)
           \/ \E k \in Conns : Disconnect(k)
           \/ TransportTick
           \/ UNCHANGED transportVars
  BY <1>1, <1>6 DEF Connect, Return, TimeOut, Disconnect, TransportTick, transportVars, serverVars
<1> QED BY <1>2, <1>3, <1>4, <1>5, <1>6 DEF TransportNext, ClientStep, ThreadStep

----------------------------------------------------------------------------
(* Every step keeps ExchangesInv.                                          *)

\* A step of one connection leaves the exchanges of the others alone.
LEMMA OthersExchanges ==
    ASSUME ConnsInv, ExchangesInv, NEW k \in 1..accepted, accepted' = accepted,
           connected' \ timed_out' \subseteq connected \ timed_out,
           \A j \in Conns \ {k} : /\ requests'[j] = requests[j] /\ answers'[j] = answers[j]
                                 /\ waiting'[j] = waiting[j],
           k \in connected' \ timed_out' => OneExchange(k)'
    PROVE  ExchangesInv'
<1>1. connected \subseteq Conns /\ 1..accepted \subseteq Conns
  BY TransportAssumption DEF ConnsInv, Conns
<1>2. ASSUME NEW j \in Conns \ (1..accepted)
      PROVE  requests'[j] = <<>> /\ answers'[j] = <<>> /\ \A p \in Callers : waiting'[j][p] = 0
  BY <1>1 DEF ExchangesInv
<1>3. ASSUME NEW j \in connected' \ timed_out', j # k
      PROVE  OneExchange(j)'
  <2>1. j \in Conns /\ OneExchange(j)
    BY <1>1, <1>3 DEF ExchangesInv
  <2>2. requests'[j] = requests[j] /\ answers'[j] = answers[j] /\ waiting'[j] = waiting[j]
    BY <1>3, <2>1
  <2> QED BY <2>1, <2>2 DEF OneExchange
<1> QED BY <1>2, <1>3 DEF ExchangesInv

\* The thread takes the one request off the wire and puts its answer there.
LEMMA AnswerExchanges ==
    ASSUME ConnsInv, ExchangesInv, NEW k \in 1..accepted, requests[k] # <<>>, AnswerRequest(k),
           UNCHANGED <<accepted, clientVars>>
    PROVE  ExchangesInv'
<1>0. k \in Conns
  BY TransportAssumption DEF ConnsInv, Conns
<1>1. \A j \in Conns \ {k} : requests'[j] = requests[j] /\ answers'[j] = answers[j]
                            /\ waiting'[j] = waiting[j]
  BY <1>0 DEF AnswerRequest, Send, ConnsInv, clientVars
<1>2. ASSUME k \in connected \ timed_out PROVE OneExchange(k)'
  <2>1. PICK p \in Callers :
          /\ waiting[k][p] # 0
          /\ \A q \in Callers \ {p} : waiting[k][q] = 0
          /\ requests[k] = <<waiting[k][p]>> /\ answers[k] = <<>>
    BY <1>2 DEF ExchangesInv, OneExchange
  <2> DEFINE w == waiting[k][p]
  <2>2. Tail(<<w>>) = <<>> /\ Head(<<w>>) = w /\ Append(<<>>, w) = <<w>>
    OBVIOUS
  <2>3. requests'[k] = <<>> /\ answers'[k] = <<w>> /\ waiting' = waiting
    BY <1>0, <1>2, <2>1, <2>2 DEF AnswerRequest, Send, ConnsInv, clientVars
  <2> QED BY <2>1, <2>3 DEF OneExchange
<1> QED BY <1>1, <1>2, OthersExchanges DEF clientVars

\* Every step keeps ExchangesInv.
LEMMA StepExchanges ==
    ASSUME ConnsInv, LogInv, ExchangesInv, ElevatorInv, [TransportNext]_transportVars
    PROVE  ExchangesInv'
<1> USE TransportAssumption, SessionAssumption
<1>0. connected \subseteq Conns /\ 1..accepted \subseteq Conns /\ connected \subseteq 1..accepted
  BY DEF ConnsInv, Conns
<1>1. ASSUME NEW k \in Conns, NEW c \in Clients, Connect(k, c) PROVE ExchangesInv'
  <2>1. k \in Conns \ (1..accepted) /\ (1..accepted) \subseteq (1..accepted')
        /\ connected' = connected \cup {k} /\ timed_out' = timed_out
    BY <1>1 DEF Connect, ConnsInv
  <2>2. UNCHANGED <<requests, answers, waiting>>
    BY <1>1 DEF Connect
  <2>3. \A j \in Conns : OneExchange(j)' = OneExchange(j)
    BY <2>2 DEF OneExchange
  <2>4. OneExchange(k)
    BY <2>1 DEF ExchangesInv, OneExchange
  <2> QED BY <1>0, <2>1, <2>2, <2>3, <2>4 DEF ExchangesInv
<1>2. ASSUME NEW k \in Conns, NEW p \in Callers, Call(k, p) PROVE ExchangesInv'
  <2>1. k \in 1..accepted /\ accepted' = accepted /\ connected' = connected /\ timed_out' = timed_out
    BY <1>0, <1>2 DEF Call, serverVars
  <2>2. \A j \in Conns \ {k} : requests'[j] = requests[j] /\ answers'[j] = answers[j]
                              /\ waiting'[j] = waiting[j]
    BY <1>2 DEF Call, ConnsInv
  <2>3. ASSUME k \in connected \ timed_out PROVE OneExchange(k)'
    <3>1. requests[k] = <<>> /\ answers[k] = <<>> /\ \A q \in Callers : waiting[k][q] = 0
      BY <1>2, <2>3 DEF Call, ClientLockFree, ExchangesInv, OneExchange
    <3> DEFINE n == next_id'[k]
    <3>2. n # 0
      BY <1>2 DEF Call, ConnsInv
    <3> HIDE DEF n
    <3>3. Append(<<>>, n) = <<n>>
      OBVIOUS
    <3>4. /\ requests'[k] = <<n>> /\ answers'[k] = <<>>
          /\ waiting'[k][p] = n /\ \A q \in Callers \ {p} : waiting'[k][q] = waiting[k][q]
      BY <1>2, <3>1, <3>3 DEF Call, ConnsInv, n
    <3> QED BY <3>1, <3>2, <3>4 DEF OneExchange
  <2> QED BY <2>1, <2>2, <2>3, OthersExchanges
<1>3. ASSUME NEW k \in Conns, NEW p \in Callers, Return(k, p) PROVE ExchangesInv'
  <2>1. k \in 1..accepted /\ accepted' = accepted /\ connected' = connected /\ timed_out' = timed_out
    BY <1>0, <1>3 DEF Return, serverVars
  <2>2. \A j \in Conns \ {k} : requests'[j] = requests[j] /\ answers'[j] = answers[j]
                              /\ waiting'[j] = waiting[j]
    BY <1>3 DEF Return, ConnsInv
  <2>3. /\ answers[k] = <<waiting[k][p]>> /\ requests[k] = <<>>
        /\ \A q \in Callers \ {p} : waiting[k][q] = 0
    BY <1>3 DEF Return, ExchangesInv, OneExchange
  <2>4. Tail(<<waiting[k][p]>>) = <<>>
    OBVIOUS
  <2>5. /\ requests'[k] = <<>> /\ answers'[k] = <<>>
        /\ \A q \in Callers : waiting'[k][q] = 0
    BY <1>3, <2>3, <2>4 DEF Return, ConnsInv
  <2> QED BY <2>1, <2>2, <2>5, OthersExchanges DEF OneExchange
<1>4. ASSUME NEW k \in Conns, NEW p \in Callers, TimeOut(k, p) PROVE ExchangesInv'
  <2>1. k \in 1..accepted /\ accepted' = accepted /\ connected' = connected /\ k \in timed_out'
        /\ connected' \ timed_out' \subseteq connected \ timed_out
    BY <1>0, <1>4 DEF TimeOut, serverVars
  <2>2. \A j \in Conns \ {k} : requests'[j] = requests[j] /\ answers'[j] = answers[j]
                              /\ waiting'[j] = waiting[j]
    BY <1>4 DEF TimeOut, ConnsInv
  <2> QED BY <2>1, <2>2, OthersExchanges
<1>5. ASSUME NEW k \in Conns, Disconnect(k) PROVE ExchangesInv'
  <2>1. k \in 1..accepted /\ accepted' = accepted /\ k \notin connected'
        /\ connected' \ timed_out' \subseteq connected \ timed_out
    BY <1>0, <1>5 DEF Disconnect, serverVars
  <2>2. \A j \in Conns \ {k} : requests'[j] = requests[j] /\ answers'[j] = answers[j]
                              /\ waiting'[j] = waiting[j]
    BY <1>5 DEF Disconnect, ConnsInv
  <2> QED BY <2>1, <2>2, OthersExchanges
<1>6. ASSUME NEW k \in Conns, Handle(k) PROVE ExchangesInv'
  <2>1. CASE AnswerRequest(k)
    <3>1. k \in 1..accepted
      BY <1>6 DEF Handle, ElevatorInv
    <3> QED BY <1>6, <2>1, <3>1, AnswerExchanges DEF Handle
  <2>2. CASE UNCHANGED <<requests, answers>>
    BY <1>6, <2>2 DEF Handle, clientVars, ExchangesInv, OneExchange
  <2> QED BY <1>6, <2>1, <2>2 DEF Handle
<1>7. ASSUME NEW k \in Conns, Emit(k) PROVE ExchangesInv'
  <2>1. requests[k] # <<>> /\ k \in 1..accepted
    BY <1>7 DEF Emit, LogInv, ExchangesInv
  <2> QED BY <1>7, <2>1, AnswerExchanges DEF Emit
<1>8. ASSUME NEW k \in Conns, EndThread(k) PROVE ExchangesInv'
  <2>1. k \in 1..accepted /\ accepted' = accepted /\ k \notin connected'
        /\ connected' \ timed_out' \subseteq connected \ timed_out
    BY <1>8 DEF EndThread, ElevatorInv, clientVars
  <2>2. \A j \in Conns \ {k} : requests'[j] = requests[j] /\ answers'[j] = answers[j]
                              /\ waiting'[j] = waiting[j]
    BY <1>8 DEF EndThread, ConnsInv, clientVars
  <2> QED BY <2>1, <2>2, OthersExchanges
<1>9. CASE TransportTick \/ UNCHANGED transportVars
  BY <1>9 DEF TransportTick, transportVars, clientVars, serverVars, ExchangesInv, OneExchange
<1> QED BY <1>1, <1>2, <1>3, <1>4, <1>5, <1>6, <1>7, <1>8, <1>9
        DEF TransportNext, ClientStep, ThreadStep

----------------------------------------------------------------------------
(* Every step keeps ElevatorInv.                                           *)

\* Every step keeps ElevatorInv.
LEMMA StepElevator ==
    ASSUME ConnsInv, ElevatorInv, Inv, [TransportNext]_transportVars
    PROVE  ElevatorInv'
<1> USE TransportAssumption, SessionAssumption
<1>0. None \notin Conns /\ 1..accepted \subseteq Conns
  BY DEF Conns, ConnsInv
<1>1. ASSUME NEW k \in Conns, NEW c \in Clients, Connect(k, c) PROVE ElevatorInv'
  <2>1. /\ k \in Conns \ (1..accepted) /\ 1..accepted' = (1..accepted) \cup {k}
        /\ UNCHANGED <<session, session_owner, elevator>>
    BY <1>1 DEF Connect, ConnsInv, vars, sessionVars, ecuVars
  <2>2. c # None /\ \A j \in Conns \ {k} : conn_id[j] # c
    BY <1>1, ClientsAssumption DEF Connect, FreshId
  <2>3. \A j \in Conns : conn_id'[j] = IF j = k THEN c ELSE conn_id[j]
    BY <1>1 DEF Connect, ConnsInv
  <2>4. \A i, j \in Conns : conn_id'[i] # None /\ conn_id'[i] = conn_id'[j] => i = j
    BY <2>2, <2>3 DEF ElevatorInv
  <2>5. elevator # None => conn_id'[elevator] = conn_id[elevator]
    BY <1>0, <2>1, <2>3 DEF ElevatorInv
  <2> QED BY <2>1, <2>3, <2>4, <2>5 DEF ElevatorInv
<1>2. ASSUME NEW k \in Conns, Handle(k) PROVE ElevatorInv'
  <2>1. k \in 1..accepted /\ UNCHANGED <<accepted, conn_id>> /\ elevator' = NextElevator(k)
    BY <1>2 DEF Handle, ElevatorInv
  <2>2. SessionStep(conn_id[k])
    BY <1>2, RequestSession DEF Handle, ConnsInv
  <2>3. CASE out'.event = "SESSION_START"
    BY <2>1, <2>2, <2>3 DEF NextElevator, SessionStep, ElevatorInv
  <2>4. CASE out'.event # "SESSION_START" /\ session' = DEFAULT
    BY <2>1, <2>4 DEF NextElevator, ElevatorInv
  <2>5. CASE out'.event # "SESSION_START" /\ session' # DEFAULT
    <3>1. session # DEFAULT /\ session_owner' = session_owner
      BY <2>2, <2>5 DEF SessionStep, Waits, Idles, Takes, Holds, Gives, CurrentAt
    <3> QED BY <2>1, <2>5, <3>1 DEF NextElevator, ElevatorInv
  <2> QED BY <2>3, <2>4, <2>5
<1>3. ASSUME NEW k \in Conns, EndThread(k) PROVE ElevatorInv'
  <2>1. UNCHANGED <<session, session_owner, elevator, accepted>>
    BY <1>3 DEF EndThread, vars, sessionVars, ecuVars
  <2>2. \A j \in Conns : conn_id'[j] = IF j = k THEN None ELSE conn_id[j]
    BY <1>3 DEF EndThread, ConnsInv
  <2> QED BY <1>0, <2>1, <2>2 DEF ElevatorInv
<1>4. CASE UNCHANGED <<session, session_owner, elevator, accepted, conn_id>>
  BY <1>4 DEF ElevatorInv
<1>5. CASE \/ \E k \in Conns, p \in Callers : ClientStep(k, p)
           \/ \E k \in Conns : Disconnect(k) \/ Emit(k)
           \/ TransportTick
           \/ UNCHANGED transportVars
  BY <1>4, <1>5 DEF ClientStep, Call, Return, TimeOut, Disconnect, Emit, TransportTick, Tick,
     AdvanceClock, transportVars, serverVars, vars, sessionVars, ecuVars
<1> QED BY <1>1, <1>2, <1>3, <1>5 DEF TransportNext, ThreadStep

----------------------------------------------------------------------------
(* The invariant.                                                          *)

\* It holds at the start.
LEMMA InitTransport == TransportInit => TransportInv /\ Inv
<1> SUFFICES ASSUME TransportInit PROVE TransportInv /\ Inv
  OBVIOUS
<1> USE TransportAssumption, SessionAssumption DEF TransportInit
<1>1. Inv
  BY InitInv
<1>2. ConnsInv
  <2>1. <<>> \in Seq(Nat)
    OBVIOUS
  <2> QED BY <2>1 DEF ConnsInv
<1>3. LogInv
  <2>1. \A k \in Conns : serving[k] = <<>>
    OBVIOUS
  <2>2. AuditInv
    BY EmptyLog DEF AuditInv, AuditInit
  <2> QED BY <2>1, <2>2 DEF LogInv
<1>4. ExchangesInv
  BY DEF ExchangesInv
<1>5. ElevatorInv
  BY DEF ElevatorInv, Init, SessionInit
<1> QED BY <1>1, <1>2, <1>3, <1>4, <1>5 DEF TransportInv

\* Every step keeps it.
LEMMA StepTransport == TransportInv /\ Inv /\ [TransportNext]_transportVars => TransportInv' /\ Inv'
BY TransportECUStep, NextInv, StepConns, StepLog, StepExchanges, StepElevator DEF TransportInv

\* The invariant of the transport, and that of the ECU behind it.
THEOREM TransportInvariance == TransportSpec => [](TransportInv /\ Inv)
BY InitTransport, StepTransport, PTL DEF TransportSpec

----------------------------------------------------------------------------
(* What the transport promises.                                            *)

\* Behind the server the ECU behaves as VirtualECU says: connections whose
\* requests interleave, ids that are used again and requests that are lost show
\* it nothing that clients calling it one after the other would not.
THEOREM TransportImplementsECU == TransportSpec => Spec
<1>1. TransportInit => Init
  BY DEF TransportInit
<1>2. TransportInv /\ [TransportNext]_transportVars => [Next]_vars
  BY TransportECUStep DEF TransportInv
<1> QED BY <1>1, <1>2, TransportInvariance, PTL DEF TransportSpec, Spec

\* REQ-030: the log verifies after every emit, although build and append are
\* two steps and every thread emits.
THEOREM LogVerifies == TransportSpec => []ChainVerifies
<1>1. TransportInv => ChainVerifies
  BY AuditInvImplies DEF TransportInv, LogInv
<1> QED BY <1>1, TransportInvariance, PTL

\* REQ-030: verify() finds every edit of a stored log that is not recomputed to
\* its end, whatever the log recorded and however long it is.
THEOREM LogTamperEvident == TransportSpec => []TamperEvident
<1>1. TransportInv => TamperEvident
  BY AuditInvImplies DEF TransportInv, LogInv
<1> QED BY <1>1, TransportInvariance, PTL

\* call() compares no ids and yet returns the answer to its own request.
THEOREM AnswersAreOwn == TransportSpec => []ReturnsOwnAnswer
<1>1. ASSUME TransportInv PROVE ReturnsOwnAnswer
  <2>1. SUFFICES ASSUME NEW k \in connected \ timed_out, NEW p \in Callers,
                        waiting[k][p] # 0, answers[k] # <<>>
                 PROVE  Head(answers[k]) = waiting[k][p]
    BY DEF ReturnsOwnAnswer
  <2>2. answers[k] = <<waiting[k][p]>>
    BY <1>1, <2>1 DEF TransportInv, ExchangesInv, OneExchange
  <2> QED BY <2>2
<1> QED BY <1>1, TransportInvariance, PTL

\* REQ-007 per connection: while the connection that elevated a live session is
\* being served, the requests of the other connections leave the ECU alone.
THEOREM OwnerConnectionsIsolated == TransportSpec => OwnerConnectionIsolation
<1> USE TransportAssumption, SessionAssumption
<1> DEFINE Alone == UNCHANGED <<session, last_activity, saVars, authVars, ecuVars>>
           Isolated(k) ==
             CurrentAt(now) # DEFAULT /\ elevator # None /\ conn_id[elevator] # None
             /\ Serves(k) /\ out'.op \notin {"inject_tamper", "inject_replay_nonce"}
               => Alone
<1>1. ASSUME TransportInv, TransportNext, NEW k \in Conns \ {elevator} PROVE Isolated(k)
  <2>0. None \notin Conns /\ ConnsInv /\ ElevatorInv /\ k \in Conns
    BY <1>1 DEF Conns, TransportInv
  <2>1. ASSUME NEW j \in Conns, Handle(j) PROVE Isolated(k)
    <3> SUFFICES ASSUME CurrentAt(now) # DEFAULT, elevator # None, conn_id[elevator] # None,
                        Serves(k), out'.op \notin {"inject_tamper", "inject_replay_nonce"}
                 PROVE  Alone
      OBVIOUS
    <3>1. j = k
      <4> SUFFICES ASSUME j # k PROVE FALSE
        OBVIOUS
      <4>1. requests'[k] = requests[k] /\ ecu_lock' # k
        BY <2>0, <2>1 DEF Handle, AnswerRequest, ConnsInv
      <4>2. Tail(requests[k]) # requests[k]
        <5>1. requests[k] \in Seq(Nat) /\ requests[k] # <<>>
          BY <2>0 DEF ConnsInv, Serves
        <5>2. Len(Tail(requests[k])) = Len(requests[k]) - 1 /\ Len(requests[k]) \in Nat
          BY <5>1, HeadTailProperties, LenProperties
        <5> DEFINE n == Len(requests[k])
        <5>3. n - 1 # n
          <6> HIDE DEF n
          <6>1. n \in Nat
            BY <5>2 DEF n
          <6> QED BY <6>1
        <5> QED BY <5>2, <5>3
      <4> QED BY <4>1, <4>2 DEF Serves
    <3>2. conn_id[k] # session_owner /\ conn_id[k] \in Clients
      <4>1. elevator \in Conns /\ session # DEFAULT
        BY <2>0 DEF ElevatorInv, ConnsInv, Conns, CurrentAt
      <4> QED BY <1>1, <2>0, <2>1, <3>1, <4>1 DEF ElevatorInv, ConnsInv, Handle
    <3> QED BY <2>1, <3>1, <3>2, RequestIsolation DEF Handle
  <2>2. CASE TransportTick
    BY <2>2 DEF TransportTick, Tick, AdvanceClock
  <2>3. CASE UNCHANGED vars
    BY <2>3 DEF vars, sessionVars
  <2> QED BY <1>1, <2>1, <2>2, <2>3 DEF TransportNext, ClientStep, ThreadStep, Connect, Call, Return,
          TimeOut, Disconnect, Emit, EndThread
<1>2. TransportInv /\ [TransportNext]_transportVars
        => [\A k \in Conns \ {elevator} : Isolated(k)]_transportVars
  BY <1>1
<1> QED BY <1>2, TransportInvariance, PTL DEF TransportSpec, OwnerConnectionIsolation
============================================================================
