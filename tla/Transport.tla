----------------------------- MODULE Transport -----------------------------
(***************************************************************************)
(* JSON-RPC over TCP (sim/protocol/rpc.py): RpcClients whose callers may   *)
(* be several threads, a server with one thread per connection, and the    *)
(* VirtualECU and its audit log behind them.                               *)
(*                                                                         *)
(* A connection is its number in the order of accepting.  What identifies  *)
(* it to the ECU is id(conn) of its socket object, a member of Clients:    *)
(* unique among the living threads, free for another connection when its   *)
(* thread has ended.  A message is its JSON-RPC id; which method it calls  *)
(* is chosen when the request is served.                                   *)
(***************************************************************************)
EXTENDS VirtualECU, AuditLogger

CONSTANTS
    MaxConns,   \* bound on the connections accepted
    Callers,    \* threads that share a connection's RpcClient
    MaxCalls    \* bound on the calls made on all connections

VARIABLES
    (* the client's side *)
    connected,  \* connections whose client has the socket open
    next_id,    \* _next_id of each client
    waiting,    \* the id a caller waits for in readline(), 0 for none
    timed_out,  \* connections whose file object refuses to be read again
    (* the wire, in both directions *)
    requests, answers,
    (* the server's side *)
    accepted,   \* connections accepted so far
    conn_id,    \* id(conn) of the thread that serves a connection
    serving,    \* the entry a thread is emitting, <<>> for none
    ecu_lock,   \* the connection whose thread holds VirtualECU._lock
    elevator    \* history: the connection that started the elevated session

clientVars == <<connected, next_id, waiting, timed_out>>
serverVars == <<accepted, conn_id, serving, ecu_lock, elevator>>
transportVars == <<vars, auditVars, clientVars, requests, answers, serverVars>>

ASSUME TransportAssumption == MaxConns \in Nat /\ MaxCalls \in Nat

Conns == 1..MaxConns

----------------------------------------------------------------------------
TransportInit ==
    /\ Init /\ AuditInit
    /\ accepted = 0
    /\ connected = {}
    /\ next_id = [k \in Conns |-> 0]
    /\ waiting = [k \in Conns |-> [p \in Callers |-> 0]]
    /\ timed_out = {}
    /\ requests = [k \in Conns |-> <<>>]
    /\ answers = [k \in Conns |-> <<>>]
    /\ conn_id = [k \in Conns |-> None]
    /\ serving = [k \in Conns |-> <<>>]
    /\ ecu_lock = None
    /\ elevator = None

\* A plausible bug: the id is that of a socket another thread still uses.
FreshIdAny(k) == Clients

\* id() of a new socket object: any address no living one has.
FreshId(k) == Clients \ {conn_id[other] : other \in Conns \ {k}}

\* connect() and the server's accept: a thread of its own for the connection.
Connect(k, c) ==
    /\ accepted < MaxConns /\ k = accepted + 1
    /\ accepted' = k
    /\ c \in FreshId(k)
    /\ connected' = connected \cup {k}
    /\ conn_id' = [conn_id EXCEPT ![k] = c]
    /\ UNCHANGED <<vars, auditVars, next_id, waiting, timed_out, requests, answers,
                   serving, ecu_lock, elevator>>

\* A plausible bug: a caller does not wait for the client's lock.
ClientLockIgnored(k, p) == waiting[k][p] = 0

\* RpcClient._lock is free.
ClientLockFree(k, p) == \A q \in Callers : waiting[k][q] = 0

\* Calls made so far, on all connections.
CallsMade == FoldFunction(+, 0, next_id)

\* call(), first half: send the request with the next id, begin to read.
Call(k, p) ==
    /\ k \in connected
    /\ ClientLockFree(k, p)
    /\ CallsMade < MaxCalls
    /\ next_id' = [next_id EXCEPT ![k] = @ + 1]
    /\ requests' = [requests EXCEPT ![k] = Append(@, next_id'[k])]
    /\ waiting' = [waiting EXCEPT ![k][p] = next_id'[k]]
    /\ UNCHANGED <<vars, auditVars, connected, timed_out, answers, serverVars>>

\* call(), second half: the next line is the answer; its id is not looked at.
Return(k, p) ==
    /\ k \in connected \ timed_out
    /\ waiting[k][p] # 0
    /\ answers[k] # <<>>
    /\ answers' = [answers EXCEPT ![k] = Tail(@)]
    /\ waiting' = [waiting EXCEPT ![k][p] = 0]
    /\ UNCHANGED <<vars, auditVars, connected, next_id, timed_out, requests, serverVars>>

\* A plausible bug: the client can be read again after a timeout.
TimeOutForgotten(k, p) ==
    /\ k \in connected
    /\ waiting[k][p] # 0
    /\ waiting' = [waiting EXCEPT ![k][p] = 0]
    /\ UNCHANGED <<vars, auditVars, connected, next_id, timed_out, requests, answers,
                   serverVars>>

\* readline() times out after 5 s, or refuses at once because it has timed out
\* before; call() raises and the lock is released.
TimeOut(k, p) ==
    /\ k \in connected
    /\ waiting[k][p] # 0
    /\ waiting' = [waiting EXCEPT ![k][p] = 0]
    /\ timed_out' = timed_out \cup {k}
    /\ UNCHANGED <<vars, auditVars, connected, next_id, requests, answers, serverVars>>

\* disconnect(), by a client that has no call under way.
Disconnect(k) ==
    /\ k \in connected
    /\ \A p \in Callers : waiting[k][p] = 0
    /\ connected' = connected \ {k}
    /\ answers' = [answers EXCEPT ![k] = <<>>]
    /\ UNCHANGED <<vars, auditVars, next_id, waiting, timed_out, requests, serverVars>>

----------------------------------------------------------------------------
\* A plausible bug: the handler does not take the ECU's lock.
EcuLockIgnored(k) == serving[k] = <<>>

\* VirtualECU._lock is free.
EcuLockFree(k) == ecu_lock = None

\* sendall: to a socket its client has closed it sends nothing.
Send(k, id) ==
    answers' = IF k \in connected THEN [answers EXCEPT ![k] = Append(@, id)] ELSE answers

\* A plausible bug: the lock stays taken after the answer.
AnswerRequestLocked(k) ==
    /\ Send(k, Head(requests[k]))
    /\ requests' = [requests EXCEPT ![k] = Tail(@)]
    /\ UNCHANGED ecu_lock

\* The handler returns: the ECU's lock is released and the answer sent.
AnswerRequest(k) ==
    /\ Send(k, Head(requests[k]))
    /\ requests' = [requests EXCEPT ![k] = Tail(@)]
    /\ ecu_lock' = None

\* A request that starts a session makes its connection the elevator.
NextElevator(k) ==
    IF out'.event = "SESSION_START" THEN k ELSE IF session' = DEFAULT THEN None ELSE elevator

\* What a handler passes to emit.
EmitFields == [event_type |-> out'.event, client_id |-> out'.conn, access_level |-> out'.level]

\* A thread serves its next request, up to the point where an emit has built
\* its entry and not yet linked it.
Handle(k) ==
    /\ conn_id[k] # None
    /\ requests[k] # <<>>
    /\ EcuLockFree(k)
    /\ \E t \in Later : Request(conn_id[k], t)
    /\ elevator' = NextElevator(k)
    /\ IF out'.event = None
       THEN AnswerRequest(k) /\ UNCHANGED serving
       ELSE /\ serving' = [serving EXCEPT ![k] = <<BuildEntry(EmitFields)>>]
            /\ ecu_lock' = k
            /\ UNCHANGED <<requests, answers>>
    /\ UNCHANGED <<auditVars, clientVars, accepted, conn_id>>

\* The thread that is emitting links its entry, and answers.
Emit(k) ==
    /\ serving[k] # <<>>
    /\ AppendEntry(Head(serving[k]))
    /\ serving' = [serving EXCEPT ![k] = <<>>]
    /\ AnswerRequest(k)
    /\ UNCHANGED <<vars, clientVars, accepted, conn_id, elevator>>

\* The thread finds the connection closed or reset by its client and ends;
\* requests it has not read are lost.  Only now its socket's id is free.
EndThread(k) ==
    /\ conn_id[k] # None
    /\ k \notin connected
    /\ serving[k] = <<>>
    /\ conn_id' = [conn_id EXCEPT ![k] = None]
    /\ requests' = [requests EXCEPT ![k] = <<>>]
    /\ UNCHANGED <<vars, auditVars, clientVars, answers, accepted, serving, ecu_lock, elevator>>

TransportTick ==
    /\ Tick
    /\ UNCHANGED <<auditVars, clientVars, requests, answers, serverVars>>

ClientStep(k, p) == Call(k, p) \/ Return(k, p) \/ TimeOut(k, p)
ThreadStep(k) == Handle(k) \/ Emit(k) \/ EndThread(k)

TransportNext ==
    \/ \E k \in Conns, c \in Clients : Connect(k, c)
    \/ \E k \in Conns, p \in Callers : ClientStep(k, p)
    \/ \E k \in Conns : Disconnect(k)
    \/ \E k \in Conns : ThreadStep(k)
    \/ TransportTick

\* The server's threads run; clients need do nothing.
TransportSpec ==
    /\ TransportInit /\ [][TransportNext]_transportVars
    /\ \A k \in Conns : WF_transportVars(ThreadStep(k))

----------------------------------------------------------------------------
\* call() takes the next line for its answer and never compares ids, yet it
\* returns the answer to its own request: not another thread's, and not the
\* late answer to a call that timed out before it.
ReturnsOwnAnswer ==
    \A k \in connected \ timed_out, p \in Callers :
        waiting[k][p] # 0 /\ answers[k] # <<>> => Head(answers[k]) = waiting[k][p]

\* A step in which a thread serves its next request (Handle): it holds the lock
\* afterwards, or has answered already.
Serves(k) ==
    /\ ecu_lock = None
    /\ requests[k] # <<>>
    /\ conn_id'[k] # None
    /\ ecu_lock' = k \/ requests'[k] = Tail(requests[k])

\* REQ-007, per connection rather than per id: while the connection that
\* elevated a live session is being served, requests of every other connection
\* leave the ECU alone (the two injections excepted).
OwnerConnectionIsolation ==
    [][\A k \in Conns \ {elevator} :
         CurrentAt(now) # DEFAULT /\ elevator # None /\ conn_id[elevator] # None
         /\ Serves(k) /\ out'.op \notin {"inject_tamper", "inject_replay_nonce"}
           => UNCHANGED <<session, last_activity, saVars, authVars, ecuVars>>]_transportVars

\* A client that keeps its connection open gets every request answered,
\* however the other connections' handlers and disconnects interleave.
RequestsAnswered ==
    \A k \in Conns : requests[k] # <<>> ~> requests[k] = <<>> \/ k \notin connected

\* rpc.py: "Return a unique integer identifying the current TCP connection.":
\* a request acts as the owner of a live session only on the connection that
\* elevated it.
OwnerIsElevator ==
    [][\A k \in Conns :
         CurrentAt(now) # DEFAULT /\ Serves(k) /\ conn_id[k] = session_owner
           => k = elevator]_transportVars
============================================================================
