------------------------------- MODULE XmlRpc -------------------------------
(* A call of the master: master::execute() with the clients that XMLRPCManager  *)
(* keeps for it, XmlRpcClient, the dispatcher that drives it, and an            *)
(* XmlRpcServer with its connections at the other end, which ends and starts    *)
(* again.  A client's connection is kept for the next call.  A request and a    *)
(* response are units named by their call and their place: the header, which    *)
(* the first two are, and the body; a socket has room for some of them.         *)
EXTENDS Integers, Sequences, FiniteSets, SequencesExt

CONSTANTS
    Caller,       \* the threads that call
    Client, Conn, \* bounds: the clients, and the connections there are at a time
    Room,         \* the units a socket's buffer holds
    RpcBounds     \* who calls, how often, how often the server ends or a signal comes, and
                  \* whether the node is shut down

ASSUME XmlRpcAssumption ==
    /\ Room \in Nat \ {0}
    /\ {Caller, Client, Conn} \subseteq SUBSET (Nat \ {0})
    /\ RpcBounds \subseteq [callers : SUBSET Caller, calls : Nat, faults : Nat, shutdown : BOOLEAN]

VARIABLES
    rpc_bound,      \* which of RpcBounds holds
    thread,         \* where each thread is in master::execute(), and with which client
    call,           \* the calls there were
    clients_,       \* the clients XMLRPCManager knows, in order
    client,         \* the XmlRpcClients
    call_mutex,     \* who holds g_xmlrpc_call_mutex
    rpc_shutting_down_,
    wire,           \* the connections: what is on its way up and down, and their ends
    peer,           \* the XmlRpcServerConnections
    server_up, rpc_faults

rpcVars == <<rpc_bound, thread, call, clients_, client, call_mutex, rpc_shutting_down_, wire, peer, server_up, rpc_faults>>
ends == <<wire, peer, server_up>>

None == 0
Header == 2
Size == 3
Message(k) == [i \in 1 .. Size |-> <<k, i>>]
Smaller(a, b) == IF a < b THEN a ELSE b

NewClient == [in_use_ |-> FALSE, state |-> "NO_CONNECTION", fd |-> None, eof |-> FALSE, left |-> <<>>,
              got |-> <<>>, attempts |-> 0, watched |-> FALSE]
Unconnected == [up |-> <<>>, down |-> <<>>, client |-> FALSE, server |-> "none", reset |-> FALSE]
NewPeer == [got |-> <<>>, left |-> <<>>]
Nowhere == [at |-> "idle", call |-> None, client |-> None]

RpcInit ==
    /\ rpc_bound \in RpcBounds
    /\ thread = [t \in Caller |-> Nowhere] /\ call = <<>>
    /\ clients_ = <<>> /\ client = [i \in Client |-> NewClient]
    /\ call_mutex = None /\ rpc_shutting_down_ = FALSE
    /\ wire = [f \in Conn |-> Unconnected] /\ peer = [f \in Conn |-> NewPeer]
    /\ server_up = TRUE /\ rpc_faults = 0

-----------------------------------------------------------------------------
(* XmlRpcClient                                                                *)

Close(w, f) == IF f = None THEN w ELSE [w EXCEPT ![f].client = FALSE, ![f].down = <<>>]
Closed(c) == [c EXCEPT !.state = "NO_CONNECTION", !.fd = None, !.eof = FALSE, !.watched = FALSE]

\* setupConnection() after doConnect(), and generateRequest().
Prepared(c, k) == [c EXCEPT !.state = "WRITE_REQUEST", !.left = Message(k), !.watched = TRUE]

\* A number that neither end uses any more.
UnusedNumber(f, w) == ~w[f].client /\ (w[f].server \in {"none", "closed"})
Refused == [Unconnected EXCEPT !.client = TRUE, !.server = "closed", !.reset = TRUE]
Pending == [Unconnected EXCEPT !.client = TRUE, !.server = "queued"]

\* setupConnection() from doConnect() on.  The socket does not block: that the server
\* refuses shows at once or with the first event.
Connect(i, c, k, w) ==
    \/ LET free == {f \in Conn : UnusedNumber(f, w)}
           f == CHOOSE f \in free : \A g \in free : f <= g
       IN  /\ free # {}
           /\ wire' = [w EXCEPT ![f] = IF server_up THEN Pending ELSE Refused]
           /\ client' = [client EXCEPT ![i] = Prepared([c EXCEPT !.fd = f], k)]
    \/ ~server_up /\ wire' = w /\ client' = [client EXCEPT ![i] = c]

\* Mutant: a connection on which a call was broken off is used again.
SpentAtEof(c) == c.eof

\* A connection that failed before, or that the server has closed, is not used again.
Spent(c) == c.state \notin {"NO_CONNECTION", "IDLE"} \/ c.eof
SetupConnection(i, c, k) ==
    IF Spent(c) THEN Connect(i, Closed(c), k, Close(wire, c.fd))
    ELSE IF c.state = "NO_CONNECTION" THEN Connect(i, c, k, wire)
    ELSE client' = [client EXCEPT ![i] = Prepared(c, k)] /\ wire' = wire

Writable(s) == s.reset \/ s.server = "closed" \/ Len(s.up) < Room
Readable(s) == s.reset \/ s.server = "closed" \/ s.down # <<>>

\* readHeader() and readResponse(), for the client c on the connections w.  The end of a
\* connection that was kept open and has not answered yet is tried once more.
Read(i, c, k, w) ==
    LET s == w[c.fd]
        got == c.got \o s.down
        eof == s.server = "closed" /\ ~s.reset
        taken == [w EXCEPT ![c.fd].down = <<>>]
        ended == s.reset \/ (eof /\ Len(got) < Size)
        retried == [c EXCEPT !.attempts = @ + 1]
    IN  CASE got = <<>> /\ ended /\ c.attempts = 0 -> Connect(i, Closed(retried), k, Close(taken, c.fd))
          [] (got # <<>> \/ c.attempts # 0) /\ ended ->
                /\ client' = [client EXCEPT ![i] = [c EXCEPT !.got = got, !.eof = eof, !.watched = FALSE]]
                /\ wire' = taken
          [] ~ended /\ Len(got) >= Size ->
                /\ client' = [client EXCEPT ![i] = [c EXCEPT !.got = got, !.eof = eof, !.state = "IDLE", !.watched = FALSE]]
                /\ wire' = taken
          [] OTHER ->
                /\ client' = [client EXCEPT ![i] = [c EXCEPT !.got = got]]
                /\ wire' = taken

\* writeRequest(), and reading at once when all is written.  What is written to a
\* connection that the server has closed is lost, and resets it, if it is not refused.
WriteRequest(i, k) ==
    LET c == client[i]
        s == wire[c.fd]
        n == IF s.server = "closed" THEN Len(c.left) ELSE Smaller(Room - Len(s.up), Len(c.left))
        rest == SubSeq(c.left, n + 1, Len(c.left))
        sent == IF s.server = "closed" THEN [wire EXCEPT ![c.fd].reset = TRUE, ![c.fd].down = <<>>]
                ELSE [wire EXCEPT ![c.fd].up = @ \o SubSeq(c.left, 1, n)]
        next == [c EXCEPT !.left = rest, !.got = <<>>, !.state = IF rest = <<>> THEN "READ" ELSE @]
    IN  \/ /\ s.server = "closed"
           /\ client' = [client EXCEPT ![i] = [c EXCEPT !.watched = FALSE]] /\ wire' = wire
        \/ /\ ~s.reset
           /\ IF rest = <<>> THEN Read(i, next, k, sent)
              ELSE client' = [client EXCEPT ![i] = next] /\ wire' = sent

-----------------------------------------------------------------------------
(* master::execute()                                                           *)

ThreadAt(t, place) == thread[t].at = place
GoTo(t, place) == thread' = [thread EXCEPT ![t].at = place]

InUse(i) == client[i].in_use_
Reserve(t, i, k) ==
    /\ client' = [client EXCEPT ![i].in_use_ = TRUE]
    /\ thread' = [thread EXCEPT ![t] = [at |-> "call", call |-> k, client |-> i]]

\* The first client nobody uses, or a new one.  Calls begin before the shutdown.
GetXMLRPCClient(t, wait) ==
    /\ ThreadAt(t, "idle") /\ ~rpc_shutting_down_ /\ Len(call) < rpc_bound.calls /\ t \in rpc_bound.callers
    /\ call' = Append(call, [wait |-> wait, executed |-> 0, disturbed |-> 0, answer |-> None, result |-> "none"])
    /\ LET idle == {i \in DOMAIN clients_ : ~InUse(clients_[i])}
       IN  IF idle # {}
           THEN LET first == CHOOSE i \in idle : \A j \in idle : i <= j
                IN  Reserve(t, clients_[first], Len(call) + 1) /\ UNCHANGED clients_
           ELSE \E i \in Client \ ToSet(clients_) :
                   /\ \A j \in Client \ ToSet(clients_) : i <= j
                   /\ Reserve(t, i, Len(call) + 1) /\ clients_' = Append(clients_, i)
    /\ UNCHANGED <<call_mutex, rpc_shutting_down_, ends, rpc_faults>>

\* XmlRpcClient::execute() up to the dispatcher.
Execute(t) ==
    /\ ThreadAt(t, "call") /\ call_mutex = None
    /\ call_mutex' = t
    /\ LET i == thread[t].client
       IN  SetupConnection(i, [client[i] EXCEPT !.attempts = 0], thread[t].call)
    /\ GoTo(t, "work")
    /\ UNCHANGED <<call, clients_, rpc_shutting_down_, peer, server_up, rpc_faults>>

\* One turn of XmlRpcDispatch::work() with the one client it watches, and handleEvent().
Work(t) ==
    LET i == thread[t].client
        c == client[i]
    IN  /\ ThreadAt(t, "work") /\ c.watched
        /\ \/ c.state = "WRITE_REQUEST" /\ Writable(wire[c.fd]) /\ WriteRequest(i, thread[t].call)
           \/ c.state = "READ" /\ Readable(wire[c.fd]) /\ Read(i, c, thread[t].call, wire)
        /\ UNCHANGED <<thread, call, clients_, call_mutex, rpc_shutting_down_, peer, server_up, rpc_faults>>

\* A signal interrupts select(): work() returns, whatever the state of the call.
Interrupt(t) ==
    /\ ThreadAt(t, "work") /\ client[thread[t].client].watched /\ rpc_faults < rpc_bound.faults
    /\ rpc_faults' = rpc_faults + 1
    /\ call' = [call EXCEPT ![thread[t].call].disturbed = @ + 1]
    /\ GoTo(t, "worked")
    /\ UNCHANGED <<clients_, client, call_mutex, rpc_shutting_down_, ends>>

\* work() has returned: parseResponse() when the call is done.
Worked(t) ==
    LET c == client[thread[t].client]
        k == thread[t].call
        done == c.state = "IDLE"
    IN  /\ ThreadAt(t, "worked") \/ (ThreadAt(t, "work") /\ ~c.watched)
        /\ call' = [call EXCEPT ![k].answer = IF done THEN c.got[Size][1] ELSE None]
        /\ call_mutex' = None
        /\ GoTo(t, "executed")
        /\ UNCHANGED <<clients_, client, rpc_shutting_down_, ends, rpc_faults>>

ReleaseXMLRPCClient(t, result) ==
    /\ client' = [client EXCEPT ![thread[t].client].in_use_ = FALSE]
    /\ call' = [call EXCEPT ![thread[t].call].result = result]
    /\ thread' = [thread EXCEPT ![t] = Nowhere]
    /\ UNCHANGED <<clients_, call_mutex, rpc_shutting_down_, ends, rpc_faults>>

Executed(t) ==
    /\ ThreadAt(t, "executed")
    /\ LET k == thread[t].call
       IN  CASE call[k].answer # None -> ReleaseXMLRPCClient(t, "true")
             [] call[k].answer = None /\ (rpc_shutting_down_ \/ ~call[k].wait) -> ReleaseXMLRPCClient(t, "false")
             [] OTHER -> GoTo(t, "sleep") /\ UNCHANGED <<call, clients_, client, call_mutex, rpc_shutting_down_, ends, rpc_faults>>

\* A shutdown that comes while it sleeps ends the loop, and the call returns true.
Sleep(t) ==
    /\ ThreadAt(t, "sleep")
    /\ IF rpc_shutting_down_ THEN ReleaseXMLRPCClient(t, "true")
       ELSE GoTo(t, "call") /\ UNCHANGED <<call, clients_, client, call_mutex, rpc_shutting_down_, ends, rpc_faults>>

ThreadStep(t) == Execute(t) \/ Work(t) \/ Worked(t) \/ Executed(t) \/ Sleep(t)

-----------------------------------------------------------------------------
(* XMLRPCManager::shutdown()                                                   *)

ManagerShutdown ==
    /\ rpc_bound.shutdown
    /\ ~rpc_shutting_down_ /\ rpc_shutting_down_' = TRUE
    /\ UNCHANGED <<thread, call, clients_, client, call_mutex, ends, rpc_faults>>

\* A client in use is waited for, for a tenth of a second; a thread that still uses it
\* when it is deleted is "freed" here, and does nothing more.
DeleteClient ==
    /\ rpc_shutting_down_ /\ clients_ # <<>>
    /\ LET i == Head(clients_)
       IN  /\ clients_' = Tail(clients_)
           /\ client' = [client EXCEPT ![i] = NewClient]
           /\ wire' = Close(wire, client[i].fd)
           /\ thread' = [t \in Caller |-> IF InUse(i) /\ thread[t].client = i THEN [thread[t] EXCEPT !.at = "freed"]
                                          ELSE thread[t]]
    /\ UNCHANGED <<call, call_mutex, rpc_shutting_down_, peer, server_up, rpc_faults>>

-----------------------------------------------------------------------------
(* The server                                                                  *)

AcceptConnection(f) ==
    /\ server_up /\ wire[f].server = "queued"
    /\ wire' = [wire EXCEPT ![f].server = "open"]
    /\ peer' = [peer EXCEPT ![f] = NewPeer]
    /\ UNCHANGED <<thread, call, clients_, client, call_mutex, rpc_shutting_down_, server_up, rpc_faults>>

\* Mutant: the next request is read before the whole response is written.
WriteResponseOnce(f, w, left) ==
    LET n == Smaller(Room - Len(w[f].down), Len(left))
    IN  /\ wire' = [w EXCEPT ![f].down = @ \o SubSeq(left, 1, n)]
        /\ peer' = [peer EXCEPT ![f] = NewPeer]

\* writeResponse(), for what is left of one.
WriteResponse(f, w, left) ==
    LET s == w[f]
        n == Smaller(Room - Len(s.down), Len(left))
    IN  IF ~s.client
        THEN wire' = [w EXCEPT ![f].server = "closed"] /\ peer' = [peer EXCEPT ![f] = NewPeer]
        ELSE /\ wire' = [w EXCEPT ![f].down = @ \o SubSeq(left, 1, n)]
             /\ peer' = [peer EXCEPT ![f] = [got |-> <<>>, left |-> SubSeq(left, n + 1, Len(left))]]

\* readHeader(), readRequest(), and executeRequest() when the request is there.
ReadRequest(f) ==
    LET s == wire[f]
        got == peer[f].got \o s.up
        taken == [wire EXCEPT ![f].up = <<>>]
        k == got[Size][1]
    IN  /\ s.up # <<>> \/ ~s.client
        /\ IF Len(got) >= Size
           THEN call' = [call EXCEPT ![k].executed = @ + 1] /\ WriteResponse(f, taken, Message(k))
           ELSE IF s.client
           THEN UNCHANGED call /\ wire' = taken /\ peer' = [peer EXCEPT ![f].got = got]
           ELSE UNCHANGED call /\ wire' = [taken EXCEPT ![f].server = "closed"] /\ peer' = [peer EXCEPT ![f] = NewPeer]

\* handleEvent() of a connection.
HandleEvent(f) ==
    /\ server_up /\ wire[f].server = "open"
    /\ IF peer[f].left = <<>> THEN ReadRequest(f)
       ELSE /\ Len(wire[f].down) < Room \/ ~wire[f].client
            /\ WriteResponse(f, wire, peer[f].left) /\ UNCHANGED call
    /\ UNCHANGED <<thread, clients_, client, call_mutex, rpc_shutting_down_, server_up, rpc_faults>>

\* The process ends; what a connection had not read resets it.
InProgress(k) == call[k].result = "none"
ServerEnds ==
    /\ server_up /\ server_up' = FALSE
    /\ rpc_faults < rpc_bound.faults /\ rpc_faults' = rpc_faults + 1
    /\ wire' = [f \in Conn |->
          IF wire[f].server \notin {"queued", "open"} THEN wire[f]
          ELSE IF wire[f].server = "queued" \/ wire[f].up # <<>>
          THEN [wire[f] EXCEPT !.server = "closed", !.reset = TRUE, !.up = <<>>, !.down = <<>>]
          ELSE [wire[f] EXCEPT !.server = "closed"]]
    /\ peer' = [f \in Conn |-> NewPeer]
    /\ call' = [k \in DOMAIN call |-> [call[k] EXCEPT !.disturbed = IF InProgress(k) THEN @ + 1 ELSE @]]
    /\ UNCHANGED <<thread, clients_, client, call_mutex, rpc_shutting_down_>>

ServerStarts ==
    /\ ~server_up /\ server_up' = TRUE
    /\ UNCHANGED <<thread, call, clients_, client, call_mutex, rpc_shutting_down_, wire, peer, rpc_faults>>

RpcNext ==
    /\ UNCHANGED rpc_bound
    /\ \/ \E t \in Caller : \/ \E wait \in BOOLEAN : GetXMLRPCClient(t, wait)
                            \/ ThreadStep(t) \/ Interrupt(t)
       \/ ManagerShutdown \/ DeleteClient
       \/ \E f \in Conn : AcceptConnection(f) \/ HandleEvent(f)
       \/ ServerEnds \/ ServerStarts

\* Threads and the server go on, and a server that has ended is started again.
RpcFairness ==
    /\ \A t \in Caller : WF_rpcVars(ThreadStep(t) /\ UNCHANGED rpc_bound)
    /\ \A f \in Conn : /\ WF_rpcVars(AcceptConnection(f) /\ UNCHANGED rpc_bound)
                       /\ WF_rpcVars(HandleEvent(f) /\ UNCHANGED rpc_bound)
    /\ WF_rpcVars(ServerStarts /\ UNCHANGED rpc_bound)

RpcSpec == RpcInit /\ [][RpcNext]_rpcVars /\ RpcFairness

-----------------------------------------------------------------------------
RpcTypeOK ==
    /\ thread \in [Caller -> [at : {"idle", "call", "work", "worked", "executed", "sleep", "freed"},
                              call : Nat, client : Client \cup {None}]]
    /\ ToSet(clients_) \subseteq Client /\ call_mutex \in Caller \cup {None}
    /\ \A i \in Client : /\ client[i].state \in {"NO_CONNECTION", "WRITE_REQUEST", "READ", "IDLE"}
                         /\ client[i].fd \in Conn \cup {None}
    /\ \A f \in Conn : Len(wire[f].up) <= Room /\ Len(wire[f].down) <= Room

\* A client is used by one thread at a time, on a connection of its own.
ClientsApart ==
    /\ \A i \in ToSet(clients_) : InUse(i) <=> Cardinality({t \in Caller : thread[t].client = i /\ ~ThreadAt(t, "freed")}) = 1
    /\ \A i, j \in Client : i # j /\ client[i].fd = client[j].fd => client[i].fd = None

\* A call that returns true has got the response to its own request, on whatever kept or
\* renewed connection and after whatever was interrupted on it before.  The request was
\* executed, and more than once only if the server ended or a signal came meanwhile; and a
\* call that waits for the master fails only when the node shuts down.  (When the shutdown
\* comes while it sleeps, it returns true without an answer.  No retry timeout is set, and the
\* server answers with success.)
AnsweredOnce ==
    /\ RpcTypeOK
    /\ ClientsApart
    /\ \A k \in DOMAIN call :
          /\ call[k].answer \in {None, k}
          /\ call[k].answer = k => call[k].executed >= 1
          /\ call[k].executed <= 1 + call[k].disturbed
          /\ call[k].result = "true" => call[k].answer = k \/ rpc_shutting_down_
          /\ call[k].result = "false" => ~call[k].wait \/ rpc_shutting_down_

\* Every call returns once the server stays up: no event it waits for has been lost, on
\* either end, and nobody keeps the mutex.  But for threads whose client was deleted.
ExecuteReturns == <>[](\A t \in Caller : ThreadAt(t, "idle") \/ \E u \in Caller : ThreadAt(u, "freed"))
=============================================================================
