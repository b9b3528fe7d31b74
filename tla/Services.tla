------------------------------ MODULE Services ------------------------------
(* A service: the calls of a client, the connections, and the server.           *)
EXTENDS ServiceServerLink, ServicePublication

vars == <<client, server, wire>>

Init == WireInit /\ ClientInit /\ ServerInit

\* A connection breaks: either end may find that out at any time.
Break(l) ==
    /\ Cardinality(cut) < regime.breaks
    /\ l <= links /\ l \notin cut \cup (client_closed \cap server_closed)
    /\ cut' = cut \cup {l}
    /\ UNCHANGED <<regime, up, down, client_closed, server_closed, client, server>>

Client ==
    \/ \E k \in Call : Find(k, registered) \/ Caller(k)
    \/ PollThread \/ UserThread \/ Shutdown \/ Stop
Server == Advertise \/ Unadvertise \/ UserSteps \/ ServerPollThread \/ Spinner

Next ==
    \/ Client /\ UNCHANGED server
    \/ Server /\ UNCHANGED client
    \/ \E l \in Link : Break(l)

\* Threads run on; nobody has to call, to advertise or to unadvertise.
Fairness ==
    /\ \A k \in Call : WF_vars(Caller(k) /\ UNCHANGED server)
    /\ WF_vars(PollThread /\ UNCHANGED server) /\ WF_vars(UserThread /\ UNCHANGED server)
    /\ WF_vars(UserSteps /\ UNCHANGED client) /\ WF_vars(ServerPollThread /\ UNCHANGED client)
    /\ WF_vars(Spinner /\ UNCHANGED client)

Spec == Init /\ [][Next]_vars /\ Fairness

-----------------------------------------------------------------------------
TypeOK == WireOK /\ ClientOK /\ ServerOK

\* A call that succeeds returns the response to its own request, whatever was
\* queued, cancelled or dropped, and no response is written to the memory of a
\* call that has returned, but for a drop that overtakes a call.
AnswersOwnRequest ==
    \A k \in Call : /\ calls[k].result \in {None, k}
                    /\ calls[k].late => link[thread[k].link].raced

Cleared(k) == thread[k].at \in {"take", "write", "read", "wait"} /\ link[thread[k].link].cleared

\* When a link has heard that its connection was dropped, all calls on it have
\* been notified.
ClearedCallsFail == \A k \in Call : Cleared(k) => calls[k].finished

\* No service callback starts once unadvertiseService() has returned, but for
\* requests on a connection that was entered while the publication was dropped.
NoCallAfterUnadvertise ==
    [][serving' # serving /\ serving' # Nobody
          => serving'.pub \notin unadvertised \/ serving'.link \in late]_vars

\* A connection that was accepted for a publication does not outlive it, and a
\* request that finds the publication gone comes from a dropped connection.
NoOrphans ==
    /\ TypeOK
    /\ \A l \in Link : /\ peer[l].parent # None /\ pub[peer[l].parent].destroyed => Dropped(l)
                       /\ peer[l].parent \in unadvertised => Dropped(l) \/ l \in late
    /\ \A l \in broken : Dropped(l)

\* Every call returns: it is answered, or fails when its connection is dropped,
\* but for calls on a connection whose drop has overtaken one.
CallsReturn ==
    <>[]\A k \in Call : \/ thread[k].at \in {"idle", "returned"}
                        \/ link[thread[k].link].raced
=============================================================================
