------------------------- MODULE ServiceServerLink -------------------------
(* The client's end: ServiceClient, the part of ServiceManager that makes and   *)
(* keeps its links, ServiceServerLink and the Connection under it.  Calls come  *)
(* from threads of their own, a poll thread reads the connections, and the      *)
(* user may shut down the handle or the node.  A mutex that is held for several *)
(* steps is a field; what a thread does under one lock is one step.             *)
EXTENDS ServiceWire

VARIABLES
    thread,         \* where each thread is, on which link and with which call
    calls,          \* the CallInfo of each call, and what call() returned
    link,           \* the ServiceServerLinks and their Connections
    server_link_,   \* of a persistent ServiceClient
    links,          \* the number of links made
    service_server_links_,
    shutting_down_,
    ended           \* what the user has done

client == <<thread, calls, link, server_link_, links, service_server_links_, shutting_down_, ended>>

Poll == -1
User == -2
Thread == Call \cup {Poll, User}

NewCall == [finished |-> FALSE, call_finished |-> FALSE, success |-> FALSE, resp |-> None, late |-> FALSE, result |-> None]
NewLink == [dropped |-> FALSE, listening |-> FALSE, header_read |-> FALSE, reading |-> "none", reader |-> None,
            queue |-> <<>>, current |-> None, mutex |-> None, cleared |-> FALSE, raced |-> FALSE]
Idle == [at |-> "idle", link |-> None, call |-> None]

ClientInit ==
    /\ thread = [t \in Thread |-> Idle]
    /\ calls = [k \in Call |-> NewCall]
    /\ link = [l \in Link |-> NewLink]
    /\ server_link_ = None /\ links = 0 /\ service_server_links_ = {}
    /\ shutting_down_ = FALSE /\ ended = {}

\* thread t is now at "where", with its link and call as they are.
At(t, where) == thread' = [thread EXCEPT ![t].at = where]
On(t) == thread[t].link
Unlocked(l) == link[l].mutex = None

\* A thread has nothing more to do for a call; a caller may be reading, or waits.
Rest(t) ==
    thread' = [thread EXCEPT ![t] =
                  IF t \in {Poll, User} THEN Idle
                  ELSE [at |-> IF link[On(t)].reader = t THEN "read" ELSE "wait", link |-> On(t), call |-> None]]

\* The poll thread leaves readTransport(); a caller stays in it until nothing is left.
Leave(t, record) == IF record.reader = t /\ t = Poll THEN [record EXCEPT !.reader = None] ELSE record

-----------------------------------------------------------------------------
(* ServiceClient::call() and ServiceServerLink::call().                         *)

Returns(k, result) ==
    /\ thread' = [thread EXCEPT ![k].at = "returned"]
    /\ calls' = [calls EXCEPT ![k].call_finished = TRUE, ![k].result = result]

\* A persistent handle has its link; else one is made, if the master knows the service.
Find(k, known) ==
    /\ thread[k].at = "idle" /\ k <= regime.calls
    /\ \/ /\ regime.persistent /\ server_link_ # None
          /\ thread' = [thread EXCEPT ![k].at = "push", ![k].link = server_link_]
          /\ UNCHANGED <<calls, links, service_server_links_>>
       \/ /\ ~regime.persistent \/ server_link_ = None
          /\ ~shutting_down_ /\ known /\ links < regime.links
          /\ links' = links + 1
          /\ service_server_links_' = service_server_links_ \cup {links'}
          /\ thread' = [thread EXCEPT ![k].at = "initialize", ![k].link = links']
          /\ UNCHANGED calls
       \/ /\ ~regime.persistent \/ server_link_ = None
          /\ shutting_down_ \/ ~known
          /\ Returns(k, None)
          /\ UNCHANGED <<links, service_server_links_>>
    /\ UNCHANGED <<wire, link, server_link_, shutting_down_, ended>>

\* initialize(): a connection that has been dropped already tells nobody and writes nothing.
Initialize(k) ==
    LET l == On(k) IN
    /\ thread[k].at = "initialize"
    /\ IF link[l].dropped
       THEN /\ link' = [link EXCEPT ![l].listening = TRUE]
            /\ UNCHANGED up
       ELSE /\ link' = [link EXCEPT ![l].listening = TRUE, ![l].reading = "header"]
            /\ up' = [up EXCEPT ![l] = Append(@, <<"header", None>>)]
    /\ server_link_' = IF regime.persistent THEN l ELSE server_link_
    /\ At(k, "push")
    /\ UNCHANGED <<regime, down, client_closed, server_closed, cut, calls, links, service_server_links_, shutting_down_, ended>>

\* Mutant: whether the connection has been dropped is not looked at.
PushUnchecked(k) ==
    LET l == On(k) IN
    /\ thread[k].at = "push" /\ Unlocked(l)
    /\ link' = [link EXCEPT ![l].queue = Append(@, k)]
    /\ At(k, IF link[l].queue = <<>> /\ link[l].header_read THEN "take" ELSE "wait")
    /\ UNCHANGED <<wire, calls, server_link_, links, service_server_links_, shutting_down_, ended>>

\* The call is queued; its thread processes it when nobody else will.
Push(k) ==
    LET l == On(k) IN
    /\ thread[k].at = "push" /\ Unlocked(l)
    /\ IF link[l].dropped
       THEN Returns(k, None) /\ UNCHANGED link
       ELSE /\ link' = [link EXCEPT ![l].queue = Append(@, k)]
            /\ At(k, IF link[l].queue = <<>> /\ link[l].header_read THEN "take" ELSE "wait")
            /\ UNCHANGED calls
    /\ UNCHANGED <<wire, server_link_, links, service_server_links_, shutting_down_, ended>>

\* The caller wakes up.  A response that did not come cannot be deserialized.
Return(k) ==
    /\ thread[k].at = "wait" /\ calls[k].finished
    /\ Returns(k, IF calls[k].success THEN calls[k].resp ELSE None)
    /\ UNCHANGED <<wire, link, server_link_, links, service_server_links_, shutting_down_, ended>>

-----------------------------------------------------------------------------
(* processNextCall(), by the caller or at the end of the call before.           *)

Take(t) ==
    LET l == On(t)
        idle == link[l].current = None IN
    /\ thread[t].at = "take" /\ Unlocked(l)
    /\ \/ /\ idle /\ link[l].queue # <<>>
          /\ link' = [link EXCEPT ![l].current = Head(link[l].queue), ![l].queue = Tail(@)]
          /\ At(t, "write")
       \/ /\ idle /\ link[l].queue = <<>> /\ ~regime.persistent
          /\ At(t, "drop")
          /\ UNCHANGED link
       \/ /\ ~idle \/ (link[l].queue = <<>> /\ regime.persistent)
          /\ link' = [link EXCEPT ![l] = Leave(t, @)]
          /\ Rest(t)
    /\ UNCHANGED <<wire, calls, server_link_, links, service_server_links_, shutting_down_, ended>>

\* Mutant: the request is taken from the queue after the lock was left.
FrontOfQueue(l) == IF link[l].queue # <<>> THEN Head(link[l].queue) ELSE link[l].current

RequestOf(l) == link[l].current

\* The request is written, which asks for the response, and header_read_ is set
\* when that was for the header.  A caller may find the response there at once.
Write(t) ==
    LET l == On(t)
        read == [link[l] EXCEPT !.header_read = TRUE] IN
    /\ thread[t].at = "write" /\ Unlocked(l)
    /\ IF link[l].dropped
       THEN /\ link' = [link EXCEPT ![l] = Leave(t, read)]
            /\ Rest(t)
            /\ UNCHANGED up
       ELSE /\ up' = [up EXCEPT ![l] = Append(@, <<"request", RequestOf(l)>>)]
            /\ \/ /\ link' = [link EXCEPT ![l] = Leave(t, [read EXCEPT !.reading = "response"])]
                  /\ Rest(t)
               \/ /\ t \in Call /\ link[l].reader = None
                  /\ link' = [link EXCEPT ![l] = [read EXCEPT !.reading = "response", !.reader = t]]
                  /\ At(t, "read")
    /\ UNCHANGED <<regime, down, client_closed, server_closed, cut, calls, server_link_, links, service_server_links_,
                   shutting_down_, ended>>

-----------------------------------------------------------------------------
(* readTransport() and the callbacks it calls.  It looks whether the connection *)
(* has been dropped before it calls one, not after.                             *)

Readable(l) == ~link[l].dropped /\ link[l].reading # "none" /\ down[l] # <<>>

Read(t, l) ==
    LET message == Head(down[l]) IN
    /\ Readable(l)
    /\ \/ t = Poll /\ thread[t].at = "idle" /\ link[l].reader = None
       \/ t \in Call /\ thread[t].at = "read" /\ On(t) = l
    /\ down' = [down EXCEPT ![l] = Tail(@)]
    /\ link' = [link EXCEPT ![l].reading = "none", ![l].reader = t]
    /\ thread' = [thread EXCEPT ![t] = [at |-> message[1], link |-> l, call |-> message[2]]]
    /\ UNCHANGED <<regime, up, client_closed, server_closed, cut, calls, server_link_, links, service_server_links_,
                   shutting_down_, ended>>

StopReading(k) ==
    /\ thread[k].at = "read" /\ ~Readable(On(k))
    /\ link' = [link EXCEPT ![On(k)].reader = None]
    /\ At(k, "wait")
    /\ UNCHANGED <<wire, calls, server_link_, links, service_server_links_, shutting_down_, ended>>

\* onHeaderReceived(): when calls wait, the first is written before header_read_ is set.
HeaderReceived(t) ==
    LET l == On(t) IN
    /\ thread[t].at = "header" /\ Unlocked(l)
    /\ IF link[l].queue = <<>>
       THEN /\ link' = [link EXCEPT ![l] = Leave(t, [@ EXCEPT !.header_read = TRUE])]
            /\ Rest(t)
       ELSE /\ At(t, "take")
            /\ UNCHANGED link
    /\ UNCHANGED <<wire, calls, server_link_, links, service_server_links_, shutting_down_, ended>>

\* The server refuses in its header.
HeaderError(t) ==
    /\ thread[t].at = "error"
    /\ At(t, "drop")
    /\ UNCHANGED <<wire, calls, link, server_link_, links, service_server_links_, shutting_down_, ended>>

\* onResponseOkAndLength()
ResponseOk(t) ==
    LET l == On(t) IN
    /\ thread[t].at \in {"ok", "failed"} /\ Unlocked(l)
    /\ calls' = [calls EXCEPT ![link[l].current].success = thread[t].at = "ok"]
    /\ link' = [link EXCEPT ![l] = Leave(t, IF link[l].dropped THEN @ ELSE [@ EXCEPT !.reading = "response"])]
    /\ Rest(t)
    /\ UNCHANGED <<wire, server_link_, links, service_server_links_, shutting_down_, ended>>

\* onResponse(): the response, or an error string, is put where the caller wants it,
\* late when call() has returned.
Response(t) ==
    LET k == link[On(t)].current IN
    /\ thread[t].at = "body" /\ Unlocked(On(t))
    /\ calls' = [calls EXCEPT ![k].resp = IF calls[k].success /\ ~calls[k].call_finished THEN thread[t].call ELSE @,
                              ![k].late = calls[k].success /\ calls[k].call_finished]
    /\ At(t, "finish")
    /\ UNCHANGED <<wire, link, server_link_, links, service_server_links_, shutting_down_, ended>>

\* callFinished()
CallFinished(t) ==
    LET l == On(t) IN
    /\ thread[t].at = "finish" /\ Unlocked(l)
    /\ calls' = [calls EXCEPT ![link[l].current].finished = TRUE]
    /\ link' = [link EXCEPT ![l].current = None]
    /\ At(t, "take")
    /\ UNCHANGED <<wire, server_link_, links, service_server_links_, shutting_down_, ended>>

-----------------------------------------------------------------------------
(* Connection::drop(), and clearCalls() when the link hears of it.              *)

\* A thread is between two sections of a call on the link.
Underway(l, t) ==
    \E u \in Thread \ {t} : On(u) = l /\ thread[u].at \in 
        {"take", "write", "header", "ok", "failed", "body", "finish"}

Drop(t) ==
    LET l == On(t) IN
    /\ thread[t].at = "drop"
    /\ IF link[l].dropped
       THEN /\ link' = [link EXCEPT ![l] = Leave(t, @)]
            /\ Rest(t)
            /\ UNCHANGED client_closed
       ELSE IF link[l].listening
       THEN /\ link' = [link EXCEPT ![l].dropped = TRUE, ![l].raced = Underway(l, t)]
            /\ At(t, "clear")
            /\ UNCHANGED client_closed
       ELSE /\ link' = [link EXCEPT ![l] = Leave(t, [@ EXCEPT !.dropped = TRUE])]
            /\ client_closed' = client_closed \cup {l}
            /\ Rest(t)
    /\ UNCHANGED <<regime, up, down, server_closed, cut, calls, server_link_, links, service_server_links_, shutting_down_, ended>>

\* The current call is looked at under the lock, and cancelled without it.
ClearCurrent(t) ==
    LET k == link[On(t)].current IN
    /\ thread[t].at = "clear" /\ Unlocked(On(t))
    /\ IF k = None
       THEN At(t, "sweep")
       ELSE thread' = [thread EXCEPT ![t].at = "cancel", ![t].call = k]
    /\ UNCHANGED <<wire, calls, link, server_link_, links, service_server_links_, shutting_down_, ended>>

\* cancelCall() wakes the caller ...
Cancel(t) ==
    /\ thread[t].at = "cancel"
    /\ calls' = [calls EXCEPT ![thread[t].call].finished = TRUE]
    /\ At(t, "yield")
    /\ UNCHANGED <<wire, link, server_link_, links, service_server_links_, shutting_down_, ended>>

\* ... and spins until it has left call(), unless it is the caller itself.
Cancelled(t) ==
    LET k == thread[t].call IN
    /\ thread[t].at = "yield"
    /\ calls[k].call_finished \/ k = t
    /\ IF link[On(t)].mutex = t
       THEN link' = [link EXCEPT ![On(t)].queue = Tail(@)]
       ELSE UNCHANGED link
    /\ At(t, "sweep")
    /\ UNCHANGED <<wire, calls, server_link_, links, service_server_links_, shutting_down_, ended>>

\* The queue is emptied under call_queue_mutex_, which is held while callers are waited for.
Sweep(t) ==
    LET l == On(t) IN
    /\ thread[t].at = "sweep" /\ link[l].mutex \in {None, t}
    /\ IF link[l].queue = <<>>
       THEN /\ link' = [link EXCEPT ![l].mutex = None]
            /\ At(t, "remove")
       ELSE /\ link' = [link EXCEPT ![l].mutex = t]
            /\ thread' = [thread EXCEPT ![t].at = "cancel", ![t].call = Head(link[l].queue)]
    /\ UNCHANGED <<wire, calls, server_link_, links, service_server_links_, shutting_down_, ended>>

\* removeServiceServerLink(), and the transport is closed.
RemoveServiceServerLink(t) ==
    LET l == On(t) IN
    /\ thread[t].at = "remove"
    /\ service_server_links_' = IF shutting_down_ THEN service_server_links_ ELSE service_server_links_ \ {l}
    /\ client_closed' = client_closed \cup {l}
    /\ link' = [link EXCEPT ![l] = Leave(t, [@ EXCEPT !.cleared = TRUE])]
    /\ Rest(t)
    /\ UNCHANGED <<regime, up, down, server_closed, cut, calls, server_link_, links, shutting_down_, ended>>

-----------------------------------------------------------------------------
(* What drops a connection besides an error: the poll thread that sees it       *)
(* closed or broken, and the user.                                              *)

Disconnect(l) ==
    /\ Ends(l, server_closed, down, link[l].reading) /\ ~link[l].dropped
    /\ thread[Poll].at = "idle"
    /\ thread' = [thread EXCEPT ![Poll] = [at |-> "drop", link |-> l, call |-> None]]
    /\ UNCHANGED <<wire, calls, link, server_link_, links, service_server_links_, shutting_down_, ended>>

\* ServiceClient::shutdown(), which does nothing to a handle that is not persistent.
Shutdown ==
    /\ "shutdown" \in regime.ends \ ended /\ thread[User].at = "idle"
    /\ ended' = ended \cup {"shutdown"}
    /\ server_link_ # None /\ server_link_' = None
    /\ thread' = [thread EXCEPT ![User] = [at |-> "drop", link |-> server_link_, call |-> None]]
    /\ UNCHANGED <<wire, calls, link, links, service_server_links_, shutting_down_>>

\* ServiceManager::shutdown() makes no more links and drops those it has one by one.
Stop ==
    /\ "stop" \in regime.ends \ ended /\ thread[User].at = "idle"
    /\ \A k \in Call : thread[k].at # "initialize"
    /\ ended' = ended \cup {"stop"}
    /\ shutting_down_' = TRUE
    /\ UNCHANGED <<wire, thread, calls, link, server_link_, links, service_server_links_>>

StopLink(l) ==
    /\ shutting_down_ /\ thread[User].at = "idle"
    /\ l \in service_server_links_
    /\ service_server_links_' = service_server_links_ \ {l}
    /\ thread' = [thread EXCEPT ![User] = [at |-> "drop", link |-> l, call |-> None]]
    /\ UNCHANGED <<wire, calls, link, server_link_, links, shutting_down_, ended>>

-----------------------------------------------------------------------------
Clear(t) == ClearCurrent(t) \/ Cancel(t) \/ Cancelled(t) \/ Sweep(t) \/ RemoveServiceServerLink(t)
Received(t) == HeaderReceived(t) \/ HeaderError(t) \/ ResponseOk(t) \/ Response(t) \/ CallFinished(t)

\* What the thread of a call does once it has called.
Caller(k) ==
    \/ Initialize(k) \/ Push(k) \/ Take(k) \/ Write(k) \/ StopReading(k)
    \/ \E l \in Link : Read(k, l)
    \/ Received(k) \/ Drop(k) \/ Clear(k) \/ Return(k)
PollThread ==
    \/ \E l \in Link : Read(Poll, l) \/ Disconnect(l)
    \/ Received(Poll) \/ Take(Poll) \/ Write(Poll) \/ Drop(Poll) \/ Clear(Poll)
UserThread == Drop(User) \/ Clear(User) \/ \E l \in Link : StopLink(l)

\* Where a thread may be.
Place == {"idle", "initialize", "push", "take", "write", "read", "wait", "header", "error", "ok", "failed", "body", "finish",
          "drop", "clear", "cancel", "yield", "sweep", "remove", "returned"}

ClientOK ==
    /\ thread \in [Thread -> [at : Place, link : Link \cup {None}, call : Call \cup {None}]]
    /\ calls \in [Call -> [finished : BOOLEAN, call_finished : BOOLEAN, success : BOOLEAN, late : BOOLEAN,
                           resp : Call \cup {None}, result : Call \cup {None}]]
    /\ \A l \in Link : /\ link[l].reader \in Thread \cup {None} /\ link[l].mutex \in Thread \cup {None}
                       /\ link[l].current \in Call \cup {None} /\ ToSet(link[l].queue) \subseteq Call
    /\ server_link_ \in 0 .. links /\ links \in 0 .. regime.links
    /\ service_server_links_ \subseteq 1 .. links
=============================================================================
