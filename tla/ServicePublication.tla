------------------------ MODULE ServicePublication ------------------------
(* The server's end: the ServicePublications of one service, the part of        *)
(* ServiceManager that advertises them and of ConnectionManager that accepts    *)
(* connections, and ServiceClientLink.  The user advertises and unadvertises,   *)
(* a poll thread reads the connections, and a spinner calls the service.        *)
EXTENDS ServiceWire

Pub == UNION {1 .. r.pubs : r \in Regime}   \* ServicePublications, in the order they are made

VARIABLES
    advertised,      \* the publication in service_publications_
    registered,      \* the master knows the service
    pub,             \* the ServicePublications
    pubs,            \* how many have been made
    peer,            \* the ServiceClientLinks and their Connections
    callbacks,       \* in the callback queue
    serving,         \* the callback the spinner is in
    server_poll,     \* where the poll thread is
    user,            \* where the user is in advertise and unadvertise
    unadvertised,    \* history: publications unadvertiseService() has returned for
    late,            \* history: links entered in a publication that had been dropped
    broken           \* history: links with a request for a publication that was gone

history == <<unadvertised, late, broken>>
server == <<advertised, registered, pub, pubs, peer, callbacks, serving, server_poll, user, history>>

NoPeer == [parent |-> None, reading |-> "header"]
Nobody == [pub |-> None, link |-> None, call |-> None]
Nowhere == [at |-> "idle", pub |-> None, link |-> None, call |-> None]

ServerInit ==
    /\ advertised = None /\ registered = FALSE
    /\ pub = [p \in Pub |-> [dropped_ |-> FALSE, client_links_ |-> {}, destroyed |-> FALSE]]
    /\ pubs = 0
    /\ peer = [l \in Link |-> NoPeer]
    /\ callbacks = <<>> /\ serving = Nobody
    /\ server_poll = Nowhere
    /\ user = [at |-> "idle", pub |-> None]
    /\ unadvertised = {} /\ late = {} /\ broken = {}

\* Connection::drop(): the link leaves the list of its publication.
WithoutLink(l) == [p \in Pub |-> [pub[p] EXCEPT !.client_links_ = @ \ {l}]]
Dropped(l) == l \in server_closed

-----------------------------------------------------------------------------
(* ServiceManager::advertiseService() and unadvertiseService().                 *)

Advertise ==
    /\ user.at = "idle" /\ advertised = None /\ pubs < regime.pubs
    /\ pubs' = pubs + 1 /\ advertised' = pubs'
    /\ user' = [at |-> "register", pub |-> pubs']
    /\ UNCHANGED <<wire, registered, pub, peer, callbacks, serving, server_poll, history>>

Register ==
    /\ user.at = "register"
    /\ registered' = TRUE
    /\ user' = [at |-> "idle", pub |-> None]
    /\ UNCHANGED <<wire, advertised, pub, pubs, peer, callbacks, serving, server_poll, history>>

Unadvertise ==
    /\ "unadvertise" \in regime.ends
    /\ user.at = "idle" /\ advertised # None
    /\ user' = [at |-> "unregister", pub |-> advertised]
    /\ advertised' = None
    /\ UNCHANGED <<wire, registered, pub, pubs, peer, callbacks, serving, server_poll, history>>

Unregister ==
    /\ user.at = "unregister"
    /\ registered' = FALSE
    /\ user' = [user EXCEPT !.at = "drop"]
    /\ UNCHANGED <<wire, advertised, pub, pubs, peer, callbacks, serving, server_poll, history>>

\* ServicePublication::drop() sets dropped_, ...
DropPublication ==
    /\ user.at = "drop"
    /\ pub' = [pub EXCEPT ![user.pub].dropped_ = TRUE]
    /\ user' = [user EXCEPT !.at = "drop links"]
    /\ UNCHANGED <<wire, advertised, registered, pubs, peer, callbacks, serving, server_poll, history>>

\* ... drops the connections ...
DropAllConnections(p) ==
    /\ server_closed' = server_closed \cup pub[p].client_links_
    /\ pub' = [pub EXCEPT ![p].client_links_ = {}]

\* ... and takes the callbacks out of the queue; one that is being called is waited for.
RemoveByID(p) ==
    /\ serving.pub # p
    /\ callbacks' = Filter(callbacks, {c \in ToSet(callbacks) : c.pub # p})

DropLinks ==
    /\ user.at = "drop links"
    /\ DropAllConnections(user.pub)
    /\ user' = [user EXCEPT !.at = "remove"]
    /\ UNCHANGED <<regime, cut, up, down, client_closed, advertised, registered, pubs, peer, callbacks, serving, server_poll, history>>

RemoveCallbacks ==
    /\ user.at = "remove"
    /\ RemoveByID(user.pub)
    /\ user' = [user EXCEPT !.at = "release"]
    /\ UNCHANGED <<wire, advertised, registered, pub, pubs, peer, serving, server_poll, history>>

\* Who lets go of the last reference to a publication destroys it: drop() again.
LetGo(p, held) ==
    \/ held /\ UNCHANGED <<pub, callbacks, server_closed>>
    \/ /\ ~held
       /\ server_closed' = server_closed \cup pub[p].client_links_
       /\ pub' = [pub EXCEPT ![p] = [dropped_ |-> TRUE, client_links_ |-> {}, destroyed |-> TRUE]]
       /\ RemoveByID(p)

Unadvertised ==
    /\ user.at = "release"
    /\ LetGo(user.pub, server_poll.pub = user.pub)
    /\ unadvertised' = unadvertised \cup {user.pub}
    /\ user' = [at |-> "idle", pub |-> None]
    /\ UNCHANGED <<regime, cut, up, down, client_closed, advertised, registered, pubs, peer, serving, server_poll, late, broken>>

-----------------------------------------------------------------------------
(* ConnectionManager accepts a connection; ServiceClientLink::handleHeader().   *)

PollIdle == server_poll.at = "idle"

\* The error header is written, upon which the connection is dropped.
Refuse(l) ==
    /\ down' = [down EXCEPT ![l] = Append(@, <<"error", None>>)]
    /\ server_closed' = server_closed \cup {l}

\* The service is looked up.
Header(l) ==
    /\ PollIdle /\ ~Dropped(l) /\ peer[l].reading = "header" /\ up[l] # <<>>
    /\ up' = [up EXCEPT ![l] = Tail(@)]
    /\ peer' = [peer EXCEPT ![l].reading = "none"]
    /\ IF advertised = None
       THEN Refuse(l) /\ UNCHANGED server_poll
       ELSE /\ server_poll' = [at |-> "check", pub |-> advertised, link |-> l, call |-> None]
            /\ UNCHANGED <<down, server_closed>>
    /\ UNCHANGED <<regime, cut, client_closed, advertised, registered, pub, pubs, callbacks, serving, user, history>>

\* It may have been unadvertised meanwhile.
CheckDropped ==
    LET l == server_poll.link IN
    /\ server_poll.at = "check"
    /\ IF pub[server_poll.pub].dropped_
       THEN /\ Refuse(l)
            /\ server_poll' = [server_poll EXCEPT !.at = "release"]
       ELSE /\ server_poll' = [server_poll EXCEPT !.at = "add"]
            /\ UNCHANGED <<down, server_closed>>
    /\ UNCHANGED <<regime, cut, up, client_closed, advertised, registered, pub, pubs, peer, callbacks, serving, user, history>>

\* Mutant: the link is not entered in the list of the publication.
ForgetServiceClientLink(l, p) == UNCHANGED pub

AddServiceClientLink(l, p) == pub' = [pub EXCEPT ![p].client_links_ = @ \cup {l}]

\* The header is answered, and the link entered even if drop() has been called since.
Accept ==
    LET l == server_poll.link
        p == server_poll.pub IN
    /\ server_poll.at = "add"
    /\ AddServiceClientLink(l, p)
    /\ down' = [down EXCEPT ![l] = Append(@, <<"header", None>>)]
    /\ peer' = [peer EXCEPT ![l] = [parent |-> p, reading |-> "request"]]
    /\ late' = IF pub[p].dropped_ THEN late \cup {l} ELSE late
    /\ server_poll' = [server_poll EXCEPT !.at = "release"]
    /\ UNCHANGED <<regime, cut, up, client_closed, server_closed, advertised, registered, pubs, callbacks, serving, user,
                   unadvertised, broken>>

\* The poll thread lets go of the publication it has looked up.
Released ==
    LET p == server_poll.pub IN
    /\ server_poll.at = "release"
    /\ LetGo(p, p \in {advertised, user.pub})
    /\ server_poll' = Nowhere
    /\ UNCHANGED <<regime, cut, up, down, client_closed, advertised, registered, pubs, peer, serving, user, history>>

-----------------------------------------------------------------------------
(* Requests.  readTransport() looks whether the connection has been dropped     *)
(* before it calls onRequest(), not after.                                      *)

Request(l) ==
    /\ PollIdle /\ ~Dropped(l) /\ peer[l].reading = "request" /\ up[l] # <<>>
    /\ up' = [up EXCEPT ![l] = Tail(@)]
    /\ peer' = [peer EXCEPT ![l].reading = "none"]
    /\ server_poll' = [at |-> "request", pub |-> None, link |-> l, call |-> Head(up[l])[2]]
    /\ UNCHANGED <<regime, cut, down, client_closed, server_closed, advertised, registered, pub, pubs, callbacks, serving, user,
                   history>>

\* onRequest() breaks the program when the publication is gone.
LockParent ==
    LET l == server_poll.link IN
    /\ server_poll.at = "request"
    /\ IF pub[peer[l].parent].destroyed
       THEN /\ broken' = broken \cup {l}
            /\ server_poll' = Nowhere
       ELSE /\ server_poll' = [server_poll EXCEPT !.at = "process", !.pub = peer[l].parent]
            /\ UNCHANGED broken
    /\ UNCHANGED <<wire, advertised, registered, pub, pubs, peer, callbacks, serving, user, unadvertised, late>>

ProcessRequest ==
    /\ server_poll.at = "process"
    /\ callbacks' = Append(callbacks, [pub |-> server_poll.pub, link |-> server_poll.link, call |-> server_poll.call])
    /\ server_poll' = [server_poll EXCEPT !.at = "release"]
    /\ UNCHANGED <<wire, advertised, registered, pub, pubs, peer, serving, user, history>>

\* The poll thread sees that the client has closed the connection, or that it broke.
ClientGone(l) ==
    /\ PollIdle /\ ~Dropped(l) /\ Ends(l, client_closed, up, peer[l].reading)
    /\ server_closed' = server_closed \cup {l}
    /\ pub' = WithoutLink(l)
    /\ UNCHANGED <<regime, cut, up, down, client_closed, advertised, registered, pubs, peer, callbacks, serving, server_poll, user,
                   history>>

-----------------------------------------------------------------------------
(* ServiceCallback::call(): a request of a dropped connection is not served.    *)

\* Mutant: whether the connection has been dropped is not looked at.
ServeAnyway(c) == TRUE

Servable(c) == ~Dropped(c.link)

Serve ==
    /\ serving = Nobody /\ callbacks # <<>>
    /\ serving' = IF Servable(Head(callbacks)) THEN Head(callbacks) ELSE Nobody
    /\ callbacks' = Tail(callbacks)
    /\ UNCHANGED <<wire, advertised, registered, pub, pubs, peer, server_poll, user, history>>

\* The service has succeeded, or it has returned false, thrown, or its object is
\* gone; the response is written, and the next request asked for.
Served(ok) ==
    LET l == serving.link
        k == serving.call IN
    /\ serving # Nobody
    /\ serving' = Nobody
    /\ IF Dropped(l)
       THEN UNCHANGED <<down, server_closed, pub, peer>>
       ELSE /\ down' = [down EXCEPT ![l] = @ \o <<<<IF ok THEN "ok" ELSE "failed", k>>, <<"body", k>>>>]
            /\ IF regime.persistent
               THEN /\ peer' = [peer EXCEPT ![l].reading = "request"]
                    /\ UNCHANGED <<server_closed, pub>>
               ELSE /\ server_closed' = server_closed \cup {l}
                    /\ pub' = WithoutLink(l)
                    /\ UNCHANGED peer
    /\ UNCHANGED <<regime, cut, up, client_closed, advertised, registered, pubs, callbacks, server_poll, user, history>>

-----------------------------------------------------------------------------
UserSteps == Register \/ Unregister \/ DropPublication \/ DropLinks \/ RemoveCallbacks \/ Unadvertised
ServerPollThread ==
    \/ \E l \in Link : Header(l) \/ Request(l) \/ ClientGone(l)
    \/ CheckDropped \/ Accept \/ Released \/ LockParent \/ ProcessRequest
Spinner == Serve \/ \E ok \in BOOLEAN : Served(ok)

ServerOK ==
    /\ advertised \in Pub \cup {None} /\ registered \in BOOLEAN /\ pubs \in 0 .. regime.pubs
    /\ pub \in [Pub -> [dropped_ : BOOLEAN, client_links_ : SUBSET Link, destroyed : BOOLEAN]]
    /\ peer \in [Link -> [parent : Pub \cup {None}, reading : {"none", "header", "request"}]]
    /\ serving.pub \in Pub \cup {None} /\ serving.link \in Link \cup {None}
    /\ server_poll \in [at : {"idle", "check", "add", "release", "request", "process"}, pub : Pub \cup {None},
                        link : Link \cup {None}, call : Call \cup {None}]
    /\ user.pub \in Pub \cup {None}
    /\ unadvertised \subseteq Pub /\ late \subseteq Link /\ broken \subseteq Link
=============================================================================
