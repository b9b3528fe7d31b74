--------------------------- MODULE PublisherLinks ---------------------------
(* How one Subscription comes by its connections to publishers on other nodes *)
(* and keeps them: the master's list is compared with the links there are, a   *)
(* publisher that is missing is asked for its port, a TCP connection is made   *)
(* and a link put on it, and a link whose connection breaks connects again     *)
(* when its timer fires.  Four threads take part: the user's, the one that     *)
(* serves XML-RPC, the one that polls sockets and the one of the internal      *)
(* callback queue.  Time is left out: a timer that is set may fire.            *)
EXTENDS Naturals, Sequences, FiniteSets

CONSTANTS
    Publisher,    \* the publishers' nodes, by their XML-RPC addresses
    NoPublisher,
    MaxUpdates,   \* bound: lists the master sends after the first
    MaxFaults     \* bound: changes of the network and connections lost

ASSUME PublisherLinksAssumption ==
    /\ IsFiniteSet(Publisher) /\ NoPublisher \notin Publisher
    /\ MaxUpdates \in Nat /\ MaxFaults \in Nat

\* A request for a port, the link that may come of it, and that link's connection.
Attempt == 1 .. (MaxUpdates + 1) * Cardinality(Publisher)
Thread == {"user", "rpc", "queue"}

VARIABLES
    registered,  \* the publishers the master knows of
    updates,     \* publisherUpdate calls on their way to this node
    sent,        \* how many there have been
    network,     \* what a connect() to each publisher meets
    faults,      \* how often the network has misbehaved
    shutting_down_,
    pc,          \* what each thread is doing, and with what
    made,        \* how many attempts have been made
    link,        \* of each attempt
    abandoned    \* history: why a publisher is no longer tried

external == <<registered, updates, sent, network, faults>>
vars == <<external, shutting_down_, pc, made, link, abandoned>>

\* request   of the call requestTopic: "denied" when the publisher has no such
\*           topic, "failed" when the call broke off
\* pending   is it in pending_connections_?
\* listed    is its link in publisher_links_?
\* timer     does the link have a retry timer?
\* transport of the link's newest connection
\* hears     who is told when the transport breaks: nobody (the socket is
\*           polled, but no callback is set), the Connection, or the link
\* header    what the publisher answered to the link's header
LinkState ==
    [uri : Publisher \cup {NoPublisher},
     request : {"none", "added", "sent", "answered", "denied", "failed", "done"},
     pending : BOOLEAN, listed : BOOLEAN, dropping : BOOLEAN, needs_retry : BOOLEAN, timer : BOOLEAN,
     transport : {"none", "connecting", "connected", "closed"},
     hears : {"nobody", "connection", "link"},
     header : {"none", "accepted", "refused", "received"}]

Unused == [uri |-> NoPublisher, request |-> "none", pending |-> FALSE, listed |-> FALSE,
           dropping |-> FALSE, needs_retry |-> FALSE, timer |-> FALSE,
           transport |-> "none", hears |-> "nobody", header |-> "none"]

Step == {"start", "idle", "drop", "negotiate", "enter", "initialize", "wire", "list", "manage", "gone"}
At(step, drops, adds, attempt) == [at |-> step, drops |-> drops, adds |-> adds, attempt |-> attempt]
Idle == At("idle", {}, {}, 0)

Init ==
    /\ registered \in SUBSET Publisher
    /\ updates = <<>>
    /\ sent = 0
    /\ network \in [Publisher -> {"up", "refused"}]
    /\ faults = 0
    /\ shutting_down_ = FALSE
    /\ pc = [t \in Thread |-> IF t = "user" THEN At("start", {}, {}, 0) ELSE Idle]
    /\ made = 0
    /\ link = [a \in Attempt |-> Unused]
    /\ abandoned = [p \in Publisher |-> "no"]

-----------------------------------------------------------------------------
(* The master, the publishers and the network.                                 *)

Subscribed == pc["user"].at # "start" /\ ~shutting_down_

\* A publisher registers or gives up its topic; the master tells every subscriber.
RegistryChanges(p) ==
    /\ sent < MaxUpdates
    /\ registered' = IF p \in registered THEN registered \ {p} ELSE registered \cup {p}
    /\ sent' = sent + 1
    /\ updates' = IF Subscribed THEN Append(updates, registered') ELSE updates
    /\ UNCHANGED <<network, faults, shutting_down_, pc, made, link, abandoned>>

\* "up": it listens; "refused": the attempt is refused later; "unreachable":
\* connect() itself fails, as it does without a route.
NetworkChanges(p) ==
    /\ faults < MaxFaults
    /\ \E n \in {"up", "refused", "unreachable"} \ {network[p]} :
           network' = [network EXCEPT ![p] = n]
    /\ faults' = faults + 1
    /\ UNCHANGED <<registered, updates, sent, shutting_down_, pc, made, link, abandoned>>

Reachable(p) == p \in Publisher /\ network[p] = "up"

-----------------------------------------------------------------------------
(* The link.                                                                   *)

InRetry(a) == pc["queue"].at # "idle" /\ pc["queue"].attempt = a

Building(a) == pc["rpc"].attempt = a /\ pc["rpc"].at \in {"initialize", "wire", "list"}
Held(a) == InRetry(a) \/ Building(a)

\* drop(), and the destructor when nobody holds the link any more.  In
\* onRetryTimer() connection_ is still the old one until the new one is wired.
Dropped(l, held) ==
    [l EXCEPT !.dropping = TRUE, !.listed = FALSE,
              !.timer = @ /\ held,
              !.transport = IF held /\ l.hears # "link" THEN @ ELSE "closed"]

\* Mutant: a second break is not noted while the timer of the first is set.
NotesFirstBreakOnly(l) ==
    IF l.dropping \/ l.timer THEN l ELSE [l EXCEPT !.needs_retry = TRUE, !.timer = TRUE]

\* onConnectionDropped() after a TransportDisconnect
OnConnectionDropped(l) ==
    IF l.dropping THEN l ELSE [l EXCEPT !.needs_retry = TRUE, !.timer = TRUE]

\* TransportTCP::connect(): the socket is in the poll set before anything listens.
Connecting(l) == [l EXCEPT !.transport = "connecting", !.hears = "nobody", !.header = "none"]

\* Has the Connection a socket that works or may come to work?
Open(a) == link[a].transport \in {"connecting", "connected"}

\* The connection is established; the poll thread can write the header.
Connected(a) ==
    /\ link[a].transport = "connecting" /\ Reachable(link[a].uri)
    /\ link' = [link EXCEPT ![a].transport = "connected"]
    /\ UNCHANGED <<external, shutting_down_, pc, made, abandoned>>

\* The poll thread finds that the socket is in error or that the other side has
\* closed it, and closes the transport: TransportTCP::close(),
\* Connection::onDisconnect(), Connection::drop().  Before the link listens to
\* the Connection nobody is told.
Disconnected(a) ==
    LET l == link[a]
        closed == [l EXCEPT !.transport = "closed", !.header = "none"] IN
    /\ Open(a)
    /\ \/ ~Reachable(l.uri) /\ UNCHANGED faults
       \/ l.uri \notin registered /\ l.transport = "connected" /\ UNCHANGED faults
       \/ faults < MaxFaults /\ faults' = faults + 1
    /\ link' = [link EXCEPT ![a] = IF l.hears = "link" THEN OnConnectionDropped(closed) ELSE closed]
    /\ abandoned' = IF l.hears = "link" THEN abandoned ELSE [abandoned EXCEPT ![l.uri] = "unheard"]
    /\ UNCHANGED <<registered, updates, sent, network, shutting_down_, pc, made>>

\* The publisher reads the header and answers (external): a node that has no
\* such topic, or not any more, refuses.
PublisherAnswers(a) ==
    LET l == link[a] IN
    /\ l.transport = "connected" /\ l.hears = "link" /\ l.header = "none"
    /\ Reachable(l.uri)
    /\ link' = [link EXCEPT ![a].header = IF l.uri \in registered THEN "accepted" ELSE "refused"]
    /\ UNCHANGED <<external, shutting_down_, pc, made, abandoned>>

\* onHeaderReceived(): the timer is removed, which waits for onRetryTimer() to end.
OnHeaderReceived(a) ==
    LET l == link[a] IN
    /\ l.transport = "connected" /\ l.header = "accepted"
    /\ l.timer => ~InRetry(a)
    /\ link' = [link EXCEPT ![a] = [@ EXCEPT !.header = "received", !.timer = FALSE]]
    /\ UNCHANGED <<external, shutting_down_, pc, made, abandoned>>

\* The header says "error": the Connection is dropped for a HeaderError, and
\* with it the link.
OnHeaderRefused(a) ==
    LET l == link[a] IN
    /\ l.transport = "connected" /\ l.header = "refused"
    /\ link' = [link EXCEPT ![a] = Dropped(l, Held(a))]
    /\ abandoned' = [abandoned EXCEPT ![l.uri] = "refused"]
    /\ UNCHANGED <<external, shutting_down_, pc, made>>

-----------------------------------------------------------------------------
(* onRetryTimer(), on the thread of the internal callback queue.               *)

OnRetryTimer(a) ==
    LET l == link[a] IN
    /\ pc["queue"] = Idle
    /\ l.timer /\ ~l.dropping /\ l.needs_retry
    /\ IF network[l.uri] = "unreachable"
       THEN /\ link' = [link EXCEPT ![a] = [@ EXCEPT !.needs_retry = FALSE, !.transport = "closed"]]
            /\ abandoned' = [abandoned EXCEPT ![l.uri] = "unreachable"]
            /\ UNCHANGED pc
       ELSE /\ link' = [link EXCEPT ![a] = Connecting([l EXCEPT !.needs_retry = FALSE])]
            /\ pc' = [pc EXCEPT !["queue"] = At("initialize", {}, {}, a)]
            /\ UNCHANGED abandoned
    /\ UNCHANGED <<external, shutting_down_, made>>

\* Mutant: the queue keeps its reference to a link that was dropped meanwhile.
EndRetryKeepsLink ==
    /\ pc["queue"].at = "manage"
    /\ pc' = [pc EXCEPT !["queue"] = Idle]
    /\ UNCHANGED <<external, shutting_down_, made, link, abandoned>>

\* The timer's callback returns; a link that was dropped meanwhile dies with it.
EndRetry ==
    /\ pc["queue"].at = "manage"
    /\ LET a == pc["queue"].attempt IN
       link' = [link EXCEPT ![a] = IF @.dropping /\ ~Building(a) THEN Dropped(@, FALSE) ELSE @]
    /\ pc' = [pc EXCEPT !["queue"] = Idle]
    /\ UNCHANGED <<external, shutting_down_, made, abandoned>>

-----------------------------------------------------------------------------
(* A Connection is put on a new transport and the link on the Connection, by   *)
(* the thread that has called connect().                                       *)

\* Connection::initialize()
InitializeConnection(t) ==
    /\ pc[t].at = "initialize"
    /\ link' = [link EXCEPT ![pc[t].attempt].hears = "connection"]
    /\ pc' = [pc EXCEPT ![t].at = "wire"]
    /\ UNCHANGED <<external, shutting_down_, made, abandoned>>

\* TransportPublisherLink::initialize()
InitializeLink(t) ==
    /\ pc[t].at = "wire"
    /\ link' = [link EXCEPT ![pc[t].attempt].hears = "link"]
    /\ pc' = [pc EXCEPT ![t].at = IF t = "queue" THEN "manage" ELSE "list"]
    /\ UNCHANGED <<external, shutting_down_, made, abandoned>>

-----------------------------------------------------------------------------
(* Subscription.  pubUpdate() and pendingConnectionDone() hold shutdown_mutex_ *)
(* from their first step to their last, and shutdown() takes it.               *)

InSubscription(t) == t # "queue" /\ pc[t].at \notin {"start", "idle", "gone"}
\* Mutant: pendingConnectionDone() and pubUpdate() overlap.
NoMutex == TRUE
MutexFree == \A t \in {"user", "rpc"} : ~InSubscription(t) \/ (t = "user" /\ shutting_down_)

HasLink(p) == \E a \in Attempt : link[a].listed /\ link[a].uri = p
IsPending(p) == \E a \in Attempt : link[a].pending /\ link[a].uri = p

\* Mutant: a publisher whose link was dropped is taken to have one.
NeverTried(pubs) == {p \in pubs : \A a \in Attempt : link[a].uri # p}
Additions(pubs) == {p \in pubs : ~HasLink(p) /\ ~IsPending(p)}
Subtractions(pubs) == {a \in Attempt : link[a].listed /\ link[a].uri \notin pubs}

PubUpdate(t, pubs) ==
    /\ MutexFree
    /\ pc' = [pc EXCEPT ![t] = IF shutting_down_ THEN Idle
                                                 ELSE At("drop", Subtractions(pubs), Additions(pubs), 0)]
    /\ UNCHANGED <<shutting_down_, made, link, abandoned>>

\* TopicManager::registerSubscriber() hands on the master's answer; subscribe()
\* holds subs_mutex_, so that an update waits until it has returned.
Subscribe ==
    /\ pc["user"].at = "start"
    /\ PubUpdate("user", registered)
    /\ UNCHANGED external

ReceiveUpdate ==
    /\ pc["rpc"] = Idle /\ updates # <<>> /\ (InSubscription("user") => shutting_down_)
    /\ PubUpdate("rpc", Head(updates))
    /\ updates' = Tail(updates)
    /\ UNCHANGED <<registered, sent, network, faults>>

\* One of the links that are no longer wanted is dropped.
DropSubtraction(t) ==
    /\ pc[t].at = "drop" /\ pc[t].drops # {}
    /\ \E a \in pc[t].drops :
           /\ link' = [link EXCEPT ![a] = Dropped(@, Held(a))]
           /\ pc' = [pc EXCEPT ![t].drops = @ \ {a}]
    /\ UNCHANGED <<external, shutting_down_, made, abandoned>>

DropsDone(t) ==
    /\ pc[t].at = "drop" /\ pc[t].drops = {}
    /\ pc' = [pc EXCEPT ![t] = IF shutting_down_ THEN At("gone", {}, {}, 0)
                               ELSE IF pc[t].adds = {} THEN Idle
                               ELSE [@ EXCEPT !.at = "negotiate"]]
    /\ UNCHANGED <<external, shutting_down_, made, link, abandoned>>


\* Where pubUpdate() goes when it is done with p.
AfterNegotiation(t, p) ==
    IF pc[t].adds = {p} THEN Idle ELSE At("negotiate", {}, pc[t].adds \ {p}, 0)

\* negotiateConnection(): the call is started and handed to the XML-RPC thread.
NegotiateConnection(t, p) ==
    /\ pc[t].at = "negotiate" /\ p \in pc[t].adds
    /\ IF network[p] = "unreachable"
       THEN /\ abandoned' = [abandoned EXCEPT ![p] = "unreachable"]
            /\ pc' = [pc EXCEPT ![t] = AfterNegotiation(t, p)]
            /\ UNCHANGED <<made, link>>
       ELSE /\ made' = made + 1
            /\ link' = [link EXCEPT ![made + 1] = [Unused EXCEPT !.uri = p, !.request = "added"]]
            /\ abandoned' = [abandoned EXCEPT ![p] = "no"]
            /\ pc' = [pc EXCEPT ![t] = [@ EXCEPT !.at = "enter", !.attempt = made + 1]]
    /\ UNCHANGED <<external, shutting_down_>>

\* ... and only then entered in pending_connections_.
EnterPending(t) ==
    /\ pc[t].at = "enter"
    /\ LET a == pc[t].attempt IN
       /\ link' = [link EXCEPT ![a].pending = TRUE]
       /\ pc' = [pc EXCEPT ![t] = AfterNegotiation(t, link[a].uri)]
    /\ UNCHANGED <<external, shutting_down_, made, abandoned>>

\* shutdown() sets its flag under the mutex; drop() then takes the whole list.
Shutdown ==
    /\ pc["user"] = Idle /\ MutexFree
    /\ shutting_down_' = TRUE
    /\ LET taken == {a \in Attempt : link[a].listed} IN
       /\ pc' = [pc EXCEPT !["user"] = At("drop", taken, {}, 0)]
       /\ link' = [a \in Attempt |-> [link[a] EXCEPT !.listed = FALSE]]
    /\ UNCHANGED <<external, made, abandoned>>

-----------------------------------------------------------------------------
(* The XML-RPC thread and the calls it watches.                                *)

\* serverThreadFunc() adds the new calls to what it watches.
WatchCall(a) ==
    /\ pc["rpc"] = Idle /\ link[a].request = "added"
    /\ link' = [link EXCEPT ![a].request = "sent"]
    /\ UNCHANGED <<external, shutting_down_, pc, made, abandoned>>

\* The publisher answers requestTopic (external), with its port if it has the topic.
CallAnswered(a) ==
    /\ link[a].request = "sent" /\ Reachable(link[a].uri)
    /\ link' = [link EXCEPT ![a].request = IF link[a].uri \in registered THEN "answered" ELSE "denied"]
    /\ UNCHANGED <<external, shutting_down_, pc, made, abandoned>>

\* The call breaks off: XmlRpcClient::handleEvent() leaves the state it was in,
\* so that executeCheckDone() never says that it is done.
CallFailed(a) ==
    /\ link[a].request = "sent"
    /\ \/ ~Reachable(link[a].uri) /\ UNCHANGED faults
       \/ faults < MaxFaults /\ faults' = faults + 1
    /\ link' = [link EXCEPT ![a].request = "failed"]
    /\ abandoned' = [abandoned EXCEPT ![link[a].uri] = "call"]
    /\ UNCHANGED <<registered, updates, sent, network, shutting_down_, pc, made>>

\* check() finds the answer, and pendingConnectionDone() connects to the port.
PendingConnectionDone(a) ==
    LET l == link[a]
        erased == [l EXCEPT !.request = "done", !.pending = FALSE] IN
    /\ pc["rpc"] = Idle /\ MutexFree /\ l.request \in {"answered", "denied"}
    /\ \/ /\ shutting_down_
          /\ link' = [link EXCEPT ![a].request = "done"]
          /\ UNCHANGED <<pc, abandoned>>
       \/ /\ ~shutting_down_ /\ l.request = "denied"
          /\ link' = [link EXCEPT ![a] = erased]
          /\ abandoned' = [abandoned EXCEPT ![l.uri] = "refused"]
          /\ UNCHANGED pc
       \/ /\ ~shutting_down_ /\ l.request = "answered" /\ network[l.uri] = "unreachable"
          /\ link' = [link EXCEPT ![a] = erased]
          /\ abandoned' = [abandoned EXCEPT ![l.uri] = "unreachable"]
          /\ UNCHANGED pc
       \/ /\ ~shutting_down_ /\ l.request = "answered" /\ network[l.uri] # "unreachable"
          /\ link' = [link EXCEPT ![a] = Connecting(erased)]
          /\ pc' = [pc EXCEPT !["rpc"] = At("initialize", {}, {}, a)]
          /\ UNCHANGED abandoned
    /\ UNCHANGED <<external, shutting_down_, made>>

\* ... and when the link is complete it enters it in publisher_links_, whatever
\* has become of it meanwhile.
AddPublisherLink ==
    /\ pc["rpc"].at = "list"
    /\ link' = [link EXCEPT ![pc["rpc"].attempt].listed = TRUE]
    /\ pc' = [pc EXCEPT !["rpc"] = Idle]
    /\ UNCHANGED <<external, shutting_down_, made, abandoned>>

-----------------------------------------------------------------------------
SubscriptionStep(t) ==
    \/ DropSubtraction(t) \/ DropsDone(t) \/ EnterPending(t)
    \/ \E p \in Publisher : NegotiateConnection(t, p)

UserThread == Subscribe \/ SubscriptionStep("user") \/ Shutdown
RpcThread ==
    \/ ReceiveUpdate \/ SubscriptionStep("rpc") \/ InitializeConnection("rpc") \/ InitializeLink("rpc")
    \/ AddPublisherLink
    \/ \E a \in Attempt : WatchCall(a) \/ PendingConnectionDone(a)
QueueThread ==
    \/ InitializeConnection("queue") \/ InitializeLink("queue") \/ EndRetry
    \/ \E a \in Attempt : OnRetryTimer(a)
PollThread(a) == Connected(a) \/ OnHeaderReceived(a) \/ OnHeaderRefused(a)
PublisherNode(a) == PublisherAnswers(a) \/ CallAnswered(a)

Next ==
    \/ UserThread \/ RpcThread \/ QueueThread
    \/ \E a \in Attempt : PollThread(a) \/ Disconnected(a) \/ PublisherNode(a) \/ CallFailed(a)
    \/ \E p \in Publisher : RegistryChanges(p) \/ NetworkChanges(p)

\* A thread does not stop in the middle of its work, a socket's event is polled
\* for and a publisher that can be reached answers; nothing obliges the user to
\* unsubscribe, the registry to change or the network to fail.  Timers take turns
\* in the queue, so that no link's timer waits for ever behind another's.
Noticed(a) == ~Reachable(link[a].uri) /\ Disconnected(a)
Broken(a) == ~Reachable(link[a].uri) /\ CallFailed(a)
Fairness ==
    /\ WF_vars(Subscribe \/ SubscriptionStep("user"))
    /\ WF_vars(RpcThread) /\ WF_vars(QueueThread)
    /\ \A a \in Attempt : /\ WF_vars(PollThread(a)) /\ WF_vars(PublisherNode(a))
                          /\ SF_vars(OnRetryTimer(a))
                          /\ WF_vars(Noticed(a)) /\ WF_vars(Broken(a))

Spec == Init /\ [][Next]_vars /\ Fairness

-----------------------------------------------------------------------------
TypeOK ==
    /\ registered \subseteq Publisher
    /\ updates \in Seq(SUBSET Publisher) /\ Len(updates) <= MaxUpdates
    /\ sent \in 0 .. MaxUpdates /\ faults \in 0 .. MaxFaults
    /\ network \in [Publisher -> {"up", "refused", "unreachable"}]
    /\ shutting_down_ \in BOOLEAN
    /\ pc \in [Thread -> [at : Step, drops : SUBSET Attempt, adds : SUBSET Publisher,
                          attempt : Attempt \cup {0}]]
    /\ made \in Attempt \cup {0}
    /\ link \in [Attempt -> LinkState]
    /\ abandoned \in [Publisher -> {"no", "unreachable", "unheard", "refused", "call"}]

\* The attempts that are on their way to be a link of p, or are one.
Entering(a) == \E t \in Thread : pc[t].at = "enter" /\ pc[t].attempt = a
Towards(p) ==
    {a \in Attempt : link[a].uri = p /\ (link[a].pending \/ link[a].listed \/ Building(a) \/ Entering(a))}

\* A link that waits to be retried has a timer that will do it and no connection,
\* and a link in the subscription's list whose connection is gone waits to be
\* retried unless it is one of those known to be given up.
DeadLinkIsRetried ==
    \A a \in Attempt :
        /\ link[a].needs_retry /\ ~link[a].dropping => link[a].timer /\ ~Open(a)
        /\ link[a].listed /\ ~Open(a) /\ ~InRetry(a)
              => link[a].needs_retry \/ abandoned[link[a].uri] # "no"

\* A publisher is never connected to twice, which would deliver each of its
\* messages twice, and no answered call is left behind in pending_connections_,
\* where it would keep every later update from trying that publisher.  The call
\* is handed to the XML-RPC thread before it is entered; that
\* pendingConnectionDone() waits for shutdown_mutex_ makes up for it.
OnePerPublisher ==
    /\ TypeOK
    /\ DeadLinkIsRetried
    /\ \A p \in Publisher : Cardinality(Towards(p)) <= 1
    /\ \A a \in Attempt : link[a].request = "done" /\ ~shutting_down_ => ~link[a].pending

Served(p) == \E a \in Attempt :
    link[a].uri = p /\ link[a].listed /\ link[a].transport = "connected" /\ link[a].header = "received"

\* A publisher that stays registered and can be reached is connected to in the
\* end, however often the connection or the network broke before, unless it was
\* given up for one of the four reasons "abandoned" tells apart.
ServedInTheEnd ==
    <>[](\A p \in Publisher :
            p \in registered /\ network[p] = "up" /\ Subscribed => Served(p) \/ abandoned[p] # "no")

Quiescent(a) == ~Open(a) /\ ~link[a].timer /\ ~link[a].listed

\* After shutdown() no link keeps a connection or a timer, not even one whose
\* retry was under way or whose header was just being answered.
ShutdownClosesAll == <>[](pc["user"].at = "gone" => \A a \in Attempt : Quiescent(a))
=============================================================================
