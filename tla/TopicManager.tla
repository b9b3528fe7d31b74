---------------------------- MODULE TopicManager ----------------------------
(* The tables of TopicManager: what a node has advertised and subscribed to,   *)
(* under two mutexes, while threads advertise, subscribe, publish, give up     *)
(* their Publishers and Subscribers and shut the node down.  A publication and *)
(* a subscription are named by the handle they were created for.               *)
EXTENDS Integers, SequencesExt

CONSTANTS
    Thread,      \* user threads
    Publisher,   \* handles returned by advertise(), each used once
    Subscriber,  \* handles returned by subscribe(), each used once
    topic,       \* [Publisher \cup Subscriber -> names of topics]
    Typing,      \* which types of messages the handles may be of
    AnyMd5sum,   \* "*", the type of a Subscriber that takes any message
    Overlap      \* the sets of kinds of calls that may be in progress together

Handle == Publisher \cup Subscriber
Kind == {"advertise", "unadvertise", "publish", "subscribe", "unsubscribe", "shutdown"}
\* A link within the process; advertise() and subscribe() both make them.
Link == [pub : Publisher, sub : Subscriber, by : {"advertise", "subscribe"}]

ASSUME TopicManagerAssumption ==
    /\ Publisher \cap Subscriber = {}
    /\ DOMAIN topic = Handle 
    /\ \A types \in Typing : /\ DOMAIN types = Handle
                             /\ \A p \in Publisher : types[p] # AnyMd5sum
    /\ Overlap \subseteq SUBSET Kind

VARIABLES
    md5sum,             \* the type of each handle, publication and subscription
    pc,                 \* what each thread does next: <<kind of call, step>>
    handle,             \* the handle its call is about
    found,              \* the publication or subscription the call has looked up
    index,              \* unadvertise()'s iterator, as a position
    dangling,           \* threads whose iterator a reallocation has made invalid
    adv,                \* who holds advertised_topics_mutex_ between two steps
    subs,               \* who holds subs_mutex_ between two steps
    advertised_topics,  \* advertised_topics_
    subscriptions,      \* subscriptions_
    names,              \* advertised_topic_names_
    callbacks,          \* callbacks_ of each publication and subscription
    dropped,            \* publications and subscriptions with dropped_ set
    subscriber_links,   \* local links held by publications
    publisher_links,    \* local links held by subscriptions
    registered,         \* what the master has been told: topics by role
    lost,               \* history: topics the master was not told to forget
    shutting_down,      \* shutting_down_
    state,              \* of each handle
    broken              \* has the program done something undefined?

calls == <<pc, handle, found, index, dangling>>
locks == <<adv, subs>>
tables == <<advertised_topics, subscriptions, names>>
links == <<subscriber_links, publisher_links>>
master == <<registered, lost>>
vars == <<md5sum, calls, locks, tables, links, callbacks, dropped, master, shutting_down, state, broken>>

Idle == <<"none", "idle">>
Quiet == \A t \in Thread : pc[t] = Idle
Held(H) == {h \in H : state[h] = "held"}

Init ==
    /\ md5sum \in Typing
    /\ pc = [t \in Thread |-> Idle]
    /\ handle = [t \in Thread |-> {}] /\ found = [t \in Thread |-> {}]
    /\ index = [t \in Thread |-> 0] /\ dangling = {}
    /\ adv = {} /\ subs = {}
    /\ advertised_topics = << >> /\ subscriptions = << >> /\ names = {}
    /\ callbacks = [h \in Handle |-> {}] /\ dropped = {}
    /\ subscriber_links = {} /\ publisher_links = {}
    /\ registered = [publisher |-> {}, subscriber |-> {}] /\ lost = {}
    /\ shutting_down = FALSE
    /\ state = [h \in Handle |-> "unused"]
    /\ broken = FALSE

-----------------------------------------------------------------------------
\* The first of some elements of a list that is about a topic, as a set that is
\* empty when there is none.
Lookup(list, name, some) ==
    LET at == {i \in DOMAIN list : topic[list[i]] = name /\ list[i] \in some}
    IN IF at = {} THEN {} ELSE {list[CHOOSE i \in at : \A j \in at : i <= j]}

Live == Handle \ dropped
The(S) == CHOOSE x \in S : TRUE
lookupPublicationWithoutLock(name) == Lookup(advertised_topics, name, Live)

\* A mutex is taken when nobody holds it.
Free(lock) == lock = {}

\* mutant: the lock is released before the node's own topics are searched
ReleaseSubs(t) == UNCHANGED subs

\* subscribe() keeps subs_mutex_ from addSubCallback() to its end.
HoldSubs(t) == subs' = subs \cup {t}

md5sumsMatch(lhs, rhs) == lhs = AnyMd5sum \/ rhs = AnyMd5sum \/ lhs = rhs
\* A subscription to anything becomes one to the first type it meets.
Decay(s, type) == md5sum' = IF md5sum[s] = AnyMd5sum THEN [md5sum EXCEPT ![s] = type] ELSE md5sum

\* The thread's next step, or the end of its call, which leaves the handle as s.
Goto(t, step) == pc' = [pc EXCEPT ![t] = <<@[1], step>>]

Return(t, s) ==
    /\ pc' = [pc EXCEPT ![t] = Idle]
    /\ handle' = [handle EXCEPT ![t] = {}]
    /\ found' = [found EXCEPT ![t] = {}]
    /\ index' = [index EXCEPT ![t] = 0]
    /\ dangling' = dangling \ {t}
    /\ state' = [h \in Handle |-> IF h \in handle[t] THEN s ELSE state[h]]

\* A thread begins a call; which calls may overlap is up to the program.
Begin(t, kind, h, s) ==
    /\ pc[t] = Idle
    /\ \A u \in Thread \ {t} : pc[u] = Idle \/ {kind, pc[u][1]} \in Overlap
    /\ pc' = [pc EXCEPT ![t] = <<kind, "begin">>]
    /\ handle' = [handle EXCEPT ![t] = h]
    /\ state' = [x \in Handle |-> IF x \in h THEN s ELSE state[x]]
    /\ UNCHANGED <<found, index, dangling, locks, tables, links, callbacks, dropped, master,
                   md5sum, shutting_down, broken>>

BeginCall(t) ==
    \/ \E h \in Publisher :
        \/ state[h] = "unused" /\ Begin(t, "advertise", {h}, "opening")
        \/ state[h] = "held" /\ Begin(t, "unadvertise", {h}, "released")
        \/ state[h] = "held" /\ Begin(t, "publish", {h}, "held")
    \/ \E h \in Subscriber :
        \/ state[h] = "unused" /\ Begin(t, "subscribe", {h}, "opening")
        \/ state[h] = "held" /\ Begin(t, "unsubscribe", {h}, "released")
    \/ ~shutting_down /\ Begin(t, "shutdown", {}, "held")

-----------------------------------------------------------------------------
(* Links within the process.  Each end drops the other.                        *)


addLocalConnection(link) ==
    /\ publisher_links' = publisher_links \cup (IF link.sub \in Live THEN {link} ELSE {})
    /\ subscriber_links' =
        subscriber_links \cup (IF {link.sub, link.pub} \subseteq Live THEN {link} ELSE {})
    /\ IF link.sub \in Live THEN Decay(link.sub, md5sum[link.pub]) ELSE UNCHANGED md5sum

\* drop() of publications and subscriptions: their lists are emptied, and the
\* other ends let go of the links too.  A link the other end does not know stays.
DropAll(S) ==
    LET toGo == {l \in subscriber_links : l.pub \in S} \cup {l \in publisher_links : l.sub \in S}
    IN /\ dropped' = dropped \cup S
       /\ subscriber_links' = subscriber_links \ toGo
       /\ publisher_links' = publisher_links \ toGo

\* Calls to the master to forget topics.  Each is made once and may be lost.
Unregister(role, topics) ==
    \E kept \in SUBSET topics :
        /\ registered' = [registered EXCEPT ![role] = (@ \ topics) \cup (@ \cap kept)]
        /\ lost' = lost \cup kept

\* A call that waits for the master until it answers.
TellMaster(role, name) ==
    registered' = [registered EXCEPT ![role] = @ \cup {name}] /\ UNCHANGED lost

-----------------------------------------------------------------------------
(* advertise()                                                                 *)

\* push_back() may move the elements, and then no iterator is good any more.
Append_advertised(p) ==
    /\ advertised_topics' = Append(advertised_topics, p)
    /\ dangling' \in {dangling, {u \in Thread : index[u] # 0}}

EnterPublication(t) ==
    LET h == The(handle[t])
        open == {p \in lookupPublicationWithoutLock(topic[h]) : callbacks[p] # {}}
    IN
    /\ pc[t] = <<"advertise", "begin">> /\ Free(adv)
    /\ \/ /\ shutting_down \/ \E p \in open : md5sum[p] # md5sum[h]
          /\ Return(t, "refused")
          /\ UNCHANGED <<callbacks, advertised_topics>>
       \/ /\ ~shutting_down
          /\ \E p \in open :
                md5sum[p] = md5sum[h] /\ callbacks' = [callbacks EXCEPT ![p] = @ \cup {h}]
          /\ Return(t, "held")
          /\ UNCHANGED advertised_topics
       \/ /\ ~shutting_down /\ open = {}
          /\ callbacks' = [callbacks EXCEPT ![h] = {h}]
          /\ Append_advertised(h)
          /\ Goto(t, "name")
          /\ UNCHANGED <<handle, found, index, state>>
    /\ UNCHANGED <<locks, subscriptions, names, links, dropped, master, md5sum, shutting_down, broken>>

EnterName(t) ==
    /\ pc[t] = <<"advertise", "name">>
    /\ names' = names \cup {topic[h] : h \in handle[t]}
    /\ Goto(t, "find")
    /\ UNCHANGED <<handle, found, index, dangling, locks, advertised_topics, subscriptions, links,
                   callbacks, dropped, master, md5sum, shutting_down, state, broken>>

FindLocalSubscription(t) ==
    LET h == The(handle[t])
        matches == {s \in Live : md5sumsMatch(md5sum[s], md5sum[h])}
    IN
    /\ pc[t] = <<"advertise", "find">> /\ Free(subs)
    /\ found' = [found EXCEPT ![t] = Lookup(subscriptions, topic[h], matches)]
    /\ Goto(t, "join")
    /\ UNCHANGED <<handle, index, dangling, locks, tables, links, callbacks, dropped, master,
                   md5sum, shutting_down, state, broken>>

JoinSubscription(t) ==
    /\ pc[t] = <<"advertise", "join">>
    /\ \/ found[t] = {} /\ UNCHANGED <<links, md5sum>>
       \/ \E s \in found[t] : addLocalConnection([pub |-> The(handle[t]), sub |-> s, by |-> "advertise"])
    /\ Goto(t, "register")
    /\ UNCHANGED <<handle, found, index, dangling, locks, tables, callbacks, dropped, master,
                   shutting_down, state, broken>>

RegisterPublisher(t) ==
    /\ pc[t] = <<"advertise", "register">>
    /\ TellMaster("publisher", topic[The(handle[t])])
    /\ Return(t, "held")
    /\ UNCHANGED <<locks, tables, links, callbacks, dropped, md5sum, shutting_down, broken>>

Advertise(t) ==
    \/ EnterPublication(t) \/ EnterName(t) \/ FindLocalSubscription(t)
    \/ JoinSubscription(t) \/ RegisterPublisher(t)

-----------------------------------------------------------------------------
(* unadvertise() and publish()                                                 *)

FindPublication(t) ==
    LET pub == lookupPublicationWithoutLock(topic[The(handle[t])])
    IN
    /\ pc[t] = <<"unadvertise", "begin">> /\ Free(adv)
    /\ \/ /\ shutting_down \/ pub = {}
          /\ Return(t, "released")
       \/ /\ ~shutting_down /\ pub # {}
          /\ found' = [found EXCEPT ![t] = pub]
          /\ index' = [index EXCEPT ![t] = CHOOSE i \in DOMAIN advertised_topics :
                                               advertised_topics[i] \in pub]
          /\ Goto(t, "remove")
          /\ UNCHANGED <<handle, dangling, state>>
    /\ UNCHANGED <<locks, tables, links, callbacks, dropped, master, md5sum, shutting_down, broken>>

\* mutant: all callbacks go
RemoveAllCallbacks(t) ==
    /\ pc[t][2] = "remove"
    /\ callbacks' = [x \in Handle |-> IF x \in found[t] THEN {} ELSE callbacks[x]]
    /\ Goto(t, "check")
    /\ UNCHANGED <<handle, found, index, dangling, locks, tables, links, dropped, master,
                   md5sum, shutting_down, state, broken>>

\* Also the removeCallback() of unsubscribe().
RemoveCallbacks(t) ==
    /\ pc[t][2] = "remove"
    /\ callbacks' = [x \in Handle |-> IF x \in found[t] THEN callbacks[x] \ handle[t] ELSE callbacks[x]]
    /\ Goto(t, "check")
    /\ UNCHANGED <<handle, found, index, dangling, locks, tables, links, dropped, master,
                   md5sum, shutting_down, state, broken>>

CheckPublication(t) ==
    /\ pc[t] = <<"unadvertise", "check">> /\ Free(adv)
    /\ \/ /\ \E p \in found[t] : callbacks[p] # {}
          /\ Return(t, "released")
          /\ UNCHANGED adv
       \/ /\ \A p \in found[t] : callbacks[p] = {}
          /\ adv' = adv \cup {t}
          /\ Goto(t, "erase")
          /\ UNCHANGED <<handle, found, index, dangling, state>>
    /\ UNCHANGED <<subs, tables, links, callbacks, dropped, master, md5sum, shutting_down, broken>>

\* Tell the master, drop the publication and erase what the iterator points at.
ErasePublication(t) ==
    LET name == topic[The(found[t])]
        valid == t \notin dangling /\ index[t] \in DOMAIN advertised_topics
    IN
    /\ pc[t] = <<"unadvertise", "erase">>
    /\ Unregister("publisher", {name})
    /\ DropAll(found[t])
    /\ IF valid THEN advertised_topics' = RemoveAt(advertised_topics, index[t]) /\ UNCHANGED broken
                ELSE broken' = TRUE /\ UNCHANGED advertised_topics
    /\ names' = names \ {name}
    /\ adv' = adv \ {t}
    /\ Return(t, "released")
    /\ UNCHANGED <<subs, subscriptions, callbacks, md5sum, shutting_down>>

\* mutant: subs_mutex_ is taken inside advertised_topics_mutex_
UnadvertiseLockingSubs(t) ==
    FindPublication(t) \/ CheckPublication(t) \/ (Free(subs) /\ ErasePublication(t))

Unadvertise(t) == FindPublication(t) \/ CheckPublication(t) \/ ErasePublication(t)

\* publish() uses the publication it looks up without asking whether it is there.
Publish(t) ==
    LET h == The(handle[t])
    IN
    /\ pc[t] = <<"publish", "begin">> /\ Free(adv)
    /\ broken' = (broken \/ (~shutting_down /\ lookupPublicationWithoutLock(topic[h]) = {}))
    /\ Return(t, state[h])
    /\ UNCHANGED <<locks, tables, links, callbacks, dropped, master, md5sum, shutting_down>>

-----------------------------------------------------------------------------
(* subscribe() and unsubscribe()                                               *)

\* addSubCallback() and, for a new subscription, the call to the master, all
\* with subs_mutex_ held.
EnterSubscription(t) ==
    LET h == The(handle[t])
        existing == Lookup(subscriptions, topic[h], Live)
    IN
    /\ pc[t] = <<"subscribe", "begin">> /\ Free(subs)
    /\ \/ /\ shutting_down \/ \E s \in existing : ~md5sumsMatch(md5sum[h], md5sum[s])
          /\ Return(t, "refused")
          /\ UNCHANGED <<callbacks, md5sum, master, subs>>
       \/ /\ ~shutting_down
          /\ \E s \in existing : /\ md5sumsMatch(md5sum[h], md5sum[s])
                                 /\ Decay(s, md5sum[h])
                                 /\ callbacks' = [callbacks EXCEPT ![s] = @ \cup {h}]
          /\ Return(t, "held")
          /\ UNCHANGED <<master, subs>>
       \/ /\ ~shutting_down /\ existing = {}
          /\ callbacks' = [callbacks EXCEPT ![h] = {h}]
          /\ TellMaster("subscriber", topic[h])
          /\ HoldSubs(t)
          /\ Goto(t, "local")
          /\ UNCHANGED <<handle, found, index, dangling, state, md5sum>>
    /\ UNCHANGED <<adv, tables, links, dropped, shutting_down, broken>>

\* registerSubscriber() looks for a local publication, and gives up when it has
\* another type.
FindLocalPublication(t) ==
    LET h == The(handle[t])
        pub == lookupPublicationWithoutLock(topic[h])
    IN
    /\ pc[t] = <<"subscribe", "local">> /\ Free(adv)
    /\ \/ /\ \E p \in pub : ~md5sumsMatch(md5sum[p], md5sum[h])
          /\ DropAll({h})
          /\ subs' = subs \ {t}
          /\ Return(t, "refused")
       \/ /\ \A p \in pub : md5sumsMatch(md5sum[p], md5sum[h])
          /\ found' = [found EXCEPT ![t] = pub]
          /\ Goto(t, "list")
          /\ UNCHANGED <<handle, index, dangling, state, subs, dropped, links>>
    /\ UNCHANGED <<adv, tables, callbacks, master, md5sum, shutting_down, broken>>

ListSubscription(t) ==
    LET h == The(handle[t])
    IN
    /\ pc[t] = <<"subscribe", "list">>
    /\ \/ found[t] = {} /\ UNCHANGED <<links, md5sum>>
       \/ \E p \in found[t] : addLocalConnection([pub |-> p, sub |-> h, by |-> "subscribe"])
    /\ subscriptions' = Append(subscriptions, h)
    /\ subs' = subs \ {t}
    /\ Return(t, "held")
    /\ UNCHANGED <<adv, advertised_topics, names, callbacks, dropped, master, shutting_down, broken>>

Subscribe(t) == EnterSubscription(t) \/ FindLocalPublication(t) \/ ListSubscription(t)

FindSubscription(t) ==
    LET sub == Lookup(subscriptions, topic[The(handle[t])], Handle)
    IN
    /\ pc[t] = <<"unsubscribe", "begin">> /\ Free(subs)
    /\ \/ /\ shutting_down \/ sub = {}
          /\ Return(t, "released")
       \/ /\ ~shutting_down /\ sub # {}
          /\ found' = [found EXCEPT ![t] = sub]
          /\ Goto(t, "remove")
          /\ UNCHANGED <<handle, index, dangling, state>>
    /\ UNCHANGED <<locks, tables, links, callbacks, dropped, master, md5sum, shutting_down, broken>>

CheckSubscription(t) ==
    /\ pc[t] = <<"unsubscribe", "check">>
    /\ \/ /\ \E s \in found[t] : callbacks[s] # {}
          /\ Return(t, "released")
       \/ /\ \A s \in found[t] : callbacks[s] = {}
          /\ Goto(t, "erase")
          /\ UNCHANGED <<handle, found, index, dangling, state>>
    /\ UNCHANGED <<locks, tables, links, callbacks, dropped, master, md5sum, shutting_down, broken>>

\* The subscription that is erased is looked up again, by its topic.
EraseSubscription(t) ==
    LET name == topic[The(found[t])]
        gone == Lookup(subscriptions, name, Handle)
    IN
    /\ pc[t] = <<"unsubscribe", "erase">> /\ Free(subs)
    /\ subscriptions' = SelectSeq(subscriptions, LAMBDA s : s \notin gone)
    /\ Unregister("subscriber", {name})
    /\ Goto(t, "drop")
    /\ UNCHANGED <<handle, found, index, dangling, locks, advertised_topics, names, links, callbacks,
                   dropped, md5sum, shutting_down, state, broken>>

DropSubscription(t) ==
    /\ pc[t] = <<"unsubscribe", "drop">>
    /\ DropAll(found[t])
    /\ Return(t, "released")
    /\ UNCHANGED <<locks, tables, callbacks, master, md5sum, shutting_down, broken>>

Unsubscribe(t) ==
    FindSubscription(t) \/ CheckSubscription(t) \/ EraseSubscription(t) \/ DropSubscription(t)

-----------------------------------------------------------------------------
(* shutdown()                                                                  *)

LockTopics(t) ==
    /\ pc[t] = <<"shutdown", "begin">>
    /\ \A u \in Thread : pc[u][1] = "shutdown" => pc[u][2] = "begin"
    /\ \/ shutting_down /\ Return(t, "released") /\ UNCHANGED adv
       \/ /\ ~shutting_down /\ Free(adv)
          /\ adv' = adv \cup {t}
          /\ Goto(t, "flag")
          /\ UNCHANGED <<handle, found, index, dangling, state>>
    /\ UNCHANGED <<subs, tables, links, callbacks, dropped, master, md5sum, shutting_down, broken>>

SetShuttingDown(t) ==
    /\ pc[t] = <<"shutdown", "flag">> /\ Free(subs)
    /\ shutting_down' = TRUE
    /\ adv' = adv \ {t}
    /\ Goto(t, "topics")
    /\ UNCHANGED <<handle, found, index, dangling, subs, tables, links, callbacks, dropped,
                   master, md5sum, state, broken>>

DropPublications(t) ==
    LET all == ToSet(advertised_topics)
    IN
    /\ pc[t] = <<"shutdown", "topics">> /\ Free(adv)
    /\ Unregister("publisher", {topic[p] : p \in all \ dropped})
    /\ DropAll(all)
    /\ advertised_topics' = << >>
    /\ Goto(t, "subscriptions")
    /\ UNCHANGED <<handle, found, index, dangling, locks, subscriptions, names, callbacks,
                   md5sum, shutting_down, state, broken>>

DropSubscriptions(t) ==
    LET all == ToSet(subscriptions)
    IN
    /\ pc[t] = <<"shutdown", "subscriptions">> /\ Free(subs)
    /\ Unregister("subscriber", {topic[s] : s \in all})
    /\ DropAll(all)
    /\ subscriptions' = << >>
    /\ Return(t, "released")
    /\ UNCHANGED <<locks, advertised_topics, names, callbacks, md5sum, shutting_down, broken>>

Shutdown(t) ==
    LockTopics(t) \/ SetShuttingDown(t) \/ DropPublications(t) \/ DropSubscriptions(t)

-----------------------------------------------------------------------------
Step(t) ==
    \/ Advertise(t) \/ Unadvertise(t) \/ Publish(t) \/ RemoveCallbacks(t)
    \/ Subscribe(t) \/ Unsubscribe(t) \/ Shutdown(t)

Next == \E t \in Thread : BeginCall(t) \/ Step(t)

\* A call that has begun goes on as long as it can.  Nobody has to begin one.
Fairness == \A t \in Thread : WF_vars(Step(t))

Spec == Init /\ [][Next]_vars /\ Fairness
-----------------------------------------------------------------------------
TypeOK ==
    /\ DOMAIN md5sum = Handle
    /\ DOMAIN pc = Thread /\ \A t \in Thread : pc[t][1] \in Kind \cup {"none"}
    /\ handle \in [Thread -> SUBSET Handle] /\ found \in [Thread -> SUBSET Handle]
    /\ index \in [Thread -> 0..Cardinality(Publisher)] /\ dangling \subseteq Thread
    /\ adv \subseteq Thread /\ Cardinality(adv) <= 1
    /\ subs \subseteq Thread /\ Cardinality(subs) <= 1
    /\ advertised_topics \in Seq(Publisher) /\ subscriptions \in Seq(Subscriber)
    /\ names \subseteq Range(topic)
    /\ callbacks \in [Handle -> SUBSET Handle] /\ dropped \subseteq Handle
    /\ subscriber_links \subseteq Link /\ publisher_links \subseteq Link
    /\ registered \in [{"publisher", "subscriber"} -> SUBSET Range(topic)]
    /\ lost \subseteq Range(topic)
    /\ shutting_down \in BOOLEAN /\ broken \in BOOLEAN
    /\ state \in [Handle -> {"unused", "opening", "held", "released", "refused"}]

\* publisher.h:128-129: shutting a Publisher down "will only remove the one
\* associated with this Publisher".  A Publisher that is still held has its
\* publication in the list, and the master knows of it.
PublishersServed ==
    Quiet /\ ~shutting_down /\ ~broken =>
        \A h \in Held(Publisher) :
            /\ \E p \in ToSet(advertised_topics) \ dropped : topic[p] = topic[h] /\ h \in callbacks[p]
            /\ topic[h] \in registered.publisher

\* Whatever harmless calls were interleaved, the tables are those of the handles
\* still held: each is served, nothing else is listed, there is one entry for a
\* topic, the master keeps only topics it was not told to forget, and no iterator
\* gone bad or missing publication was used on the way.
HandlesServed ==
    /\ TypeOK
    /\ ~broken
    /\ PublishersServed
    /\ Quiet /\ ~shutting_down =>
        /\ \A h \in Held(Subscriber) :
            /\ \E s \in ToSet(subscriptions) \ dropped : topic[s] = topic[h] /\ h \in callbacks[s]
            /\ topic[h] \in registered.subscriber
        /\ names = {topic[h] : h \in Held(Publisher)}
        /\ Len(advertised_topics) = Cardinality(names)
        /\ Len(subscriptions) = Cardinality({topic[h] : h \in Held(Subscriber)})
        /\ registered.publisher \subseteq names \cup lost

\* advertise() and subscribe() look for each other's entries in the two tables
\* under two locks, in opposite orders: one of them sees the other, and a topic
\* that is advertised and subscribed to in one node has its local link.
LocalsJoined ==
    \A p \in ToSet(advertised_topics), s \in ToSet(subscriptions) :
        topic[p] = topic[s] /\ md5sumsMatch(md5sum[p], md5sum[s]) =>
            \E l \in subscriber_links \cap publisher_links : l.pub = p /\ l.sub = s

\* Every local link is in both tables, and a node that was shut down has none, and
\* no topics that the master was not told to forget.
NoLinkLeftBehind ==
    /\ \A l \in subscriber_links : /\ l.pub \in ToSet(advertised_topics)
                                   /\ l.sub \in ToSet(subscriptions)
                                   /\ l \in publisher_links
    /\ shutting_down => /\ publisher_links = {} /\ registered.publisher \subseteq lost
                        /\ advertised_topics = << >> /\ subscriptions = << >>

\* When no call is under way, a topic that is advertised and subscribed to in one node has
\* its local link, and no publication goes on handing messages to a subscription that was
\* erased while a call was joining the two.
LinksAgree == Quiet => LocalsJoined /\ NoLinkLeftBehind

\* The tables, the master's and the local links are those of the handles that are held.
TablesAgree == HandlesServed /\ LinksAgree

\* Every call returns: the two mutexes, held across calls to the master and taken
\* inside one another, do not lock the threads out.
CallsReturn == \A t \in Thread : []<>(pc[t] = Idle)
=============================================================================
