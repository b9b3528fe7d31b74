------------------------------- MODULE Topic -------------------------------
(* A topic from publish() to the callbacks of its subscribers: Publication     *)
(* (one node) composed with Subscription (the node at the other end of each    *)
(* link, which for a local link is the same node).                             *)
EXTENDS Publication, Subscription, SequencesExt

\* History: the last message the publisher gave to each link.
VARIABLE newest

vars == <<pvars, svars, newest>>

TypeOK ==
    /\ PublicationTypeOK
    /\ SubscriptionTypeOK
    /\ newest \in [Link -> 0..published]

Init(opts, present, late) ==
    /\ PublicationInit(opts, present, late)
    /\ SubscriptionInit
    /\ newest = [l \in Link |-> 0]

-----------------------------------------------------------------------------
\* m is given to the links ls; a local link passes it on to its subscription
\* within the call.
Give(ls, m) ==
    /\ newest' = [l \in Link |-> IF l \in ls THEN m ELSE newest[l]]
    /\ handleMessage(ls \cap Local, m)

PublishMessage == Publish /\ Give(Uncopied, published')

HandOut ==
    /\ EnqueueMessage
    /\ Give((links \cap Remote) \cup ToLocal(Head(batch)), Head(batch))

Join(l) == SendLatched(l) /\ Give({k \in ToJoiner(l) : connected[k]}, lastMessage)

\* A subscriber reads the next message from its socket.
Receive(l) ==
    /\ wire[l] # << >>
    /\ wire' = [wire EXCEPT ![l] = Tail(@)]
    /\ handleMessage({l}, Head(wire[l]))
    /\ UNCHANGED <<links, dropped, swapped, leaving, joining, outbox, headerWritten, writing,
                   connected, newest>>
    /\ UNCHANGED publisherVars

PublicationOnly ==
    /\ \/ TakeBatch \/ Drop \/ SwapLinks
       \/ \E l \in Link : \/ AcceptHeader(l) \/ ListLink(l) \/ WriteHeader(l)
                          \/ WriteMessage(l) \/ ConnectionLost(l) \/ DropLink(l)
    /\ UNCHANGED <<svars, newest>>

SubscriptionOnly ==
    /\ (\E t \in Thread : Spin(t)) \/ (\E l \in Link : removeCallback(l))
    /\ UNCHANGED <<pvars, newest>>

Next ==
    \/ PublishMessage \/ HandOut
    \/ \E l \in Link : Join(l) \/ Receive(l)
    \/ PublicationOnly \/ SubscriptionOnly

\* The topic has been advertised with any options.  Local subscribers are there
\* before the first message; TCP subscribers may connect at any time.
Start ==
    \E opts \in [latch : BOOLEAN, uncopied : BOOLEAN, bound : 0..MaxPublished],
       present \in SUBSET Local, late \in SUBSET Remote : Init(opts, present, late)

Spec == Start /\ [][Next]_vars

\* Every thread finishes what it has begun and does what it finds to do: the
\* poll thread of the publisher (a socket becomes writable when its other end
\* reads), the user thread that drops the topic or connects a local subscriber,
\* the poll threads that read the sockets, and the spinner's threads.  Nobody
\* has to publish, connect, disconnect or unsubscribe.
PollThread ==
    \/ HandOut
    \/ \E l \in Remote : Join(l)
    \/ /\ \/ TakeBatch
          \/ \E l \in Remote : ListLink(l) \/ WriteHeader(l) \/ WriteMessage(l)
       /\ UNCHANGED <<svars, newest>>

UserThread ==
    \/ \E l \in Local : Join(l)
    \/ /\ SwapLinks \/ (\E l \in Link : DropLink(l)) \/ (\E l \in Local : ListLink(l))
       /\ UNCHANGED <<svars, newest>>

Fairness ==
    /\ WF_vars(PollThread) /\ WF_vars(UserThread)
    /\ WF_vars(\E l \in Remote : Receive(l))
    /\ \A t \in Thread : WF_vars(Spin(t) /\ UNCHANGED <<pvars, newest>>)

-----------------------------------------------------------------------------
\* What is on its way on a link: in the queue of the subscription, on the wire
\* and, while the connection is open, with the publisher.
Unsent(l) == IF connected[l] THEN (ToSet(outbox[l]) \cup {writing[l]}) \ {0} ELSE {}
OnItsWay(l) == ToSet(queue[l]) \cup ToSet(wire[l]) \cup Unsent(l)
Gone(l) == ~connected[l] \/ subscribed[l] # "yes"

Channel == INSTANCE TopicChannel WITH
    pending <- [l \in Link |-> OnItsWay(l)], cut <- [l \in Link |-> Gone(l)]

\* Every link is a TopicChannel: between publish() and the callback lie two
\* queues that lose their oldest message, the socket, a batch and two spinner
\* threads, and still no message is repeated or overtaken, and the newest is
\* never the one that is lost.
ImplementsChannel == Channel!ChannelSpec

\* subscribe_options.h:125 of every subscription: "callbacks are guaranteed to
\* arrive in-order".  With a local subscriber that connects between two messages
\* published by shared pointer they do not: the first was queued for the poll
\* thread, the second is handed on at once.  No run checks it.
CallbacksInOrder == [][\A l \in Link : got'[l] >= got[l]]_vars

\* A subscriber that has connected to a latched topic was given the last
\* message, whatever was published while it was connecting; and no message lies in
\* its queue without an entry of the callback queue that will call it.
GivenAndScheduled ==
    /\ TypeOK
    /\ EveryMessageScheduled
    /\ \A l \in links : options.latch /\ joining[l] = "joined" => newest[l] >= lastMessage

\* When publishing stops, the newest message given to a link gets to its
\* callback, unless the link goes: the queue that waits for the poll thread, the
\* write that waits for room in the socket and the entries put back into the
\* callback queue do not leave it lying.  A dropped topic lets go of its links, and those
\* still connecting do not get on the list that nobody will look at again.
NewestArrives ==
    <>[](/\ (~dropped => publishQueue = << >>)
         /\ \A l \in links : got[l] = newest[l] \/ Gone(l)
         /\ (dropped => links \cup leaving = {}))
=============================================================================
