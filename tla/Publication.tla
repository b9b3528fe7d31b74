---------------------------- MODULE Publication ----------------------------
(* The sending end of a topic (publication.cpp, transport_subscriber_link.cpp, *)
(* TopicManager::publish and processPublishQueues).  User threads publish and  *)
(* drop the topic; the PollManager's thread hands published messages to the    *)
(* links, accepts TCP subscribers and writes to their sockets; a subscriber in *)
(* the same process is connected on a user thread.                             *)
(*                                                                             *)
(* TopicManager::advertised_topics_mutex_ is held while a message is           *)
(* published, while a batch is handed out and while the topic is dropped, so   *)
(* none of these sees another half done.  Messages are numbered in the order   *)
(* of their publication.                                                       *)
EXTENDS Naturals, Sequences, BoundedFifo, TopicLinks

CONSTANTS
    MaxQueue,     \* queue_size given to advertise()
    SocketRoom,   \* messages the system buffers between the two ends of a link
    MaxPublished  \* bound on the messages published

ASSUME PublicationAssumption ==
    /\ {MaxQueue, MaxPublished} \subseteq Nat
    /\ SocketRoom \in Nat \ {0}

VARIABLES
    options,      \* latch_; whether the user publishes by a shared pointer, that
                  \* is handed on without a copy, or by reference; and a bound,
                  \* how many messages are published
    published,    \* messages published so far
    typed,        \* those whose type_info is kept: they were handed on uncopied
    publishQueue, \* publish_queue_
    batch,        \* what processPublishQueue took from it and has not handed out
    links,        \* subscriber_links_
    lastMessage,  \* last_message_, 0 for none
    dropped,      \* dropped_
    swapped,      \* dropAllConnections has swapped the list of links out
    leaving,      \* the links it swapped out and has not yet dropped
    joining,      \* how far the connecting of each link is
    outbox,       \* TransportSubscriberLink::outbox_
    headerWritten,\* header_written_
    writing,      \* the message the Connection is writing, 0 for none
    wire,         \* messages written to the socket and not yet read
    connected     \* the connection is open

pvars == <<options, published, typed, publishQueue, batch, links, lastMessage,
           dropped, swapped, leaving, joining, outbox, headerWritten, writing, wire, connected>>

linkVars == <<outbox, headerWritten, writing, wire, connected>>
publisherVars == <<options, published, typed, publishQueue, batch, lastMessage>>

Message == 1..MaxPublished

PublicationTypeOK ==
    /\ options \in [latch : BOOLEAN, uncopied : BOOLEAN, bound : 0..MaxPublished]
    /\ published \in 0..MaxPublished
    /\ typed \subseteq 1..published
    /\ publishQueue \in Seq(Message) /\ batch \in Seq(Message)
    /\ links \subseteq Link /\ leaving \subseteq Link
    /\ lastMessage \in 0..published
    /\ dropped \in BOOLEAN /\ swapped \in BOOLEAN
    /\ joining \in [Link -> {"absent", "validated", "listed", "joined", "refused"}]
    /\ outbox \in [Link -> Seq(Message)]
    /\ headerWritten \in [Link -> BOOLEAN] /\ connected \in [Link -> BOOLEAN]
    /\ writing \in [Link -> 0..MaxPublished]
    /\ wire \in [Link -> Seq(Message)]
    /\ \A l \in Link : /\ MaxQueue > 0 => Len(outbox[l]) <= MaxQueue
                       /\ Len(wire[l]) <= SocketRoom

\* The topic has been advertised with these options; the local links `present'
\* are connected, the links `late' may connect later.
PublicationInit(opts, present, late) ==
    /\ options = opts
    /\ published = 0 /\ typed = {}
    /\ publishQueue = << >> /\ batch = << >>
    /\ links = present /\ leaving = {} /\ lastMessage = 0 /\ dropped = FALSE /\ swapped = FALSE
    /\ joining = [l \in Link |-> IF l \in present THEN "joined"
                                 ELSE IF l \in late THEN "absent" ELSE "refused"]
    /\ outbox = [l \in Link |-> << >>] /\ wire = [l \in Link |-> << >>]
    /\ headerWritten = [l \in Link |-> FALSE]
    /\ connected = [l \in Link |-> l \in present]
    /\ writing = [l \in Link |-> 0]

\* The poll thread is at the top of its loop: not handing out a batch, nor
\* within the handleHeader of a TCP subscriber.
PollThreadFree ==
    /\ batch = << >>
    /\ \A l \in Remote : joining[l] \notin {"validated", "listed"}

TopicsUnlocked == batch = << >>

-----------------------------------------------------------------------------
\* startMessageWrite of the links ls, given their outboxes: the oldest message
\* goes to the Connection if that is not writing one.
MayStart(l) == writing[l] = 0 /\ headerWritten'[l]
startMessageWrite(ls, boxes) ==
    LET start == {l \in ls : MayStart(l) /\ boxes[l] # << >>}
    IN /\ writing' = [l \in Link |-> IF l \in start THEN Head(boxes[l]) ELSE writing[l]]
       /\ outbox' = [l \in Link |-> IF l \in start THEN Tail(boxes[l]) ELSE boxes[l]]

\* TransportSubscriberLink::enqueueMessage on the links ls.
enqueueOnLinks(ls, m) ==
    /\ UNCHANGED <<headerWritten, wire, connected>>
    /\ startMessageWrite(ls, [l \in Link |->
           IF l \in ls THEN Pushed(outbox[l], m, MaxQueue) ELSE outbox[l]])

\* TopicManager::publish.  Without a subscriber, and unlatched, the message
\* only takes a sequence number.  Handed on uncopied, it reaches the local
\* subscribers at once, and the queue only if somebody needs it serialized.
Uncopied == IF options.uncopied THEN links \cap Local ELSE {}
Serialized == Uncopied = {} \/ links \ Local # {}

Publish ==
    /\ TopicsUnlocked /\ ~dropped
    /\ published < options.bound
    /\ published' = published + 1
    /\ typed' = IF Uncopied # {} THEN typed \cup {published'} ELSE typed
    /\ publishQueue' = IF (links # {} /\ Serialized) \/ options.latch
                       THEN Append(publishQueue, published') ELSE publishQueue
    /\ UNCHANGED <<options, batch, links, lastMessage, dropped, swapped, leaving, joining>>
    /\ UNCHANGED linkVars

\* processPublishQueue takes the whole queue ...
TakeBatch ==
    /\ PollThreadFree /\ ~dropped
    /\ publishQueue # << >>
    /\ batch' = publishQueue
    /\ publishQueue' = << >>
    /\ UNCHANGED <<options, published, typed, links, lastMessage, dropped, swapped, leaving, joining>>
    /\ UNCHANGED linkVars

\* ... and hands out its messages one by one.  A message that was handed to the
\* local subscribers uncopied is not given to them again.
ToLocalAgain(m) == links \cap Local
ToLocal(m) == IF m \in typed THEN {} ELSE links \cap Local

Latched(m) == IF options.latch THEN m ELSE lastMessage

EnqueueMessage ==
    /\ batch # << >>
    /\ batch' = Tail(batch)
    /\ enqueueOnLinks(links \cap Remote, Head(batch))
    /\ lastMessage' = Latched(Head(batch))
    /\ UNCHANGED <<options, published, typed, publishQueue, links, dropped, swapped, leaving, joining>>

-----------------------------------------------------------------------------
\* A subscriber connects.  TCP: its header arrived and validateHeader found the
\* topic still advertised; the answer is queued for writing.  Local:
\* addLocalConnection made the two ends of the link.
AcceptHeader(l) ==
    /\ l \in Remote => PollThreadFree
    /\ joining[l] = "absent" /\ ~dropped
    /\ joining' = [joining EXCEPT ![l] = "validated"]
    /\ connected' = [connected EXCEPT ![l] = TRUE]
    /\ UNCHANGED <<links, dropped, swapped, leaving, outbox, headerWritten, writing, wire>>
    /\ UNCHANGED publisherVars

\* addSubscriberLink: under subscriber_links_mutex_ the link is listed, unless
\* the topic was dropped since: then it is left as it is,
MayBeListed == ~dropped

ListLink(l) ==
    /\ joining[l] = "validated"
    /\ IF MayBeListed
       THEN /\ links' = links \cup {l}
            /\ joining' = [joining EXCEPT ![l] = "listed"]
       ELSE /\ links' = links
            /\ joining' = [joining EXCEPT ![l] = "refused"]
    /\ UNCHANGED <<dropped, swapped, leaving>> /\ UNCHANGED publisherVars /\ UNCHANGED linkVars

\* and without that mutex it is sent the last message of a latched topic.
ToNobody(l) == {}
ToJoiner(l) == IF options.latch /\ lastMessage # 0 THEN {l} ELSE {}

SendLatched(l) ==
    /\ joining[l] = "listed"
    /\ joining' = [joining EXCEPT ![l] = "joined"]
    /\ enqueueOnLinks(ToJoiner(l) \cap Remote, lastMessage)
    /\ UNCHANGED <<links, dropped, swapped, leaving>> /\ UNCHANGED publisherVars

-----------------------------------------------------------------------------
\* The socket of a TCP subscriber can be written: the connection header first,
WriteHeader(l) ==
    /\ PollThreadFree
    /\ l \in Remote /\ connected[l] /\ joining[l] # "absent"
    /\ ~headerWritten[l]
    /\ headerWritten' = [headerWritten EXCEPT ![l] = TRUE]
    /\ startMessageWrite({l}, outbox)
    /\ UNCHANGED <<links, dropped, swapped, leaving, joining, wire, connected>>
    /\ UNCHANGED publisherVars

WriteOneMessage(l) ==
    /\ PollThreadFree
    /\ l \in Remote /\ connected[l]
    /\ writing[l] # 0 /\ Len(wire[l]) < SocketRoom
    /\ wire' = [wire EXCEPT ![l] = Append(@, writing[l])]
    /\ writing' = [writing EXCEPT ![l] = 0]
    /\ UNCHANGED outbox
    /\ UNCHANGED <<links, dropped, swapped, leaving, joining, headerWritten, connected>>
    /\ UNCHANGED publisherVars

\* then message by message (onMessageWritten starts the next).
WriteMessage(l) ==
    /\ PollThreadFree
    /\ l \in Remote /\ connected[l]
    /\ writing[l] # 0 /\ Len(wire[l]) < SocketRoom
    /\ wire' = [wire EXCEPT ![l] = Append(@, writing[l])]
    /\ IF outbox[l] # << >>
       THEN /\ writing' = [writing EXCEPT ![l] = Head(outbox[l])]
            /\ outbox' = [outbox EXCEPT ![l] = Tail(@)]
       ELSE /\ writing' = [writing EXCEPT ![l] = 0]
            /\ UNCHANGED outbox
    /\ UNCHANGED <<links, dropped, swapped, leaving, joining, headerWritten, connected>>
    /\ UNCHANGED publisherVars

\* The subscriber closes a TCP connection: onConnectionDropped calls
\* removeSubscriberLink, which leaves the list to a drop() that has begun.
ConnectionLost(l) ==
    /\ PollThreadFree
    /\ l \in Remote /\ connected[l]
    /\ connected' = [connected EXCEPT ![l] = FALSE]
    /\ wire' = [wire EXCEPT ![l] = << >>]
    /\ links' = IF dropped THEN links ELSE links \ {l}
    /\ UNCHANGED <<dropped, swapped, leaving, joining, outbox, headerWritten, writing>>
    /\ UNCHANGED publisherVars

\* drop(), when the last Publisher goes: the topic is marked, its links are
\* swapped out, and one by one their connections are closed.  What is written
\* to a socket can still be read at its other end.
Drop ==
    /\ TopicsUnlocked /\ ~dropped
    /\ dropped' = TRUE
    /\ UNCHANGED <<links, swapped, leaving, joining>> /\ UNCHANGED publisherVars /\ UNCHANGED linkVars

SwapLinks ==
    /\ dropped /\ ~swapped
    /\ swapped' = TRUE
    /\ leaving' = links
    /\ links' = {}
    /\ UNCHANGED <<dropped, joining>> /\ UNCHANGED publisherVars /\ UNCHANGED linkVars

DropLink(l) ==
    /\ l \in leaving
    /\ leaving' = leaving \ {l}
    /\ connected' = [connected EXCEPT ![l] = FALSE]
    /\ UNCHANGED <<links, dropped, swapped, joining, outbox, headerWritten, writing, wire>>
    /\ UNCHANGED publisherVars
=============================================================================
