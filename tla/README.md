# Verification of ios_roser

ios_roser is an iOS app that records the camera, the IMU and the GPS of a phone into a rosbag
file, publishes them to a ROS master and replays recorded bags. It carries its own copy of the
ROS C++ stack (`roscpp`, `rosbag_storage`, `xmlrpcpp`, `rostime`, `cpp_common`, `rosconsole`).
This directory models the parts with state of their own, checks them on small instances with
TLC, and proves some of the results for every instance with TLAPS.

Paths below are relative to `src/`; `libros/` is `roscpp/src/libros/`.

## The system

| part | code | state | operations |
|---|---|---|---|
| record screen | `IOS_roser/IOS_roser/VC/ViewController.swift`, `VC/SensorSettingVC.swift` | record flags, sample counters, the serial `sessionQueue` | record and publish buttons, camera, GPS and IMU callbacks, list of bags |
| IMU pairing | `VC/SensorSettingVC.swift:562-637` | two sample buffers | accelerometer and gyro handler, `processIMU` |
| publisher | `Model/Publisher.mm` | the one global `bag_ptr`, three ROS publishers | `open`, `close`, `publishImg/Imu/Gps`, `getFrame`, `connectMaster` |
| replay screen | `VC/ReplayVC.swift` | frame position, playing flag | load, play, slider, return |
| rosbag `Bag` | `rosbag_storage/src/bag.cpp`, `include/rosbag/bag.h` | connections, chunks, indexes, chunk buffers | `open`, `write`, `close`, `setChunkThreshold`, `readMessageData*` |
| rosbag files | `rosbag_storage/src/chunked_file.cpp`, `uncompressed_stream.cpp`, `buffer.cpp` | file offset, stdio buffer | `read`, `write`, `seek`, `truncate` |
| rosbag `View` | `rosbag_storage/src/view.cpp`, `query.cpp` | ranges of index entries per query and connection, revisions, iterators | `addQuery`, `update`, `begin`, `increment` |
| `CallbackQueue` | `libros/callback_queue.cpp` | queue, `IDInfo` locks, per-thread lists | `addCallback`, `removeByID`, `callOne`, `callAvailable`, `enable`, `disable`, `clear` |
| spinners | `libros/spinner.cpp` | threads | spin loops |
| publishing | `libros/publication.cpp`, `transport_subscriber_link.cpp`, `intraprocess_subscriber_link.cpp` | publish queue, links, last message, outboxes | `publish`, `processPublishQueue`, `addSubscriberLink`, `drop` |
| subscribing | `libros/subscription.cpp`, `subscription_queue.cpp`, `transport_publisher_link.cpp`, `intraprocess_publisher_link.cpp` | callbacks, bounded queues, links, pending connections | `handleMessage`, `call`, `pubUpdate`, `addCallback`, `removeCallback`, retry |
| `TopicManager` | `libros/topic_manager.cpp` | advertised topics, subscriptions | `advertise`, `unadvertise`, `subscribe`, `unsubscribe`, `publish`, `shutdown` |
| `Connection`, transports, `PollSet`, `PollManager` | `libros/connection.cpp`, `transport/`, `poll_set.cpp`, `poll_manager.cpp` | read and write requests, sockets, the poll thread | `read`, `write`, `drop`, poll loop |
| publisher links | `libros/subscription.cpp`, `transport_publisher_link.cpp`, `xmlrpc_manager.cpp` | pending connections, links, retry timers | `pubUpdate`, `negotiateConnection`, `pendingConnectionDone`, `onHeaderReceived`, `onConnectionDropped`, `onRetryTimer`, `shutdown` |
| UDP | `libros/transport/transport_udp.cpp` | reorder buffer, message ids, read buffer | `write`, `read` |
| timers | `include/ros/timer_manager.h`, `libros/timer.cpp` | the waiting list, `TimerInfo`s, the scheduling thread | `add`, `remove`, `setPeriod`, `schedule`, `start`, `stop` |
| services | `libros/service_manager.cpp`, `service_client.cpp`, `service_server_link.cpp`, `service_publication.cpp`, `service_client_link.cpp` | call queues, links of both ends, advertised services | `call`, `processNextCall`, `callFinished`, `onConnectionDropped`, `advertiseService`, `unadvertiseService`, `processRequest` |
| node | `libros/init.cpp`, `node_handle.cpp`, `poll_manager.cpp`, `xmlrpc_manager.cpp` | flags and mutexes of start and shutdown, threads, the count of handles | `start`, `shutdown`, `requestShutdown`, `checkForShutdown`, `NodeHandle::construct`, `destruct` |
| parameters | `libros/param.cpp`, `master.cpp` | cached and subscribed parameters | `set`, `get`, `getCached`, `del`, `update`, `invalidateParentParams`, `execute` |
| calls of the master | `xmlrpcpp/src/XmlRpcClient.cpp`, `XmlRpcDispatch.cpp`, `XmlRpcServer*.cpp`, `libros/xmlrpc_manager.cpp`, `master.cpp` | cached clients, the connections they keep, the call mutex | `execute`, `handleEvent`, `getXMLRPCClient`, `releaseXMLRPCClient`, `acceptConnection`, `readRequest`, `writeResponse` |
| time | `rostime/src/`, `include/ros/impl/` | the clock, the start of a `Rate`'s cycle | arithmetic, `setNow`, `shutdown`, `Duration::sleep`, `Rate::sleep` |
| the rest | `ConnectionManager`, rosout, names and network | tables, sockets, clocks | see *Not modelled* |

How they meet: the screens run on the main queue and post blocks to `sessionQueue`, which calls
the publisher; the replay screen calls the same publisher, hence the same global bag, from the
main queue. The publisher writes to a `Bag` and, once a master is connected, calls
`TopicManager::publish`. A user thread leaves the message in the publish queue of the
`Publication`; the poll thread gives it to the links, each with an outbox and a `Connection`. At
the other end a poll thread reads it, the `Subscription` pushes it to a bounded queue, and an
entry in the `CallbackQueue` makes a spinner thread call the callback. That the two ends have a
connection at all is the work of the XML-RPC thread, which receives the master's list of publishers
and asks the new ones for a port, of the poll thread, which reads headers and hears of breaks, and of
a timer in the internal queue, which connects again. Timers and services end in the same callback
queue: a timer's thread adds an entry when it is due, the poll thread when a request is complete.
`start()` brings all these threads to life and `shutdown()` waits for them, each of which may be the
one that called it.

What is hard: queues that drop their oldest element between threads that work at their own pace;
locks given up between two halves of an operation (adding a callback, accepting a subscriber,
removing an owner, `unadvertise`); a global bag shared by two queues; a file format whose index
is written last and patched in the middle; a process that can be killed at any point; callbacks that
call back into the object that is calling them (`Connection`); a caller that waits for an answer on a
link that is being dropped; a pending call or timer that keeps others from trying; handles, clocks
and memory that come round again (`TimerManager`); a cache whose fills and updates cross on the
network; a shutdown that meets a start, or is run by a thread it has to wait for.
`PROJECT.json` lists the hazards one by one with the properties that guard them.

## Modules

| module | models | extends |
|---|---|---|
| `Bag` | `rosbag::Bag` over `ChunkedFile` and stdio | |
| `View` | `rosbag::View` and its iterator over a bag that is being written | `Bag` |
| `CallbackQueue` | `ros::CallbackQueue` and the threads that use it | `Filter` |
| `ImuPairing` | the IMU half of `SensorSettingVC` | |
| `Recorder` | the record and replay screens around the global bag | |
| `BoundedFifo`, `TopicLinks` | the drop-oldest discipline of outboxes and subscription queues; the set of links | |
| `Publication` | publish queue, latching, subscriber links, outboxes, drop | `BoundedFifo`, `TopicLinks` |
| `Subscription` | bounded queue, its entries in the callback queue, removal | `BoundedFifo`, `TopicLinks` |
| `Topic` | `Publication` and `Subscription` composed, sockets and local links between them | both |
| `TopicManager` | the tables of topics and subscriptions, their mutexes, local links, the master's list | |
| `TopicChannel` | abstract specification: what a topic promises on each link | `TopicLinks` |
| `PublisherLinks` | how a subscription gets, keeps and loses its links to publishers | |
| `Connection` | `Connection` over `TransportTCP` in the `PollSet`, with each of its four owners | |
| `TransportUDP` | cutting messages into datagrams and joining them again | |
| `TimerManager` | timers, their thread, the handles that use them | |
| `ServiceWire` | the connections of a service, shared by its two ends | |
| `ServiceServerLink` | the client's end of a service | `ServiceWire` |
| `ServicePublication` | the server's end | `ServiceWire` |
| `Services` | both ends composed | both |
| `ParamCache` | the parameter cache and the server it follows | |
| `Node` | start, shutdown, handles, the node's threads, over the cache | `ParamCache` |
| `RosTime` | instants, durations, the clock, `Duration::sleep` and `Rate` | |
| `XmlRpc` | `master::execute` over the cached clients, the dispatcher and a server at the other end | |
| `Filter` | a loop that erases from a list what is not in a set | |
| `AppProofs`, `CallbackQueueProofs`, `FilterProofs`, `NodeProofs`, `PublisherLinksProofs`, `ServicesProofs`, `TimerManagerProofs`, `TopicProofs` | proofs | |
| `MCBag`, `MCCallbackQueue`, `MCConnection`, `MCImuPairing`, `MCNode`, `MCPublisherLinks`, `MCRecorder`, `MCServices`, `MCTimerManager`, `MCTopic`, `MCTopicManager` | instances for TLC | |

### Bag

A file is a sequence of records; the unit of position is the record, so offsets, chunk sizes and
thresholds count records instead of bytes. The stdio buffer is explicit: `Put` buffers, `Seek`
flushes, and a crash keeps any prefix of what was buffered or of what the running call had done
(`torn` collects the contents a call passes through). Each action is one call of the library:
`OpenWrite`, `OpenExisting` (Read and Append), `Write` with everything `doWrite` does (begin a
chunk, connection record, index entry, message, seal the chunk at the threshold),
`SetChunkThreshold`, `ReadMessage`, `Close`, and for failures `WriteFails` (each record of a
write may be the one that throws, those that seal the chunk included), `SealFails` (the seal throws in
`setChunkThreshold` or `close`), `CloseFails` (`stopWriting` throws behind the seal), `Crash` and `CloseDies`
(a null connection left by a failed write is dereferenced). A record is written whole or not at all, and the
two records that `open` writes itself do not fail. `recorded` and `spoiled` are histories: what `write` has
returned for, and which of three ways to spoil a bag without a failed write has happened (`Spoils`; see
*Where the code does not do what it says*).

A message number that the file does not have (`n`) identifies each message. Version 1.2 bags,
encryption and compression are left out; only `NoEncryptor` and no compression are linked.

### View

The ranges of a view are the pairs of a query and a connection it selects, in the order of `ranges_`;
what is in one is read off the index, because every use runs `update()` first. `AddQuery`, `Begin`
and `Increment` are the calls of the library; an iterator is the list of entries its parts point to,
sorted as `ViewIterHelperCompare` sorts them. `stale` is what the revision numbers are compared for:
whether the bag was written since the iterator last looked. An iterator made before a write is
populated again by seeking the entry it stood at.

### CallbackQueue

A step is what a thread does under one acquisition of a lock. A thread's nested calls are the
frames of its `stack`; a frame has a program counter named for the code it stands at
(`add_info` between the push and the making of the `IDInfo`, `rm_wait` while waiting for the
exclusive lock, `calling` within a callback). `shared` counts the shared locks on each
`IDInfo`; objects are numbered because a removed owner that adds again gets a new one. As in
boost, a waiting writer keeps new readers out. `fate`, `added` and `gone` are histories, and so is `escaped` in
`MCCallbackQueue`: the callbacks that a removal finds in another thread's hands.

### ImuPairing

A sample is its time stamp. `Accelerometer` and `Gyroscope` are the two handlers; `Pair` is one
iteration of the outer loop of `processIMU`, because the main queue may change the flags between
two; `Trim` is what follows the loop. The values interpolated are determined by the two
neighbours a sample is paired with, so the neighbours stand for them.

### Recorder

Main-queue handlers, blocks of the session queue and the sensor callbacks are actions. A publish
block is two steps, `RunPublish` (the test `bag_ptr->isOpen()`) and `RunWrite`, and loading a
replay is two (`TouchReplay`, `LoadFrames`), because the other queue runs between them. `asked`
records which samples the user had a right to: those queued between the two taps. A file is its
list of messages and whether it can be read; `Bag` shows that this is what a bag is.

### Topic

`Publication` has the three kinds of thread that touch a publication: user threads
(`Publish`, `Drop` and its parts, local joins), and the poll thread (`TakeBatch`,
`EnqueueMessage`, accepting and listing TCP subscribers, `WriteHeader`, `WriteMessage`,
`ConnectionLost`). Accepting a subscriber is in three steps (validated, listed, given the latched
message), because the lock is given up between them. `Subscription` has `handleMessage` and the
spinner threads; the callback queue in it is a count of entries per subscription, which is what
`CallbackQueue` shows: an entry is in one place and is called once. `Topic` joins the two: a message
given to a local link is handed to its subscription in the same step, one on the wire by
`Receive`.

`TopicChannel` is the promise: on each link messages may be lost, but are never repeated or
overtaken, and the newest is not lost unless the link is cut. `Topic` implements it under the
mapping `pending <- ` everything in the subscription queue, on the wire and in the outbox, `cut <-`
disconnected or unsubscribed.

### PublisherLinks

An attempt is one try to reach a publisher, from `negotiateConnection` to the end of the link it
became; `link[a]` is everything the attempt owns (the pending request, the transport, the timer, its
place in `publisher_links_`). Four threads have a program counter: the user's (`shutdown`,
`dropAllConnections`), the XML-RPC thread (`pubUpdate`, `pendingConnectionDone`), the poll thread
(headers, breaks, the end of an asynchronous `connect`) and the internal queue's (`OnRetryTimer`).
A publisher and its network fail up to `MaxFaults` times in the ways a socket reports them: the call
is refused or unanswered, `connect()` fails at once or later, a link breaks. Time is left out; a timer
that is set may fire. The doubling of the retry period has no effect then.

### Connection and TransportUDP

A thread is a stack of frames, since a callback of `readTransport` or `writeTransport` calls `read` and
`write` of the same connection. Each frame stands at a section under a mutex (`read_mutex_`,
`write_callback_mutex_`, `close_mutex_`, the mutex of the poll set); the poll thread holds `close_mutex_` while it
runs the callbacks of `socketUpdate()`, until that of writing has returned (`Updating`). `has`, `expecting` and `events` are
`has_read_callback_`/`has_write_callback_`, `expecting_read_`/`expecting_write_` and what the poll set
asks for. The four owners of a connection decide what the callbacks do next, so each is a regime.

`TransportUDP` is a publisher link over UDP: what `write()` puts into datagrams and what `read()` makes
of those that arrive, with the two reads of a message (length, then body) that the link asks for.

### TimerManager

The thread's loop is `ManagerThread` (look at the head of the waiting list, hand the callback over,
sleep until the head is due); `Spinner` calls callbacks and sets the next expected time as
`TimerQueueCallback` does. A handle is a number; the address of a freed callback is used again, as the
allocator does. `stop()` is two steps, because `remove` gives its mutexes up before it takes the
callbacks out of the queue. `waiting_.sort()` is described by its result (`Sorted`), not by how it sorts. What a
behaviour may do is its `Regime`; `MaxStarts` and `MaxTime` bound the regimes.

### Services

Both ends are processes of their own, joined by `ServiceWire`, where a connection is open, closed by one
side, or broken. `ServiceServerLink` has the calling threads (`take` a link, `write`, wait for the
`CallInfo`), the poll thread that reads responses and hears of drops, and the user that shuts the handle
or the node down. `clearCalls()` is two sections, as in the code. `ServicePublication` has the user
(advertise, unadvertise), the poll thread (accept by header, read requests, drop) and a spinner. The
callback queue is reliable here; `CallbackQueue` says when it is.

### Node and ParamCache

`at[c]` is where a thread stands in `start()` and `shutdown()`, `back[c]` where it returns to, since both
are called from `NodeHandle` and `shutdown` from `checkForShutdown`. A section under a mutex is one step,
and so is every test of a shared flag. `running` says which of the node's threads live; the poll thread and the
server thread are callers themselves.

`ParamCache` has the sections of `setImpl`, `getImpl`, `del`, `update` and `invalidateParentParams` under
`g_params_mutex`, and each call of the parameter server as one step that may fail before or after the
server acted. The server is external: it tells every subscriber of a change, the one that made it too,
in order. `overtaken` and `missed` are histories that name the keys the known departures below make stale, the root
(`Root`, where the loop of `invalidateParentParams` ends) among them.

### XmlRpc

A request and a response are three units (two of header, one of body) that carry the number of their call; a
socket has room for some of them, so both are written and read in pieces. `Work` is one turn of
`XmlRpcDispatch::work()` with the event it finds: `WriteRequest`, or `Read` with the one retry of a kept
connection that turns out to be closed. `g_xmlrpc_call_mutex` of Apple builds is `call_mutex`: one thread at a
time is between `Execute` and `Worked`, but the cached clients, each with its connection, are shared in turn.
The server is `XmlRpcServer`, as the master or another node runs it. It may end and start again, and a signal
may interrupt `select()`, `rpc_faults` times together; `disturbed` and `executed` are histories of a call. (`shutting_down_`
of `XMLRPCManager` is `rpc_shutting_down_`, as `Subscription` has one of that name.) A client
that a shutdown deletes while it is in use leaves its thread `freed`, which is as far as the model follows it.

### RosTime

An instant is a record of seconds and nanoseconds, of `Second` nanoseconds to the second and as many seconds as `2 * Half`, which is 2^32.
`Carried` is `normalizeSecNSec` in its signed and unsigned forms with the limits it throws at (`Thrown`), and
`Wrapped` is what a sum of two `int32_t` leaves. A loop that sleeps by a `Rate` is a thread that is in the loop,
`asleep` by the system's clock, or goes between a `look` at a clock set by messages and a `nap`. Either clock may
be set forward or back (`SetNow`) and the node may stop at any point.

### TopicManager

A publication and a subscription are named by the handle they were made for; `callbacks` says which
handles share them. A call is a thread's walk through the sections of the function: each step is
what it does under one acquisition of a mutex, and `adv` and `subs` say who holds one of the two
across steps, as `subscribe` holds `subs_mutex_` while it asks the master and then looks for a local
publication. `index` is the iterator `unadvertise` keeps across an unlock and `dangling` the threads
whose iterator a reallocation has ended; using one that is gone, or publishing on a publication
that is, sets `broken`. `TellMaster` waits until the master has answered, as the code does;
`Unregister` is tried once and may be lost. A subscription of type `*` becomes one of the first
type it meets. A local link is one record in the lists of both its ends.

Which calls are in progress together is a parameter, `Overlap`, because not every pair is safe.
`Harmless` in `MCTopicManager` is the largest set of pairs for which the properties hold; each pair
that is not in it breaks one:

| together | what goes wrong |
|---|---|
| `unadvertise` with `advertise` | the new topic is not registered or not among the names; the iterator may dangle |
| `unadvertise` twice | the iterator points at another topic or past the end |
| `unadvertise` with `publish` | a publication that is gone is used |
| `subscribe` with `unsubscribe` | a callback is added to a subscription that is about to be erased |
| `shutdown` with `subscribe` | deadlock: the two mutexes are taken in opposite orders |
| `shutdown` with `advertise` | the topic is registered with the master after it was unregistered |
| `shutdown` with `unadvertise` | the iterator is used after the list was cleared |

## Runs

| run | question | bounds |
|---|---|---|
| `bag` | does an index always lead to its message; is a bag that opens complete; what survives crashes and failed writes; does an iterator visit what is recorded, in order | 2 topics, up to 3 times, up to 4 messages and 4 opens, thresholds of 1 and 2 records (a chunk of one or two messages), 1 crash, 2 failures; six regimes |
| `callback_queue` | is every callback in one place, called once, not after its removal; are they served | 3 threads, 3 callbacks, 2 owners, depth 1 to 3; eight regimes |
| `imu_pairing` | are samples paired with their neighbours, in order, none lost; and, of the clock they are stamped by, is the arithmetic exact and does a `Rate` keep its cycle | time stamps 0 to 4; every instant and duration of 4 bits and 3 nanoseconds to the second, cycles of 2 and 4, one or two settings of the clock |
| `recorder` | what is in the files the user made | 2 recordings, 2 samples, 2 seconds, 1 replay |
| `topic` | does a topic implement `TopicChannel`; does the newest message arrive | a TCP and a local link, queues and socket of one message, 3 messages, 2 spinner threads |
| `topic_manager` | are the tables those of the handles held, local pairs joined, nothing left behind; do calls return; and does the call of the master they wait for get its own answer, once, and return | 2 threads, 2 Publishers and 2 Subscribers of a topic, all types alike or one `Subscriber` of another or of any type; calls of the master: one thread with 3 calls and 2 faults, or two with one each, a fault and a shutdown; socket room 2 |
| `publisher_links` | is a publisher that stays connected to in the end, never twice; does shutdown leave nothing | 1 publisher, 3 updates of the master's list, 3 faults |
| `connection` | are reads and writes that are done in pieces completed, by whichever thread; does a UDP message arrive whole or not at all | 5 kinds of owner in 16 regimes, up to 4 messages of two pieces, socket room 1 or 2; UDP: 3 messages, 2 datagrams lost, 1 late or repeated |
| `timers` | is a timer in one place, called when due and not more often, never after `stop()` | 2 timers, time 0 to 3, four regimes |
| `services` | does a call get its own answer, does every call return, is an unadvertised service left alone | 2 calls, up to 2 links and 2 publications, six regimes |
| `services_hang` | is every call notified when its link is dropped (no) | regime `SharedLink` |
| `node` | does a shutdown end everything, do handles keep the node alive, do cached parameters follow the server, do calls return | 2 threads, 3 handles or 3 calls, a parameter of 2 values in a namespace, another in the root, ten regimes |

Why the bounds suffice. *Bag*: a chunk closes after one or two messages, so 3 to 4 messages give
several chunks, an open one and one sealed in an earlier session; two topics give connections
that are new in a later chunk or session. The regimes split the interface (recording with a
crash, appending, appending to what a crash left, reading, viewing, failed writes): each takes other bounds further.
Four opens are a recording that is appended to, twice in vain, and read. A view has up to two
queries that overlap, made after the first message, and three times, so that a later write falls
before, at and after the iterator. *CallbackQueue*:
races need two threads in the queue and a third that adds; the third also removes, while a spinner stands
between any two steps of a call, or both spinners hold the shared lock of the owner; two owners make a removal affect some
callbacks and spare others; depth 3 is a callback within a callback within a spinner.
*ImuPairing*: four instants give buffers with samples before, between and after. *RosTime*: sums of two
range over all that fit and all that do not; a jump is longer and shorter than a cycle, both ways. *Recorder*: two
recordings are needed for blocks of one to meet the other's bag, two seconds for names that do
and do not collide. *Topic*: with queues of one message every second message pushes one out, in
every queue on the way, and a third shows what follows; in the instances with the local link two
messages are published. *TopicManager*: unsafe pairs of calls are pairs, so two threads; two handles
of a kind share a publication or follow one another on the list. *XmlRpc*: a socket with less room than a
message makes every write partial; a kept connection fails in the second call and once more in the third; two
threads are the fewest that meet in the cache or in a shutdown. The two are independent, so an instance takes
steps of one or of the other. *PublisherLinks*: publishers do not
share anything but the locks, so one (`OnePerPublisher` is proved for any number); three updates let it come, go and come back while the first
attempt is still pending, three faults fail a request, a connection and a retry. *Connection*: a
message of two pieces with a socket that takes one of them is the partial read and write; the number of
messages lets a second begin while the first is pending. *TransportUDP*: bodies of 0, 3 and 5 units with room for
two make one to three datagrams, ids start at 254 and wrap; two losses hit a first and a later
datagram. *TimerManager*: two timers pass each other on the list, two addresses are the fewest that
can be used again. The bound on time is too small for the branch of `updateNext` that moves a timer on by whole periods
(`timer_manager.h:413`); that one is covered by the proof of `NoMoreThanDue`. *Services*: two calls are one in progress and one queued; the second publication is the
one advertised in place of the first. *Node*: two threads are the two that start, shut down, or hold the
first and the last handle; regimes that ask about parameters begin with a node that has been through
`start()`.

Deadlock is not checked: every instance may stop when its bounds are used up or the user does
nothing more. Waiting that should end is stated by liveness properties instead.

### Fairness

Fairness is the code's own loops; nothing is assumed of the user. `CallbackQueue`: every thread that is inside the queue goes on (`Progress`), callbacks return,
and spinner threads keep spinning. `Topic`: the poll thread, user threads within a call, the
thread reading the sockets and each spinner thread do what they find to do: weak fairness of the
thread as a whole, never of one action, since a thread does one thing at a time. The code
justifies it: these are plain loops over a queue or a poll set (`poll_manager.cpp:80-99`,
`spinner.cpp`). Nobody has to publish, connect, disconnect or unsubscribe. `TopicManager`: a call that has begun goes on when the mutex it
wants is free and the master answers; nobody has to begin one. Weak fairness is enough because
every thread gives its mutexes up after finitely many steps and `publish`, which can come for
ever, holds its mutex for one step. `XmlRpc`: each thread and each connection of the server weakly, and a server that has ended
is started again, since the code waits for the master however long it takes (`master.cpp:216`). `PublisherLinks`: each thread goes on, breaks are noticed and
calls answered or timed out; the retry timer has strong fairness, as its callback waits in a queue while
locks come and go. `Connection`: the poll thread and the peer weakly, the other threads strongly: they
wait for mutexes that the poll thread takes again and again. It is stated for TCP only; what is said of UDP is
safety. `TimerManager`: time goes on to its bound, the manager's thread, the spinner and a removal that has begun.
`Services`: each caller, poll thread, user call and spinner weakly. `Node`: the poll thread, the server
thread and the internal thread weakly, the user's threads strongly, for the same reason as in `Connection`.

### What the properties say

Each module has one type invariant, `TypeOK`, which is a conjunct of its first property.

* `bag`: `IndexMatchesFile` (through the chunk buffers, too), `OpenedBagIsComplete` (crashes: either the
  open fails or everything is there), `SealedDataStays`,
  `VisitsInOrder` (an iterator comes to every message from where it stands on, in the order of time, once,
  while the bag grows). After a failed write the index may have an entry without a message, as the code
  enters it first (`bag.h:600`), and a chunk whose seal failed is listed and sealed once more (`bag.h:611`). What is
  claimed of such bags is that every message whose write returned is still reached while the bag is open, and that sealed data
  stays; the rest is stated for runs without a failure. `spoiled` excepts, by name, a chunk sealed at a
  misplaced offset, a bag emptied by a failed open for append, and, of what is read back, a chunk begun with a full buffer.
* `callback_queue`: `InOnePlace` (with the balance of shared locks, and what `isEmpty()` is worth),
  `NoCallAfterRemoval` (but for the callbacks that `escaped`; running ones are waited for), and the liveness
  properties `EventuallyServed` (with callbacks that try again for ever, too, except that one whose `ready()` says no
  may be passed by for ever by them) and `RemovalReturns`.
* `imu_pairing`: `SentInOrder`, `BetweenNeighbours`, `NoGyroLost`; of `RosTime` `ArithmeticExact` (what can be held is
  exact, the rest is thrown, but for seconds that wrap) and `KeepsRate` (a loop does not run ahead, does not drift,
  and is told the truth about being late).
* `recorder`: `RecordedIsPrefix` (sequence numbers do not go back, either), `FinishedIsComplete`, `SignMeansRecording`. A
  replay during a recording takes the bag away from it, so two of them say "without a replay".
* `topic`: `GivenAndScheduled` (the latched message is given, and what is queued is scheduled:
  `EveryMessageScheduled`), `ImplementsChannel` (the refinement),
  `NewestArrives` (and what a drop forgets).
* `topic_manager`: `TablesAgree` (`HandlesServed`: the tables, the names and the master against the handles
  held; `LinksAgree`: each of two calls may miss the other, but not both, and no link is left behind),
  `CallsReturn`; and of `XmlRpc` `AnsweredOnce` (a call has its own answer, on whatever kept connection, and is
  executed again only after a fault) and `ExecuteReturns`.
* `publisher_links`: `OnePerPublisher` (with `DeadLinkIsRetried`), `ServedInTheEnd`, `ShutdownClosesAll`. A
  publisher may be given up in four ways, named by `abandoned`: `connect()` fails at once (`unreachable`), the
  connection breaks before the link listens to it (`unheard`), the publisher refuses the request or the header
  (`refused`), or the request breaks off, which `executeCheckDone()` never reports (`call`). Nothing tries again
  before the master sends another list; and in the last case not even then, as the pending entry stays, and with
  it `pubUpdate` takes the publisher for one that is being connected to.
* `connection`: `NothingForgotten` (no two operations at once, and what waits for the socket is asked for),
  `Completes` (what was begun ends; mutexes taken in both orders, `close_mutex_` among them for as long as callbacks
  run under it, make a circle only where several calls share a link), `WholeOrNothing` (UDP).
* `timers`: `TimerInOnePlace` (waiting, in the queue or being called; and the thread sleeps no longer than the
  head of the list), `NoMoreThanDue`, `StopIsFinal`, `DueIsCalled`.
* `services`: `AnswersOwnRequest`, `NoOrphans`, `NoCallAfterUnadvertise`, `CallsReturn`, each but for the drop
  that overtakes a call, which the histories `raced`, `late` and `broken` name.
* `node`: `RunsWhileWanted`, `CacheFollowsServer`, `CallsEnd` (a shutdown that was requested is done, too).

### Where the code does not do what it says

The run `services_hang` looks for the violation of a statement and finds it: `clearCalls()` reads
`current_call_` in one section of `call_queue_mutex_` and empties the queue in another
(`service_server_link.cpp:93`). A call that `processNextCall()` moves from the queue to `current_call_` in
between is in neither, and its thread waits for ever, although `service_server_link.h:125` promises "Clear all
calls, notifying them that they've failed".

The other disagreements are excepted by name in the properties, or outside what the properties ask:

* The size of an open chunk is computed from the file offset (`bag.cpp:453`), which reading an older chunk, or a
  seal that threw, has moved; `close()` and `setChunkThreshold()` then write a wrong size, and index records over what
  lies there (`misplaced`). The app does not read from a bag it writes.
* An open for append that fails (a recording that has no index after a crash) leaves the file open with no connections
  known; the `close()` behind it, or the destructor, writes a header over 0 connections (`bag.cpp:171`, `bag.cpp:269`), and
  the bag opens from then on without an error and empty (`emptied`).
* `setChunkThreshold()` seals the open chunk without clearing `outgoing_chunk_buffer_` (`bag.cpp:198`), and a `Bag` that is
  closed and opened again keeps it, too: messages of the next chunk that are read before it is sealed come out of the
  wrong place of the buffer (`shifted`).
* A chunk is entered in `chunks_` before it is sealed (`bag.cpp:448`); when the seal throws, the next write or `close()`
  enters and seals it again, and the index of the closed bag names it twice.
* An iterator that is populated again goes by time (`view.cpp:92`): among messages of equal stamps it may skip
  some or come back to some when the bag was written meanwhile.
* A block still in the session queue may close the bag that the replay screen has just opened, and
  `getFrameInfo` asserts that it is open (`Publisher.mm:188`).
* `callOneCB` finds the `IDInfo` and only then takes its shared lock (`callback_queue.cpp:366`); a `removeByID`
  of another thread fits in between, and the callback is called after the removal has returned; so is one that another
  thread has popped and not yet looked up, if its owner has come back meanwhile (`escaped`).
* A callback that removes its own owner, adds a callback of it again and removes it once more gives up a shared
  lock on the new `IDInfo`, of which it holds none (`callback_queue.cpp:163`): the count goes below zero and the
  removal waits for ever. In the proofs `shared` is therefore an integer; no regime of the run does this.
* A message published by pointer goes to local subscribers at once; one published before they connected
  reaches them later through the poll thread (`publication.cpp:403`), against the order promised in
  `subscribe_options.h:125`.
* Giving up the last Publisher of a topic while another is being made unregisters the topic by name
  (`topic_manager.cpp:441`) after the new one has registered it, although `publisher.h:128` says that only its
  own advertisement goes.
* When `connect()` fails at once in the retry timer nothing sets `needs_retry_` again
  (`transport_publisher_link.cpp:226`): the link stays in the list and is never retried.
* Two threads that begin writes on one connection may leave `expecting_write_` set with the event disabled
  (`transport_tcp.cpp:591`); what is left to the poll thread is then forgotten, against `connection.h:142`.
* A duplicated or late datagram makes `TransportUDP::read` return with bytes of another message already
  copied; the spoiled message is handed on. And the last datagram received may wait in `reorder_buffer_`
  until another arrives.
* A timer: a oneshot timer fires again when the clock is set back after it has fired; the callback queue
  removes by address, so that removing an old timer may drop the callback of a new one at the same address;
  and a callback that is added before its owner's `IDInfo` is made is dropped if it is called first (`lost`). After the clock is set back the list is not sorted again (`jumped`).
* A service: a response may be written to a call that has given up and returned; a connection accepted while
  the service is being unadvertised is entered in the dropped publication and still served (`late`).
* The parameter cache: a fetched value that an update overtook is cached; when `getParam` fails `getCached()`
  caches what was in the caller's variable (`param.cpp:313`) against `param.h:229`; a change between the fetch
  and the subscription is missed; `set()` caches its value even when a shutdown ended its retries.
  `invalidateParentParams` stops before the root (`param.cpp:56`), which `getImpl` does cache (`param.cpp:257`): after
  `getCached("/")` an update of any parameter leaves what is cached of "/" stale, until "/" itself is set or deleted. After a
  restart `paramUpdate` is not bound and nothing cached follows the server any more.
* A call of the master: when a shutdown comes while `execute()` sleeps between two attempts it returns `true`
  without an answer (`master.cpp:239`), against `include/ros/master.h:52`. A request that is tried again, by the client on a
  new connection or by `execute()`, may have been executed before. `XMLRPCManager::shutdown` waits a tenth of a
  second for a client in use and then deletes it all the same.
* Time: a difference of two instants (`impl/time.h:79`) and a sum of two durations (`impl/duration.h:74`) wrap
  silently when their seconds leave 32 bits, although the constructor throws when a carry does; so does
  `Duration::fromNSec`. A difference just below 2^31 seconds is thrown although it can be held, and taking away
  the least duration adds it. `WallRate::sleep` returns true when the cycle was missed, `Rate::sleep` false.
* A latched topic: a local subscriber that joins while the poll thread hands a message out is given it twice, by
  the poll thread and as the last message (`publication.cpp`, `addSubscriberLink`).
* A node: a `shutdown()` that overtakes `start()` waits for the poll thread while `start()`, which
  `PollManager::start` made forget the request, waits for the mutex it holds: both wait for ever (`cutShort`),
  although the comment at `init.cpp:422` says this was taken care of. A `start()` that meets the shutdown
  of a node that was not started makes it wait for ever (`overlap`), and a `shutdown()` that overtakes the first
  `start()` between `g_started = true` and the managers follows a null pointer (`crashed`). Before any `start()` it does not:
  `init.cpp:594` asks for `g_started`.

## Proofs

TLAPS proves what follows for every value of the constants: any number of threads, links, samples,
recordings, any size of queues. Each argument is an inductive invariant; what it adds to the property is
what the code relies on without saying so.

| module | theorem | states |
|---|---|---|
| `AppProofs` | `RecordingsArePrefixes`, `StoppingLosesNothing`, `SignFollowsBag`; `TypeCorrect`, `HandedOverInOrder`, `PairedBetweenNeighbours`, `NoGyroscopeSampleIsLost`; `SumsAreExact` | of `Recorder` `RecordedIsPrefix`, `FinishedIsComplete`, `SignMeansRecording`; of `ImuPairing` `ImuTypeOK`, `SentInOrder`, `BetweenNeighbours`, `NoGyroLost`; of `RosTime` `ArithmeticExact` |
| `CallbackQueueProofs` | `CallbacksAreInOnePlace` | `InOnePlace` |
| `TopicProofs` | `MessagesStandInARow`, `LinksAreChannels`, `ChannelInvariant`, `ChannelInOrder`, `ChannelKeepsNewest`, `SubscribersAreServed`, `AlwaysGivenAndScheduled` | `ImplementsChannel`, what it is worth to implement the channel, so what subscribers are promised, `GivenAndScheduled` |
| `PublisherLinksProofs` | `PublisherIsConnectedOnce`; `CallsAnsweredOnce` | `OnePerPublisher`; of `XmlRpc` `AnsweredOnce` |
| `ServicesProofs` | `Invariant`, `AlwaysAnswersOwnRequest`, `AlwaysNoOrphans`, `NeverCallsAfterUnadvertise` | `AnswersOwnRequest`, `NoOrphans`, `NoCallAfterUnadvertise` |
| `TimerManagerProofs` | `TimersAreInOnePlace`, `NeverMoreThanDue`, `StoppedTimersAreNotCalled` | `TimerInOnePlace`, `NoMoreThanDue`, `StopIsFinal` |
| `NodeProofs` | `CacheFollowsTheServer`, `NodeRunsWhileWanted` | `CacheFollowsServer`, `RunsWhileWanted` |
| `FilterProofs` | `FilterKeepsOrder`, `FilterSelects` | what a loop that erases from a list leaves |

*ImuPairing.* Both buffers are increasing and hold delivered samples; the accelerometer buffer holds
every delivered sample from its first on (a trimmed sample is older than all that is kept); in the loop
the samples sent are older than the gyro samples still to be looked at, and sequence numbers are
below the counter. `Invariance` has one lemma per action. For `NoGyroLost` a second invariant, `LossInv`,
says what the loop has done with every gyro sample it has passed: each was sent, or had no pair yet, and the
last of those that were sent is the one `Trim` cuts at, so that what it throws away has been sent or was never
to be paired.

*CallbackQueue.* A step changes one frame of one thread (`OnlyFrame`), so the invariant says of every
frame what the code needs of the topmost. Queue, lists and calls hold different callbacks, whose
`fate` tells where they are (`QueueInv`, `HeldInv`, `RunInv`). `calling_` is at least the number of callbacks held or
running and of those that frames have finished and not yet taken off (`CountInv`): only at least, as a nested
`callAvailable` counts what the outer one holds once more. The balance of the shared locks needs that only
the topmost frame of a thread can have given one up. Each callback makes at most one `IDInfo`, when its
`addCallback` ends (`InfoInv`), which bounds their number. What `removeByID` leaves in the queue is
`FilterSelects`. `NoCallAfterRemoval`, whose exception is a history of `MCCallbackQueue`, stays with TLC.

*Topic.* The messages between `publish()` and a callback stand in a row: through the publish queue, the
batch the poll thread took, the outbox, the write in progress, the socket and the subscription's queue, each
newer than all that are further on (`OrderInv`). Of the pending messages of a link the newest is therefore at the
near end of the first place that is not empty, where no queue drops it; so each step of `Topic` is a step
of `TopicChannel` or leaves it as it was (`LinksAreChannels`), and `ChannelInOrder` and `ChannelKeepsNewest` hold
of subscribers (`SubscribersAreServed`). For `GivenAndScheduled`: the entries of a link in the callback queue,
and the threads that have taken one, are at least as many as its messages (`Covered`), and whoever is
between being listed and being given the last message is in the hands of the one poll thread (`Joining`).

*Recorder.* Open and close blocks cut the session queue into runs of publish blocks. The run behind an open
block holds the samples of that recording and no others; and so do, together, the file being written, the block that
is half done and the run at the head of the queue (`Accounted`). A run has no close block behind it exactly
when its record sign is on (`Switched`).

*PublisherLinks.* `negotiateConnection` hands the call to the XML-RPC thread before it enters it in
`pending_connections_`. What saves it is `shutdown_mutex_`: of the user's and the XML-RPC thread only one is in the
subscription (`Excluded`), so that an answered call is in the set or its thread is just entering it (`LinkOK`). A publisher
that `pubUpdate` has found missing has no call, no link and no connection in the making until it is asked itself
(`Unserved`), so at most one attempt is on its way to it (`OneEach`). That a dead link is tried again needs to be known of
a link from the moment its connection is made, before it is listed: what breaks it then leaves a timer or is one
of the four reasons to give up. Each list names a publisher once, so `MaxUpdates + 1` lists make no more
attempts than `Attempt` has (`Counted`).

*XmlRpc.* A client in use is of exactly one thread (`CallersOK`), and each client has a connection of its own (`ClientsOK`). What
lies on a connection, written, in the socket and read, are consecutive pieces of one message: of the request, or of the
beginning of one that was broken off (`Requests`), and for the thread at work of its own request or of the response to it
(`Exchange`). A kept connection is therefore empty when it is used again, and a response that is complete
is the one to the call that reads it. For the number of executions: the connections on which the server may still execute a
call and the executions there were are together at most one more than the times it was disturbed, and not more than those
while its thread has yet to send the request again (`Executions`).

*Services.* A connection carries one message at a time, be it written, queued, served, on its way back or in the hands of a
thread of the client (`InOnePlace`), and what it carries is the header, or belongs to the call that is the current one of its
link (`Carried`). A call that its link has yet to answer is of a thread on that link; if it is already finished, the link was
dropped (`Calling`, `ChargedOK`), and only a drop that overtook the thread between two of its critical sections leaves such
calls behind (`DropOK`). So a response that is read is of the call that reads it. A connection the server
has accepted is in the list of its publication until one of the two drops it; a publication past its drop
has only those left in its list that entered it while it was dropped (`Published`, `ParentOK`, the set `late`). A callback
begins by a request in the queue of callbacks, whose connection is in such a list.

*TimerManager.* No two timers in use have the same address (`AddressesOK`); but a removal that has not ended
still has the address it is for, and that may be a new timer's by now. The callback queue knows the address of
each callback it holds, or is just being told (`Entered`), and a callback that removes another timer has an
address other than its own, so that it does not make the queue forget the callback that is being called: therefore the
user's `remove()` finds its callback or waits for it (`StoppedTimersAreNotCalled`). A timer that has been called `n` times is
expected no earlier than `n + 1` periods after the clock began (`Paced`). That `waiting_.sort()` has a result is proved by
induction over the length of the list (`SortExists`).

*Node, the cache.* Whoever is in `set()` or subscribes holds `g_params_mutex`, so that for all others the server
knows every parameter in `g_subscribed_params` (`MutexHeld`, `SubscribedOK`) and therefore sends news of it. Three
values are the server's unless news of the difference is on its way: what is cached (`CacheOK`), what was fetched and
not overtaken since (`FetchOK`), and what `set()` is about to cache (`SetOK`). That a renewed value may be relied on needs that
the last of the news of a parameter tells the value there is (`NewsOK`), and that a namespace cannot be told
of in part: of two names with a leaf in common one is above the other (`Tree`), so every change reaches `invalidateParentParams`,
whose loop passes over the root alone (`Around`): what is cached of it counts as missed once news of something below has come.

*Node, its threads.* Whoever starts, shuts down, constructs or destructs a handle holds the mutex of that (`NodeMutexes`),
so there is one thread in `start()` at most and one in `shutdown()`, and what either has done so far can be told from where it
is (`StartOK`, `ShutOK`, `Down`). Between two lives nobody starts
or shuts down, and a shutdown that is not exempted meets no `start()` that has yet to start a thread (`Lives`). A thread that shuts down as it gave up the last handle holds the mutex of the count,
so that none is made meanwhile (`Counted`), and while nobody has asked for a shutdown only such a thread shuts
down (`Unasked`): handles keep their node. `cutShort` and `overlap` are the lives the property exempts (see above);
the types and the mutexes are proved of them too.

*RosTime.* `SumsAreExact` is about every state whose clock is an instant; it does not follow from a specification, and that
`Rate` keeps to its schedule (`KeepsRate`) stays with TLC.

*Induction over data.* Where a recursive definition has to be reasoned about, `FilterProofs` proves induction over
a set of naturals from the well-foundedness of inclusion among finite sets (`Induction`), without the library's
theorems that take an operator as a parameter.

Assumptions: the named ones in the modules (`LocalAssumption`, `PublicationAssumption`,
`CallbackQueueAssumption`, `NodeAssumption`, `XmlRpcAssumption`, bounds in `Nat`), which TLC evaluates in the runs. Not proved, only model-checked:
`NoCallAfterRemoval`, and everything about the modules that are not in the table. Liveness and `ENABLED` are out of the
prover's reach and stay with TLC; so does what a fold computes: the contents of a file
(`Contents` in `Bag`) and the merge that orders a `View`.

## Not modelled

`PROJECT.json` lists every part. What is left out, and why:

* `BagPlayer`: a loop over a `View` that sleeps by the clock; the app does not use it. Encryptors: only the one
  that copies is linked. Version 1.2 bags and compression: not written by this code, nothing links a
  compressor.
* The text of messages: parsing of headers that are malformed, XML, serialization, names, remapping, network
  addresses. They are functions without state; the models only tell apart what they are compared for.
* Logging (`rosconsole`, rosout) and statistics: they change nothing the rest reads. (`ROSOutAppender::logThread`
  waits without looking at its queue first, so that an entry logged while it publishes waits for the next.)
* In `XmlRpc`: the XML, malformed headers, multicalls and introspection, the clients of other nodes and the
  reaping of those that were idle for long. Nothing calls `setRetryTimeout`, so retries have no end. The models
  that call the master (`TopicManager`, `ParamCache`) take a call as one step with its outcomes.
* Of `rostime` floating point (`fromSec`, `toSec`, scaling), `sleepUntil`, `waitForValid` and `Rate::reset`; the other
  modules take clocks as integers. Starting and stopping of spinners, and the destructor of a timer.
* In `Connection`: the listening sockets and `ConnectionManager`. One connection is modelled, a message has at
  most two pieces, and `NothingForgotten` is stated with one writer beside the poll thread.
* In `Services`: client and server are separate processes, the `CallbackQueue` between them and the user is
  reliable.
* In `Node`: the flags `start()` sets together are one step, the six functions `XMLRPCManager::shutdown`
  unbinds are one; the global callback queue's `disable` and `clear` and `ConnectionManager::shutdown` change
  nothing that is modelled.
* In `TopicManager` and `PublisherLinks`: `requestTopic` at the publisher's end is answered or not; statistics and
  subscriber status callbacks.

## Plan

Done: the tables, the links, connections, timers, services, the node's life, parameters, views and calls of the master. What is left:

1. Proofs: the invariants of `TopicManager` and `Connection`.
2. Modelling: start and stop of spinners;
   `BagPlayer`.
